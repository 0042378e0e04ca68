--------------------------- MODULE SchedulerProofs ---------------------------
(***************************************************************************)
(* Proofs about Scheduler, for every list of threads the boot code makes   *)
(* and every choice of those it makes with interrupts off.                 *)
(*                                                                         *)
(* Under Spec, where a timer interrupt may come at any moment interrupts   *)
(* are on: the types, and that one thread at most is RUNNING.              *)
(* Under QuietSpec: the shape of the ready queue (Inv), from which no      *)
(* assertion fails, the threads take turns in the order of creation, the   *)
(* walk over the queue meets every thread, and each step is one of         *)
(* RoundRobin.                                                             *)
(***************************************************************************)
EXTENDS Scheduler, FiniteSetTheorems, WellFoundedInduction, TLAPS

-----------------------------------------------------------------------------
(* The invariant of the ready queue.                                       *)

n == Len(made)

Inserting == pc \in {"set_ready", "clear_next", "set_prev", "load_last",
                     "store", "set_last"}

(* The threads that were made are made once, and in the order of           *)
(* BootThreads; the one being inserted is the last of them.                *)
MadeInv ==
  /\ \A i, j \in 1 .. n : made[i] = made[j] => i = j
  /\ \A i \in 1 .. n : \E j \in 1 .. Len(BootThreads) :
       made[i] = BootThreads[j] /\ (j < k \/ (Inserting /\ j = k))
  /\ Inserting => /\ k <= Len(BootThreads)
                  /\ n > 0
                  /\ made[n] = BootThreads[k]
  /\ pc = "link" => k <= Len(BootThreads)
  /\ pc \in {"threading_setup", "scheduler_setup"} => made = <<>>

(* Who has the processor, and in which state the others are.               *)
StateInv ==
  /\ ~halted
  /\ pc = "threading_setup" <=> current = NULL
  /\ pc # "threading_setup" => \E i \in 0 .. n : current = Node(i)
  /\ Inserting \/ pc \in {"scheduler_setup", "link"} => current = Idle
  /\ current # NULL => state[current] = "RUNNING"
  /\ \A i \in 0 .. n :
       /\ pc # "threading_setup"
       /\ Node(i) # current
       /\ ~(pc = "set_ready" /\ i = n)
       => state[Node(i)] = "READY"

(* made[1] ... made[n] are linked in this order, and the last has no next. *)
Chained ==
  /\ \A i \in 1 .. n - 1 : links.next[made[i]] = made[i + 1]
  /\ links.next[made[n]] = NULL

(* No timer interrupt yet since the first insertion: the queue is the      *)
(* chain, and Idle is not on it.                                           *)
Fresh ==
  /\ current = Idle
  /\ Chained
  /\ links.next[ReadyQ] = made[1]
  /\ links.prev[made[1]] = ReadyQ
  /\ links.last[ReadyQ] = made[n]

(* The ring, opened after the running thread, which is last on the queue.  *)
RingFrom(l, c) ==
  /\ l.next[ReadyQ] = Node(Successor(c))
  /\ l.prev[Node(Successor(c))] = ReadyQ
  /\ l.last[ReadyQ] = Node(c)
  /\ \A i \in 0 .. n : i # c => l.next[Node(i)] = Node(Successor(i))

Turning ==
  \E c \in 0 .. n : /\ current = Node(c)
                    /\ RingFrom(links, c)
                    /\ links.next[current] = NULL

(* While the last thread made is being inserted: the insertion in          *)
(* kernel_threads has already linked it after its predecessor.             *)
InsertInv ==
  /\ Chained
  /\ n = 1 => links.last[ReadyQ] = ReadyQ
  /\ n > 1 => links.last[ReadyQ] \in {made[n - 1], Idle}
  /\ links.next[ReadyQ] = IF n = 1 /\ pc # "set_last" THEN NULL ELSE made[1]
  /\ n > 1 \/ pc \in {"load_last", "store", "set_last"} => links.prev[made[1]] = ReadyQ
  /\ pc = "store" => addr = links.last[ReadyQ]

(* With no thread but Idle, which a queue of one element brings back.      *)
AloneInv ==
  \/ links.next[ReadyQ] = NULL /\ links.last[ReadyQ] = ReadyQ
  \/ pc = "hang" /\ links.next[ReadyQ] = Idle /\ links.last[ReadyQ] = Idle

LinksInv ==
  /\ pc # "threading_setup" => links.last[KernelQ] = Node(n)
  /\ Inserting => InsertInv
  /\ pc \in {"create", "link", "hang"} => IF n = 0 THEN AloneInv ELSE Fresh \/ Turning

Inv == TypeOK /\ MadeInv /\ StateInv /\ LinksInv

-----------------------------------------------------------------------------
(* Tail queues: the operations keep the links well formed, and what each   *)
(* of them stores.                                                         *)

LEMMA StoresTyped ==
  ASSUME NEW l \in Links(Thread, Queues), NEW h \in Queues, NEW e \in Thread,
         NEW a \in Cell(Thread, Queues)
  PROVE  /\ InitHead(l, h) \in Links(Thread, Queues)
         /\ ClearNext(l, e) \in Links(Thread, Queues)
         /\ SetPrev(l, h, e) \in Links(Thread, Queues)
         /\ StoreAt(l, a, e) \in Links(Thread, Queues)
         /\ SetLast(l, h, e) \in Links(Thread, Queues)
  BY DEF Links, Cell, InitHead, ClearNext, SetPrev, StoreAt, SetLast

(* The four stores of TAILQ_INSERT_TAIL put together.                      *)
LEMMA InsertTailFields ==
  ASSUME NEW l \in Links(Thread, Queues), NEW h \in Queues, NEW e \in Thread
  PROVE  /\ InsertTail(l, h, e) \in Links(Thread, Queues)
         /\ InsertTail(l, h, e).next = [l.next EXCEPT ![e] = NULL, ![l.last[h]] = e]
         /\ InsertTail(l, h, e).prev = [l.prev EXCEPT ![e] = l.last[h]]
         /\ InsertTail(l, h, e).last = [l.last EXCEPT ![h] = e]
<1> DEFINE linked == SetPrev(ClearNext(l, e), h, e)
<1>1. /\ linked \in Links(Thread, Queues)
      /\ linked.next = [l.next EXCEPT ![e] = NULL]
      /\ linked.prev = [l.prev EXCEPT ![e] = l.last[h]]
      /\ linked.last = l.last
  BY DEF Links, Cell, ClearNext, SetPrev
<1>2. InsertTail(l, h, e) = SetLast(StoreAt(linked, linked.last[h], e), h, e)
  BY DEF InsertTail
<1> HIDE DEF linked
<1> DEFINE stored == StoreAt(linked, linked.last[h], e)
<1>3. linked.last[h] \in Cell(Thread, Queues)
  BY <1>1 DEF Links
<1>4. /\ stored \in Links(Thread, Queues)
      /\ stored.next = [linked.next EXCEPT ![linked.last[h]] = e]
      /\ stored.prev = linked.prev
      /\ stored.last = linked.last
  BY <1>1, <1>3 DEF Links, Cell, StoreAt
<1> HIDE DEF stored
<1>5. /\ SetLast(stored, h, e) \in Links(Thread, Queues)
      /\ SetLast(stored, h, e).next = stored.next
      /\ SetLast(stored, h, e).prev = stored.prev
      /\ SetLast(stored, h, e).last = [stored.last EXCEPT ![h] = e]
  BY <1>4 DEF Links, Cell, SetLast
<1> QED
  BY <1>1, <1>2, <1>4, <1>5 DEF stored

(* Cell by cell, which is how the steps of a proof use it.                 *)
LEMMA InsertTailEffect ==
  ASSUME NEW l \in Links(Thread, Queues), NEW h \in Queues, NEW e \in Thread,
         NEW r, r = InsertTail(l, h, e)
  PROVE  /\ r \in Links(Thread, Queues)
         /\ r.next[l.last[h]] = e
         /\ l.last[h] # e => r.next[e] = NULL
         /\ \A x \in Cell(Thread, Queues) : x # e /\ x # l.last[h] => r.next[x] = l.next[x]
         /\ r.prev[e] = l.last[h]
         /\ \A x \in Thread : x # e => r.prev[x] = l.prev[x]
         /\ r.last[h] = e
         /\ \A x \in Queues : x # h => r.last[x] = l.last[x]
<1>1. /\ r \in Links(Thread, Queues)
      /\ r.next = [l.next EXCEPT ![e] = NULL, ![l.last[h]] = e]
      /\ r.prev = [l.prev EXCEPT ![e] = l.last[h]]
      /\ r.last = [l.last EXCEPT ![h] = e]
  BY InsertTailFields
<1>2. /\ l.next \in [Cell(Thread, Queues) -> Thread \cup {NULL}]
      /\ l.prev \in [Thread -> Cell(Thread, Queues)]
      /\ l.last \in [Queues -> Cell(Thread, Queues)]
  BY DEF Links
<1> QED
  BY <1>1, <1>2 DEF Cell

LEMMA RemoveTyped ==
  ASSUME NEW l \in Links(Thread, Queues), NEW h \in Queues, NEW e \in Thread
  PROVE  Remove(l, h, e) \in Links(Thread, Queues)
  BY DEF Links, Cell, Remove

-----------------------------------------------------------------------------
(* Under Spec.                                                             *)

LEMMA BootThreadsTyped ==
  /\ Len(BootThreads) \in Nat
  /\ \A i \in 1 .. Len(BootThreads) : BootThreads[i] \in Boots
  /\ Boots \subseteq Thread
  /\ Idle \in Thread
<1>1. Len(BootThreads) \in Nat /\ DOMAIN BootThreads = 1 .. Len(BootThreads)
  BY SchedulerAssumption
<1> QED
  BY <1>1 DEF Boots, Thread

(* What schedule() computes is well formed, and it takes a thread. *)
LEMMA ScheduleTyped ==
  ASSUME TypeOK, current # NULL
  PROVE  /\ Requeued \in Links(Thread, Queues)
         /\ StateAfter \in [Thread -> States]
         /\ NextThread \in Thread \cup {NULL}
         /\ NextThread # NULL => Rotated \in Links(Thread, Queues)
<1>1. current \in Thread /\ ReadyQ \in Queues
  BY DEF TypeOK, Queues
<1>2. Requeued \in Links(Thread, Queues)
  BY <1>1, InsertTailFields DEF TypeOK, Requeued
<1>3. StateAfter \in [Thread -> States]
  BY <1>1 DEF TypeOK, StateAfter, States
<1>4. NextThread \in Thread \cup {NULL}
  BY <1>1, <1>2 DEF NextThread, First, Links, Cell
<1>5. ASSUME NextThread # NULL PROVE Rotated \in Links(Thread, Queues)
  <2>1. NextThread \in Thread
    BY <1>4, <1>5
  <2>2. Remove(Requeued, ReadyQ, NextThread) \in Links(Thread, Queues)
    BY <1>1, <1>2, <2>1, RemoveTyped
  <2> QED
    BY <1>1, <2>1, <2>2, InsertTailFields DEF Rotated
<1> QED
  BY <1>2, <1>3, <1>4, <1>5

(* TypeOK holds step by step only with the place of k in BootThreads, and  *)
(* OneRunning only with the fact that nothing runs before threading_setup. *)
SafeInv ==
  /\ TypeOK
  /\ pc = "threading_setup" => current = NULL
  /\ Inserting \/ pc = "link" => k <= Len(BootThreads)
  /\ OneRunning

LEMMA SafeInit == Init => SafeInv
<1> SUFFICES ASSUME Init PROVE SafeInv
  OBVIOUS
<1>1. links \in Links(Thread, Queues)
  BY DEF Init, Links, ZeroLinks, Cell
<1>2. TypeOK
  <2>1. state \in [Thread -> States] /\ made \in Seq(Boots)
    BY DEF Init, States
  <2>2. k \in 1 .. Len(BootThreads) + 1 /\ addr \in Cell(Thread, Queues)
    BY BootThreadsTyped DEF Init, Cell
  <2>3. /\ current \in Thread \cup {NULL} /\ intr \in BOOLEAN /\ halted \in BOOLEAN
        /\ pc = "threading_setup"
    BY DEF Init
  <2> QED
    BY <1>1, <2>1, <2>2, <2>3 DEF TypeOK
<1>3. OneRunning
  BY DEF Init, OneRunning
<1> QED
  BY <1>2, <1>3 DEF Init, SafeInv, Inserting

LEMMA SafeStep == SafeInv /\ [Next]_vars => SafeInv'
<1> SUFFICES ASSUME SafeInv, [Next]_vars PROVE SafeInv'
  OBVIOUS
<1> USE DEF SafeInv
<1>t. /\ ReadyQ \in Queues /\ KernelQ \in Queues
      /\ Idle \in Thread /\ Idle \notin Boots /\ NULL \notin Thread
  BY BootThreadsTyped, SchedulerAssumption DEF Queues
<1>b. k <= Len(BootThreads) => T \in Boots /\ T \in Thread
  BY BootThreadsTyped DEF TypeOK, T
<1>1. CASE ThreadingSetup
  <2>1. links' \in Links(Thread, Queues)
    BY <1>1, <1>t, StoresTyped, InsertTailFields DEF ThreadingSetup, TypeOK, Cell
  <2>2. TypeOK'
    BY <1>1, <1>t, <2>1 DEF ThreadingSetup, TypeOK, States
  <2>3. OneRunning'
    BY <1>1, <1>t DEF ThreadingSetup, BootAt, TypeOK, OneRunning
  <2> QED
    BY <1>1, <2>2, <2>3 DEF ThreadingSetup, Inserting
<1>2. CASE SchedulerSetup
  <2>1. links' \in Links(Thread, Queues)
    BY <1>2, <1>t, StoresTyped DEF SchedulerSetup, TypeOK, Cell
  <2> QED
    BY <1>2, <2>1 DEF SchedulerSetup, TypeOK, OneRunning, Inserting
<1>3. CASE DisableIRQs
  BY <1>3 DEF DisableIRQs, bootVars, TypeOK, OneRunning, Inserting
<1>4. CASE EnableIRQs
  BY <1>4 DEF EnableIRQs, bootVars, TypeOK, OneRunning, Inserting
<1>5. CASE Allocate
  <2>1. TypeOK' /\ k <= Len(BootThreads)
    BY <1>5 DEF Allocate, CallerReady, TypeOK, States
  <2>2. OneRunning'
    BY <1>5, <1>t, <1>b, <2>1 DEF Allocate, BootAt, TypeOK, OneRunning
  <2> QED
    BY <1>5, <2>1, <2>2 DEF Allocate, Inserting
<1>6. CASE AllocateFails
  BY <1>6, BootThreadsTyped DEF AllocateFails, BootAt, CallerReady, TypeOK, OneRunning, Inserting
<1>7. CASE LinkKernel
  <2>1. k <= Len(BootThreads)
    BY <1>7 DEF LinkKernel, BootAt
  <2>2. links' \in Links(Thread, Queues)
    BY <1>7, <1>t, <1>b, <2>1, InsertTailFields DEF LinkKernel, TypeOK
  <2>3. made' \in Seq(Boots)
    BY <1>7, <1>b, <2>1 DEF LinkKernel, TypeOK
  <2> QED
    BY <1>7, <2>1, <2>2, <2>3 DEF LinkKernel, TypeOK, OneRunning, Inserting
<1>8. CASE SetReady
  <2>1. k <= Len(BootThreads)
    BY <1>8 DEF SetReady, BootAt, Inserting
  <2>2. TypeOK'
    BY <1>8 DEF SetReady, TypeOK, States
  <2>3. OneRunning'
    BY <1>8, <1>t, <1>b, <2>1 DEF SetReady, BootAt, TypeOK, OneRunning
  <2> QED
    BY <1>8, <2>1, <2>2, <2>3 DEF SetReady
<1>9. CASE InsClearNext \/ InsSetPrev \/ InsLoadLast \/ InsStore
  <2>1. k <= Len(BootThreads) /\ addr \in Cell(Thread, Queues)
    BY <1>9 DEF InsClearNext, InsSetPrev, InsLoadLast, InsStore, BootAt, Inserting, TypeOK
  <2>a. links.last[ReadyQ] \in Cell(Thread, Queues)
    BY <1>t DEF TypeOK, Links
  <2>2. links' \in Links(Thread, Queues) /\ addr' \in Cell(Thread, Queues)
    BY <1>9, <1>t, <1>b, <2>1, <2>a, StoresTyped
       DEF InsClearNext, InsSetPrev, InsLoadLast, InsStore, TypeOK
  <2> QED
    BY <1>9, <2>1, <2>2
       DEF InsClearNext, InsSetPrev, InsLoadLast, InsStore, TypeOK, OneRunning
<1>10. CASE InsSetLast
  <2>1. k <= Len(BootThreads)
    BY <1>10 DEF InsSetLast, BootAt, Inserting
  <2>2. links' \in Links(Thread, Queues) /\ addr' \in Cell(Thread, Queues)
    BY <1>10, <1>t, <1>b, <2>1, StoresTyped DEF InsSetLast, TypeOK, Cell
  <2> QED
    BY <1>10, <2>1, <2>2, BootThreadsTyped DEF InsSetLast, TypeOK, OneRunning, Inserting
<1>11. CASE Return
  BY <1>11 DEF Return, TypeOK, OneRunning, Inserting
<1>12. CASE Tick
  <2>1. CASE ~AssertsHold
    BY <1>12, <2>1 DEF Tick, bootVars, TypeOK, OneRunning, Inserting
  <2>2. CASE AssertsHold
    <3>1. current # NULL /\ current \in Thread /\ NextThread \in Thread
      BY <1>12, <2>2, ScheduleTyped DEF Tick, AssertsHold, TypeOK
    <3>2. TypeOK'
      BY <1>12, <2>2, <3>1, ScheduleTyped DEF Tick, AssertsHold, bootVars, TypeOK, States
    <3>3. StateAfter = [state EXCEPT ![current] = "READY"]
      BY <2>2 DEF AssertsHold, StateAfter, Preempted
    <3>4. OneRunning'
      BY <1>12, <1>t, <2>2, <3>1, <3>3 DEF Tick, TypeOK, OneRunning
    <3> QED
      BY <1>12, <2>2, <3>1, <3>2, <3>4 DEF Tick, bootVars, Inserting
  <2> QED
    BY <2>1, <2>2
<1>13. CASE UNCHANGED vars
  BY <1>13 DEF vars, bootVars, TypeOK, OneRunning, Inserting
<1> QED
  BY <1>1, <1>2, <1>3, <1>4, <1>5, <1>6, <1>7, <1>8, <1>9, <1>10, <1>11, <1>12, <1>13
     DEF Next, BootStep

LEMMA SafeAlways == Spec => []SafeInv
  BY SafeInit, SafeStep, PTL DEF Spec

(* The types, whenever the timer interrupts come. *)
THEOREM TypeCorrect == Spec => []TypeOK
<1>1. SafeInv => TypeOK
  BY DEF SafeInv
<1> QED
  BY <1>1, SafeAlways, PTL

(* RUNNING is the state of the current thread and of no other, whenever    *)
(* the timer interrupts come (thread_set_current, add_in_ready_queue).     *)
THEOREM OneThreadRunning == Spec => []OneRunning
<1>1. SafeInv => OneRunning
  BY DEF SafeInv
<1> QED
  BY <1>1, SafeAlways, PTL

-----------------------------------------------------------------------------
(* Under QuietSpec: what a timer interrupt does to the ring.               *)

LEMMA RingNodes ==
  ASSUME TypeOK, MadeInv
  PROVE  /\ n \in Nat
         /\ \A i \in 0 .. n : Node(i) \in Thread /\ Successor(i) \in 0 .. n
         /\ \A i \in 1 .. n : made[i] \in Thread /\ made[i] # Idle
         /\ \A i, j \in 0 .. n : Node(i) = Node(j) => i = j
         /\ n > 0 => \A i \in 0 .. n : Successor(i) # i
         /\ \A i, j \in 0 .. n : Successor(i) = Successor(j) => i = j
         /\ ReadyQ \in Queues /\ KernelQ \in Queues /\ ReadyQ # KernelQ
         /\ Queues \cap Thread = {} /\ NULL \notin Thread /\ NULL \notin Queues
<1>1. n \in Nat /\ \A i \in 1 .. n : made[i] \in Boots
  BY DEF TypeOK, n
<1>2. \A i \in 1 .. n : made[i] \in Thread /\ made[i] # Idle
  BY <1>1, BootThreadsTyped, SchedulerAssumption
<1>3. \A i \in 0 .. n : Node(i) \in Thread /\ Successor(i) \in 0 .. n
  BY <1>1, <1>2, BootThreadsTyped DEF Node, Successor, n
<1>4. \A i, j \in 0 .. n : Node(i) = Node(j) => i = j
  BY <1>1, <1>2 DEF Node, MadeInv
<1>5. \A i, j \in 0 .. n : Successor(i) = Successor(j) => i = j
  BY <1>1 DEF Successor, n
<1>6. n > 0 => \A i \in 0 .. n : Successor(i) # i
  BY <1>1 DEF Successor, n
<1> QED
  BY <1>1, <1>2, <1>3, <1>4, <1>5, <1>6, SchedulerAssumption DEF Queues

(* TAILQ_REMOVE of the first element when another one follows it.          *)
LEMMA RemoveFirst ==
  ASSUME NEW q \in Links(Thread, Queues), NEW h \in Queues,
         NEW f \in Thread, NEW s \in Thread,
         f # s, h \notin Thread, NULL \notin Thread,
         q.prev[f] = h, q.next[f] = s,
         NEW m, m = Remove(q, h, f)
  PROVE  /\ m \in Links(Thread, Queues)
         /\ m.next[h] = s
         /\ \A x \in Cell(Thread, Queues) : x # h => m.next[x] = q.next[x]
         /\ m.prev[s] = h
         /\ m.last = q.last
<1>1. m \in Links(Thread, Queues)
  BY RemoveTyped
<1>2. s # NULL
  OBVIOUS
<1>3. /\ q.prev \in [Thread -> Cell(Thread, Queues)]
      /\ q.next \in [Cell(Thread, Queues) -> Thread \cup {NULL}]
      /\ h \in Cell(Thread, Queues)
  BY DEF Links, Cell
<1>4. [q.prev EXCEPT ![s] = h][f] = h
  BY <1>3
<1>5. /\ m.next = [q.next EXCEPT ![h] = s]
      /\ m.prev = [q.prev EXCEPT ![s] = h]
      /\ m.last = q.last
  BY <1>2, <1>4 DEF Remove
<1> QED
  BY <1>1, <1>3, <1>5

(* The head is taken off and put back at the tail: the ring opens one      *)
(* thread further.                                                         *)
LEMMA RotateRing ==
  ASSUME TypeOK, MadeInv, n > 0,
         NEW c \in 0 .. n, NEW q \in Links(Thread, Queues), RingFrom(q, c),
         NEW f, f = Node(Successor(c)),
         NEW r, r = InsertTail(Remove(q, ReadyQ, f), ReadyQ, f)
  PROVE  /\ RingFrom(r, Successor(c))
         /\ r.next[f] = NULL
         /\ r.last[KernelQ] = q.last[KernelQ]
<1> DEFINE d == Successor(c)
<1>1. PICK s : s = Node(Successor(d))
  OBVIOUS
<1>2. PICK m : m = Remove(q, ReadyQ, f)
  OBVIOUS
<1>3. /\ d \in 0 .. n /\ Successor(d) \in 0 .. n
      /\ d # c /\ Successor(d) # d
      /\ f \in Thread /\ s \in Thread /\ Node(c) \in Thread
      /\ f = Node(d) /\ f # s /\ f # Node(c)
  BY <1>1, RingNodes
<1>4. /\ q.next[f] = s
      /\ q.prev[f] = ReadyQ
      /\ q.last[ReadyQ] = Node(c)
  BY <1>1, <1>3 DEF RingFrom
<1>5. /\ m \in Links(Thread, Queues)
      /\ m.next[ReadyQ] = s
      /\ \A x \in Cell(Thread, Queues) : x # ReadyQ => m.next[x] = q.next[x]
      /\ m.prev[s] = ReadyQ
      /\ m.last = q.last
  BY <1>2, <1>3, <1>4, RingNodes, RemoveFirst
<1>6. /\ r.next[Node(c)] = f
      /\ r.next[f] = NULL
      /\ \A x \in Cell(Thread, Queues) : x # f /\ x # Node(c) => r.next[x] = m.next[x]
      /\ \A x \in Thread : x # f => r.prev[x] = m.prev[x]
      /\ r.last[ReadyQ] = f
      /\ \A x \in Queues : x # ReadyQ => r.last[x] = m.last[x]
  <2>1. r = InsertTail(m, ReadyQ, f) /\ ReadyQ \in Queues /\ m.last[ReadyQ] = Node(c)
    BY <1>2, <1>4, <1>5, RingNodes
  <2>2. m \in Links(Thread, Queues) /\ f \in Thread /\ Node(c) # f
    BY <1>3, <1>5
  <2> QED
    BY ONLY <2>1, <2>2, InsertTailEffect
<1>7. /\ r.next[ReadyQ] = s
      /\ r.prev[s] = ReadyQ
      /\ r.last[KernelQ] = q.last[KernelQ]
  BY <1>3, <1>5, <1>6, RingNodes DEF Cell
<1>8. ASSUME NEW i \in 0 .. n, i # d PROVE r.next[Node(i)] = Node(Successor(i))
  <2>1. Node(i) \in Thread /\ Node(i) # f
    BY <1>3, <1>8, RingNodes
  <2>2. CASE i = c
    BY <1>6, <2>2
  <2>3. CASE i # c
    <3>1. Node(i) # Node(c)
      BY <2>3, RingNodes
    <3> QED
      BY <1>5, <1>6, <2>1, <2>3, <3>1, RingNodes DEF RingFrom, Cell
  <2> QED
    BY <2>2, <2>3
<1> QED
  BY <1>1, <1>3, <1>6, <1>7, <1>8 DEF RingFrom

(* Re-inserting the running thread closes the ring: it is linked after the *)
(* last thread if it was not on the queue, and to itself if it was last.   *)
LEMMA RequeueRing ==
  ASSUME TypeOK, MadeInv, n > 0, NEW c \in 0 .. n, current = Node(c),
         state[current] = "RUNNING", Fresh \/ Turning
  PROVE  /\ Requeued \in Links(Thread, Queues)
         /\ RingFrom(Requeued, c)
         /\ Requeued.last[KernelQ] = links.last[KernelQ]
<1>1. PICK a : a = links.last[ReadyQ]
  OBVIOUS
<1>2. current \in Thread /\ links \in Links(Thread, Queues)
  BY RingNodes DEF TypeOK
<1>3. /\ Requeued \in Links(Thread, Queues)
      /\ \A x \in Cell(Thread, Queues) : x # current /\ x # a => Requeued.next[x] = links.next[x]
      /\ Requeued.next[a] = current
      /\ \A x \in Thread : x # current => Requeued.prev[x] = links.prev[x]
      /\ Requeued.last[ReadyQ] = current
      /\ \A x \in Queues : x # ReadyQ => Requeued.last[x] = links.last[x]
  <2>1. Requeued = InsertTail(links, ReadyQ, current) /\ ReadyQ \in Queues
    BY RingNodes DEF Requeued, Preempted
  <2> QED
    BY <1>1, <1>2, <2>1, InsertTailEffect
<1>4. CASE Fresh
  <2>1. /\ c = 0 /\ Successor(c) = 1 /\ Node(1) = made[1] /\ a = made[n]
        /\ 1 \in 1 .. n /\ n \in 1 .. n /\ current = Idle
    BY <1>1, <1>4, RingNodes DEF Fresh, Node, Successor, n
  <2>2. a \in Thread /\ made[1] \in Thread /\ made[1] # current
    BY <2>1, RingNodes
  <2>3. Requeued.next[ReadyQ] = made[1] /\ Requeued.prev[made[1]] = ReadyQ
    BY <1>2, <1>3, <1>4, <2>2, RingNodes DEF Fresh, Cell
  <2>4. ASSUME NEW i \in 0 .. n, i # c PROVE Requeued.next[Node(i)] = Node(Successor(i))
    <3>1. i \in 1 .. n /\ Node(i) = made[i] /\ made[i] \in Thread /\ made[i] # Idle
      BY <2>1, <2>4, RingNodes DEF Node
    <3>2. CASE i = n
      BY <1>3, <2>1, <3>1, <3>2 DEF Node, Successor, n
    <3>3. CASE i # n
      <4>1. made[i] # made[n] /\ i \in 1 .. n - 1
        <5>1. \A x, y \in 1 .. n : made[x] = made[y] => x = y
          BY DEF MadeInv
        <5>2. n \in Nat
          BY RingNodes
        <5> QED
          BY ONLY <2>1, <3>1, <3>3, <5>1, <5>2
      <4>2. links.next[made[i]] = made[i + 1]
        BY <1>4, <4>1 DEF Fresh, Chained
      <4>3. Requeued.next[made[i]] = links.next[made[i]]
        BY <1>3, <2>1, <3>1, <4>1 DEF Cell
      <4>4. Node(Successor(i)) = made[i + 1]
        BY <3>1, <3>3, RingNodes DEF Node, Successor, n
      <4> QED
        BY <3>1, <4>2, <4>3, <4>4
    <3> QED
      BY <3>2, <3>3
  <2> QED
    BY <1>3, <2>1, <2>3, <2>4, RingNodes DEF RingFrom
<1>5. CASE Turning
  <2>1. RingFrom(links, c)
    BY <1>5, RingNodes DEF Turning
  <2>2. a = current
    BY <1>1, <2>1 DEF RingFrom
  <2>3. Node(Successor(c)) \in Thread /\ Node(Successor(c)) # current
    BY RingNodes
  <2>4. /\ Requeued.next[ReadyQ] = Node(Successor(c))
        /\ Requeued.prev[Node(Successor(c))] = ReadyQ
    BY <1>2, <1>3, <2>1, <2>2, <2>3, RingNodes DEF RingFrom, Cell
  <2>5. ASSUME NEW i \in 0 .. n, i # c PROVE Requeued.next[Node(i)] = Node(Successor(i))
    <3>1. Node(i) \in Thread /\ Node(i) # current
      BY <2>5, RingNodes
    <3> QED
      BY <1>3, <2>1, <2>2, <2>5, <3>1 DEF RingFrom, Cell
  <2> QED
    BY <1>3, <2>4, <2>5, RingNodes DEF RingFrom
<1> QED
  BY <1>4, <1>5

(* A timer interrupt with no thread but Idle: the queue becomes <<Idle>>,  *)
(* and Idle is the only thread found there.                                *)
LEMMA TickAlone ==
  ASSUME TypeOK, MadeInv, n = 0, current = Idle, state[Idle] = "RUNNING",
         pc = "hang", AloneInv
  PROVE  /\ NextThread = Idle
         /\ Rotated.next[ReadyQ] = Idle
         /\ Rotated.last[ReadyQ] = Idle
         /\ Rotated.last[KernelQ] = links.last[KernelQ]
<1>1. /\ Idle \in Thread /\ ReadyQ \in Queues /\ KernelQ \in Queues
      /\ ReadyQ # KernelQ /\ ReadyQ # Idle /\ Idle # NULL /\ ReadyQ # NULL
  BY BootThreadsTyped, SchedulerAssumption DEF Queues
<1>2. links \in Links(Thread, Queues)
  BY DEF TypeOK
<1>3. /\ Requeued \in Links(Thread, Queues)
      /\ links.last[ReadyQ] # Idle => Requeued.next[Idle] = NULL
      /\ Requeued.next[links.last[ReadyQ]] = Idle
      /\ links.last[ReadyQ] = Idle => Requeued.next[ReadyQ] = links.next[ReadyQ]
      /\ Requeued.prev[Idle] = links.last[ReadyQ]
      /\ Requeued.last[ReadyQ] = Idle
      /\ Requeued.last[KernelQ] = links.last[KernelQ]
  <2>1. Requeued = InsertTail(links, ReadyQ, Idle)
    BY DEF Requeued, Preempted
  <2> QED
    BY <1>1, <1>2, <2>1, InsertTailEffect DEF Cell
<1>4. Requeued.next[ReadyQ] = Idle
  BY <1>3 DEF AloneInv
<1>5. PICK m : m = Remove(Requeued, ReadyQ, Idle)
  OBVIOUS
<1>6. m \in Links(Thread, Queues)
  BY <1>1, <1>3, <1>5, RemoveTyped
<1>7. /\ \/ m.last[ReadyQ] = ReadyQ
         \/ m.last[ReadyQ] = Idle /\ m.next[ReadyQ] = Idle
      /\ m.last[KernelQ] = links.last[KernelQ]
  <2>1. CASE links.last[ReadyQ] = ReadyQ
    <3>1. m.last = [Requeued.last EXCEPT ![ReadyQ] = ReadyQ]
      BY <1>1, <1>3, <1>5, <2>1 DEF Remove
    <3> QED
      BY <1>1, <1>3, <3>1 DEF Links
  <2>2. CASE links.last[ReadyQ] = Idle
    <3>1. Requeued.prev \in [Thread -> Cell(Thread, Queues)]
      BY <1>3 DEF Links
    <3>2. [Requeued.prev EXCEPT ![Idle] = Idle][Idle] = Idle
      BY <1>1, <3>1
    <3>3. /\ m.last = Requeued.last
          /\ m.next = [Requeued.next EXCEPT ![Idle] = Idle]
      BY <1>1, <1>3, <1>5, <2>2, <3>2 DEF Remove
    <3> QED
      BY <1>1, <1>3, <1>4, <3>3 DEF Links, Cell
  <2> QED
    BY <2>1, <2>2 DEF AloneInv
<1>8. NextThread = Idle /\ Rotated = InsertTail(m, ReadyQ, Idle)
  BY <1>4, <1>5 DEF NextThread, First, Rotated
<1>9. /\ Rotated.next[m.last[ReadyQ]] = Idle
      /\ m.last[ReadyQ] = Idle => Rotated.next[ReadyQ] = m.next[ReadyQ]
      /\ Rotated.last[ReadyQ] = Idle
      /\ Rotated.last[KernelQ] = m.last[KernelQ]
  <2>1. Rotated = InsertTail(m, ReadyQ, Idle)
    BY <1>8
  <2> QED
    BY ONLY <1>1, <1>6, <2>1, InsertTailEffect DEF Cell
<1> QED
  BY <1>7, <1>8, <1>9

(* A timer interrupt with threads: no assertion fails and the processor    *)
(* goes to the successor.                                                  *)
LEMMA TickRing ==
  ASSUME Inv, n > 0, pc \in {"create", "hang"}, NEW c \in 0 .. n, current = Node(c)
  PROVE  /\ AssertsHold
         /\ NextThread = Node(Successor(c))
         /\ RingFrom(Rotated, Successor(c))
         /\ Rotated.next[NextThread] = NULL
         /\ Rotated.last[KernelQ] = links.last[KernelQ]
<1> USE DEF Inv
<1>1. state[current] = "RUNNING" /\ (Fresh \/ Turning)
  BY RingNodes DEF StateInv, LinksInv, Inserting
<1>2. PICK q : q = Requeued
  OBVIOUS
<1>3. /\ q \in Links(Thread, Queues)
      /\ RingFrom(q, c)
      /\ q.last[KernelQ] = links.last[KernelQ]
  BY <1>1, <1>2, RequeueRing
<1>4. NextThread = Node(Successor(c))
  BY <1>2, <1>3 DEF NextThread, First, RingFrom
<1>5. Rotated = InsertTail(Remove(q, ReadyQ, NextThread), ReadyQ, NextThread)
  BY <1>2 DEF Rotated
<1>6. /\ RingFrom(Rotated, Successor(c))
      /\ Rotated.next[NextThread] = NULL
      /\ Rotated.last[KernelQ] = q.last[KernelQ]
  BY <1>3, <1>4, <1>5, RotateRing
<1>7. AssertsHold
  <2>1. Successor(c) \in 0 .. n /\ NextThread \in Thread /\ NextThread # current /\ NextThread # NULL
    BY <1>4, RingNodes
  <2>2. state[NextThread] = "READY"
    BY <1>4, <2>1 DEF StateInv
  <2>3. StateAfter[NextThread] = "READY"
    BY <1>1, <2>1, <2>2 DEF StateAfter, Preempted, TypeOK
  <2> QED
    BY <1>1, <2>1, <2>3 DEF AssertsHold
<1> QED
  BY <1>3, <1>4, <1>6, <1>7

-----------------------------------------------------------------------------
(* The invariant, step by step.                                            *)

LEMMA InvInit == Init => Inv
<1> SUFFICES ASSUME Init PROVE Inv
  OBVIOUS
<1>1. made = <<>> /\ n = 0 /\ pc = "threading_setup" /\ current = NULL /\ ~halted
  BY DEF Init, n
<1>2. MadeInv
  BY <1>1 DEF MadeInv, Inserting
<1>3. StateInv
  BY <1>1 DEF StateInv, Inserting
<1>4. LinksInv
  BY <1>1 DEF LinksInv, Inserting
<1> QED
  BY <1>2, <1>3, <1>4, SafeInit DEF Inv, SafeInv

(* A timer interrupt. *)
LEMMA InvTick ==
  ASSUME Inv, TypeOK', QuietTick
  PROVE  Inv'
<1> USE DEF Inv
<1>1. /\ pc \in {"create", "hang"} /\ UNCHANGED <<pc, k, addr, made, intr>>
      /\ pc = "create" => n > 0
      /\ halted' = ~AssertsHold
      /\ AssertsHold => /\ links' = Rotated
                        /\ state' = [StateAfter EXCEPT ![NextThread] = "RUNNING"]
                        /\ current' = NextThread
  BY DEF QuietTick, Tick, bootVars, n, TypeOK
<1>2. n' = n /\ (\A i : Node(i)' = Node(i) /\ Successor(i)' = Successor(i))
  BY <1>1 DEF n, Node, Successor
<1>3. MadeInv'
  BY <1>1, <1>2 DEF MadeInv, Inserting
<1>4. PICK c \in 0 .. n : current = Node(c)
  BY <1>1 DEF StateInv
<1>5. current \in Thread /\ state[current] = "RUNNING"
      /\ StateAfter = [state EXCEPT ![current] = "READY"]
  BY <1>4, RingNodes DEF StateInv, StateAfter, Preempted
<1>6. CASE n = 0
  <2>1. current = Idle /\ pc = "hang" /\ AloneInv
    BY <1>1, <1>4, <1>6 DEF Node, LinksInv
  <2>2. /\ NextThread = Idle
        /\ Rotated.next[ReadyQ] = Idle
        /\ Rotated.last[ReadyQ] = Idle
        /\ Rotated.last[KernelQ] = links.last[KernelQ]
    BY <1>5, <1>6, <2>1, TickAlone
  <2>3. AssertsHold
    BY <1>5, <2>1, <2>2, SchedulerAssumption, RingNodes DEF AssertsHold, TypeOK
  <2>4. StateInv'
    BY <1>1, <1>2, <1>5, <1>6, <2>1, <2>2, <2>3, RingNodes
       DEF StateInv, Inserting, Node, TypeOK
  <2>5. LinksInv'
    BY <1>1, <1>2, <1>6, <2>1, <2>2, <2>3 DEF LinksInv, Inserting, AloneInv
  <2> QED
    BY <1>3, <2>4, <2>5
<1>7. CASE n > 0
  <2>0. PICK d \in 0 .. n : d = Successor(c)
    BY RingNodes
  <2>1. /\ AssertsHold
        /\ NextThread = Node(d)
        /\ RingFrom(Rotated, d)
        /\ Rotated.next[NextThread] = NULL
        /\ Rotated.last[KernelQ] = links.last[KernelQ]
    BY <1>1, <1>4, <1>7, <2>0, TickRing
  <2>2. Node(d) \in Thread /\ Node(d) # NULL
    BY RingNodes
  <2>3. StateInv'
    <3>1. state'[Node(d)] = "RUNNING"
      BY <1>1, <1>5, <2>1, <2>2 DEF TypeOK
    <3>2. ASSUME NEW i \in 0 .. n, Node(i) # Node(d) PROVE state'[Node(i)] = "READY"
      BY <1>1, <1>5, <2>1, <3>2, RingNodes DEF StateInv, TypeOK
    <3> QED
      BY <1>1, <1>2, <2>1, <2>2, <3>1, <3>2 DEF StateInv, Inserting
  <2>4. LinksInv'
    <3>1. links' = Rotated /\ current' = Node(d) /\ links'.next[current'] = NULL
      BY <1>1, <2>1
    <3>2. RingFrom(links, d)'
      BY <1>2, <2>1, <3>1 DEF RingFrom
    <3>3. Turning'
      BY <1>2, <2>2, <3>1, <3>2 DEF Turning
    <3> QED
      BY <1>1, <1>2, <1>7, <2>1, <3>1, <3>3 DEF LinksInv, Inserting
  <2> QED
    BY <1>3, <2>3, <2>4
<1> QED
  BY <1>6, <1>7, RingNodes

(* The steps that set the queues up, or that leave them alone. *)
LEMMA InvSetup ==
  ASSUME Inv, TypeOK', ThreadingSetup \/ SchedulerSetup
  PROVE  Inv'
<1> USE DEF Inv
<1>t. /\ Idle \in Thread /\ ReadyQ \in Queues /\ KernelQ \in Queues
      /\ ReadyQ # KernelQ /\ links \in Links(Thread, Queues) /\ Idle # NULL
  BY BootThreadsTyped, SchedulerAssumption DEF Queues, TypeOK
<1>1. /\ UNCHANGED <<k, addr, made, halted>> /\ made = <<>> /\ n = 0 /\ n' = 0
      /\ current' = Idle /\ ~halted
      /\ pc' = "scheduler_setup" \/ pc' = "create"
      /\ pc # "link" /\ pc # "hang" /\ ~Inserting /\ ~Inserting'
  BY DEF ThreadingSetup, SchedulerSetup, BootAt, MadeInv, StateInv, n, Inserting
<1>2. MadeInv'
  BY <1>1 DEF MadeInv
<1>3. StateInv'
  <2>1. state'[Idle] = "RUNNING"
    BY <1>t, <1>1 DEF ThreadingSetup, SchedulerSetup, BootAt, StateInv, TypeOK
  <2> QED
    BY <1>t, <1>1, <2>1 DEF StateInv, Node
<1>4. LinksInv'
  <2>1. CASE ThreadingSetup
    <3>1. PICK z : z = InitHead(links, KernelQ)
      OBVIOUS
    <3>2. PICK l : l = InsertTail(z, KernelQ, Idle)
      OBVIOUS
    <3>3. z \in Links(Thread, Queues)
      BY <1>t, <3>1, StoresTyped DEF Cell
    <3>4. l \in Links(Thread, Queues) /\ l.last[KernelQ] = Idle
      BY ONLY <1>t, <3>2, <3>3, InsertTailEffect
    <3>5. links' = InsertTail(l, ReadyQ, Idle)
      BY <2>1, <3>1, <3>2 DEF ThreadingSetup
    <3>6. links'.last[KernelQ] = Idle
      BY ONLY <1>t, <3>4, <3>5, InsertTailEffect
    <3> QED
      BY <1>1, <2>1, <3>6 DEF ThreadingSetup, LinksInv, Node
  <2>2. CASE SchedulerSetup
    <3>1. links' = InitHead(links, ReadyQ) /\ pc = "scheduler_setup"
      BY <2>2 DEF SchedulerSetup, BootAt
    <3>2. /\ links'.next[ReadyQ] = NULL
          /\ links'.last[ReadyQ] = ReadyQ
          /\ links'.last[KernelQ] = links.last[KernelQ]
      BY <1>t, <3>1 DEF InitHead, Links, Cell
    <3> QED
      BY <1>1, <3>1, <3>2 DEF LinksInv, AloneInv, Node
  <2> QED
    BY <2>1, <2>2
<1> QED
  BY <1>2, <1>3, <1>4

LEMMA InvCalls ==
  ASSUME Inv, TypeOK',
         DisableIRQs \/ EnableIRQs \/ Allocate \/ AllocateFails \/ Return
  PROVE  Inv'
<1> USE DEF Inv
<1>1. /\ pc = "create" /\ pc' \in {"create", "link", "hang"}
      /\ UNCHANGED <<links, current, made, halted>>
      /\ ~Inserting /\ ~Inserting'
      /\ k' \in {k, k + 1}
      /\ pc' = "link" => k' <= Len(BootThreads)
      /\ current = Idle
  <2>1. pc = "create" /\ current = Idle
    BY DEF DisableIRQs, EnableIRQs, Allocate, AllocateFails, Return, BootAt, StateInv
  <2> QED
    BY <2>1 DEF DisableIRQs, EnableIRQs, Allocate, AllocateFails, Return, CallerReady,
                bootVars, Inserting
<1>2. n' = n /\ (\A i : Node(i)' = Node(i) /\ Successor(i)' = Successor(i))
  BY <1>1 DEF n, Node, Successor
<1>k. k \in Nat
  BY DEF TypeOK
<1>3. MadeInv'
  BY <1>1, <1>2, <1>k DEF MadeInv
<1>4. StateInv'
  <2>1. \A i \in 0 .. n : state'[Node(i)] = state[Node(i)]
    <3>1. CASE Allocate
      <4>1. k \in 1 .. Len(BootThreads) /\ state' = [state EXCEPT ![BootThreads[k]] = "CREATED"]
        BY <3>1, BootThreadsTyped DEF Allocate, CallerReady, TypeOK, T
      <4>2. \A i \in 1 .. n : made[i] # BootThreads[k]
        BY <1>1, <1>k, <4>1, SchedulerAssumption DEF MadeInv
      <4>3. Idle # BootThreads[k]
        BY <4>1, BootThreadsTyped, SchedulerAssumption
      <4>4. \A i \in 0 .. n : Node(i) # BootThreads[k]
        BY <4>2, <4>3, RingNodes DEF Node
      <4> QED
        BY <4>1, <4>4, RingNodes DEF TypeOK
    <3> QED
      BY <3>1 DEF DisableIRQs, EnableIRQs, AllocateFails, Return
  <2>2. current = Node(0)
    BY <1>1 DEF Node
  <2>3. 0 \in 0 .. n
    BY RingNodes
  <2>4. state'[current] = "RUNNING"
    BY <1>1, <2>1, <2>2, <2>3, RingNodes DEF StateInv
  <2> QED
    BY <1>1, <1>2, <2>1, <2>2, <2>3, <2>4, RingNodes DEF StateInv
<1>5. LinksInv'
  <2>1. Fresh => Fresh'
    BY <1>1, <1>2 DEF Fresh, Chained, n
  <2>2. Turning => Turning'
    BY <1>1, <1>2 DEF Turning, RingFrom
  <2>3. AloneInv => AloneInv'
    BY <1>1 DEF AloneInv
  <2> QED
    BY <1>1, <1>2, <2>1, <2>2, <2>3 DEF LinksInv
<1> QED
  BY <1>3, <1>4, <1>5

(* The insertion in kernel_threads links the new thread after the one made *)
(* before it, or after Idle: where the ready queue wants it as well.       *)
LEMMA InvLinkKernel ==
  ASSUME Inv, TypeOK', LinkKernel
  PROVE  Inv'
<1> USE DEF Inv
<1>1. /\ pc = "link" /\ pc' = "set_ready" /\ current = Idle
      /\ k \in 1 .. Len(BootThreads)
      /\ links' = InsertTail(links, KernelQ, BootThreads[k])
      /\ made' = Append(made, BootThreads[k])
      /\ UNCHANGED <<state, current, k, addr, halted>>
      /\ ~Inserting /\ Inserting'
  BY DEF LinkKernel, BootAt, StateInv, MadeInv, TypeOK, T, Inserting
<1>2. PICK t : t = BootThreads[k]
  OBVIOUS
<1>3. t \in Boots /\ t \in Thread /\ t # Idle
  BY <1>1, <1>2, BootThreadsTyped, SchedulerAssumption
<1>4. /\ n \in Nat /\ n' = n + 1 /\ made'[n + 1] = t
      /\ \A i \in 1 .. n : made'[i] = made[i]
  BY <1>1, <1>2, <1>3, RingNodes DEF n, TypeOK
<1>5. \A i \in 0 .. n : Node(i)' = Node(i)
  BY <1>4 DEF Node
<1>6. \A i \in 1 .. n : made[i] # t
  <2>1. ASSUME NEW i \in 1 .. n PROVE \E j \in 1 .. Len(BootThreads) : made[i] = BootThreads[j] /\ j < k
    BY <1>1 DEF MadeInv
  <2>2. \A j \in 1 .. Len(BootThreads) : BootThreads[j] = t => j = k
    BY <1>1, <1>2, SchedulerAssumption
  <2> QED
    BY ONLY <1>1, <2>1, <2>2
<1>7. MadeInv'
  <2>0. /\ \A i, j \in 1 .. n : made[i] = made[j] => i = j
        /\ \A i \in 1 .. n : \E j \in 1 .. Len(BootThreads) : made[i] = BootThreads[j] /\ j < k
        /\ k \in 1 .. Len(BootThreads) /\ t = BootThreads[k]
    BY <1>1, <1>2 DEF MadeInv
  <2>1. \A i, j \in 1 .. n + 1 : made'[i] = made'[j] => i = j
    BY ONLY <1>4, <1>6, <2>0
  <2>2. ASSUME NEW i \in 1 .. n + 1
        PROVE  \E j \in 1 .. Len(BootThreads) : made'[i] = BootThreads[j] /\ (j < k \/ j = k)
    BY ONLY <1>4, <2>0, i \in 1 .. n + 1
  <2>3. Inserting' /\ k' = k /\ pc' = "set_ready" /\ k \in Nat /\ Len(BootThreads) \in Nat
    BY <1>1, BootThreadsTyped
  <2> QED
    BY ONLY <1>4, <2>0, <2>1, <2>2, <2>3 DEF MadeInv
<1>8. StateInv'
  <2>1. /\ ~halted /\ current = Idle /\ Idle # NULL /\ state[Idle] = "RUNNING"
        /\ \A i \in 0 .. n : Node(i) # current => state[Node(i)] = "READY"
    BY <1>1, RingNodes, BootThreadsTyped DEF StateInv
  <2>2. Node(0)' = Idle /\ 0 \in 0 .. n'
    BY <1>4 DEF Node
  <2>3. /\ UNCHANGED <<state, current, halted>>
        /\ pc' = "set_ready" /\ Inserting'
    BY <1>1
  <2>4. ASSUME NEW i \in 0 .. n', Node(i)' # current', i # n'
        PROVE  state'[Node(i)'] = "READY"
    BY <1>4, <1>5, <2>1, <2>3, <2>4
  <2> QED
    BY ONLY <2>1, <2>2, <2>3, <2>4 DEF StateInv
<1>9. /\ links.last[KernelQ] = Node(n)
      /\ links'.next[Node(n)] = t
      /\ links'.next[t] = NULL
      /\ \A x \in Cell(Thread, Queues) : x # t /\ x # Node(n) => links'.next[x] = links.next[x]
      /\ \A x \in Thread : x # t => links'.prev[x] = links.prev[x]
      /\ links'.last[KernelQ] = t
      /\ links'.last[ReadyQ] = links.last[ReadyQ]
  <2>1. links.last[KernelQ] = Node(n)
    BY <1>1 DEF LinksInv
  <2>2. Node(n) # t /\ KernelQ \in Queues /\ ReadyQ \in Queues /\ ReadyQ # KernelQ
        /\ links \in Links(Thread, Queues)
    BY <1>3, <1>4, <1>6, RingNodes DEF Node, TypeOK
  <2>3. links' = InsertTail(links, KernelQ, t)
    BY <1>1, <1>2
  <2> QED
    BY ONLY <1>3, <2>1, <2>2, <2>3, InsertTailEffect
<1>10. LinksInv'
  <2>1. CASE n = 0
    <3>1. links'.next[ReadyQ] = NULL /\ links'.last[ReadyQ] = ReadyQ
      BY <1>1, <1>3, <1>4, <1>9, <2>1, RingNodes DEF LinksInv, AloneInv, Cell, Node
    <3>2. InsertInv'
      BY <1>1, <1>4, <1>9, <2>1, <3>1 DEF InsertInv, Chained
    <3> QED
      BY <1>1, <1>4, <1>9, <2>1, <3>2 DEF LinksInv, Node
  <2>2. CASE n > 0
    <3>1. n \in 1 .. n /\ 1 \in 1 .. n /\ Node(n) = made[n] /\ made[1] \in Thread
      BY <1>4, <2>2, RingNodes DEF Node
    <3>2. /\ links.next[ReadyQ] = made[1]
          /\ links.prev[made[1]] = ReadyQ
          /\ \A i \in 1 .. n - 1 : links.next[made[i]] = made[i + 1]
          /\ links.last[ReadyQ] \in {made[n], Idle}
      <4>1. CASE Fresh
        BY <4>1 DEF Fresh, Chained
      <4>2. CASE Turning
        <5>1. RingFrom(links, 0)
          BY <1>1, <4>2, RingNodes DEF Turning, Node
        <5>2. Successor(0) = 1 /\ Node(1) = made[1] /\ Node(0) = Idle
          BY <2>2, <1>4 DEF Successor, Node, n
        <5>3. ASSUME NEW i \in 1 .. n - 1 PROVE links.next[made[i]] = made[i + 1]
          <6>1. i \in 0 .. n /\ i # 0 /\ Node(i) = made[i] /\ Node(Successor(i)) = made[i + 1]
            BY <1>4, <5>3 DEF Successor, Node, n
          <6> QED
            BY <5>1, <6>1 DEF RingFrom
        <5> QED
          BY <5>1, <5>2, <5>3 DEF RingFrom
      <4> QED
        BY <1>1, <2>2, <4>1, <4>2 DEF LinksInv
    <3>3. /\ links'.next[ReadyQ] = made[1]
          /\ links'.prev[made[1]] = ReadyQ
      BY <1>3, <1>6, <1>9, <3>1, <3>2, RingNodes DEF Cell
    <3>4. ASSUME NEW i \in 1 .. n PROVE links'.next[made'[i]] = made'[i + 1]
      <4>1. made'[i] = made[i] /\ made[i] \in Thread /\ made[i] # t
        BY <1>4, <1>6, RingNodes
      <4>2. CASE i = n
        BY <1>4, <1>9, <3>1, <4>1, <4>2
      <4>3. CASE i # n
        <5>1. i \in 1 .. n - 1 /\ i + 1 \in 1 .. n /\ made[i] # made[n]
          BY <1>4, <3>1, <4>3 DEF MadeInv
        <5> QED
          BY <1>4, <1>9, <3>1, <3>2, <4>1, <5>1 DEF Cell
      <4> QED
        BY <4>2, <4>3
    <3>5. Chained'
      BY <1>4, <1>9, <3>4 DEF Chained
    <3>6. InsertInv'
      <4>1. n' - 1 = n /\ n' > 1 /\ made'[n' - 1] = made[n] /\ made'[1] = made[1]
        BY <1>4, <2>2, <3>1
      <4>2. pc' = "set_ready" /\ links'.last[ReadyQ] \in {made[n], Idle}
        BY <1>1, <1>9, <3>2
      <4> QED
        BY ONLY <3>3, <3>5, <4>1, <4>2 DEF InsertInv
    <3> QED
      BY <1>1, <1>4, <1>9, <3>6 DEF LinksInv, Node
  <2> QED
    BY <1>4, <2>1, <2>2
<1> QED
  BY <1>7, <1>8, <1>10

(* The stores of the insertion in the ready queue. *)
LEMMA InvInsert ==
  ASSUME Inv, TypeOK',
         SetReady \/ InsClearNext \/ InsSetPrev \/ InsLoadLast \/ InsStore \/ InsSetLast
  PROVE  Inv'
<1> USE DEF Inv
<1>1. /\ Inserting /\ current = Idle
      /\ UNCHANGED <<current, made, halted>>
      /\ pc' = "create" \/ Inserting'
      /\ pc' \notin {"threading_setup", "scheduler_setup", "link", "hang"}
  BY DEF SetReady, InsClearNext, InsSetPrev, InsLoadLast, InsStore, InsSetLast, BootAt,
         StateInv, Inserting
<1>2. /\ n' = n /\ n \in Nat /\ n > 0
      /\ \A i : Node(i)' = Node(i) /\ Successor(i)' = Successor(i)
  BY <1>1, RingNodes DEF n, Node, Successor, MadeInv
<1>3. PICK t : t = BootThreads[k]
  OBVIOUS
<1>4. /\ t = made[n] /\ t \in Thread /\ t # Idle /\ Node(n) = t
      /\ k \in 1 .. Len(BootThreads) /\ n \in 1 .. n /\ 1 \in 1 .. n
  <2>1. k \in 1 .. Len(BootThreads) /\ n \in 1 .. n /\ 1 \in 1 .. n
    BY <1>1, <1>2, BootThreadsTyped DEF MadeInv, TypeOK
  <2>2. t = made[n]
    BY <1>1, <1>3 DEF MadeInv
  <2> QED
    BY <1>2, <2>1, <2>2, RingNodes DEF Node
<1>5. MadeInv'
  <2>1. CASE InsSetLast
    BY <1>1, <1>2, <1>4, <2>1 DEF InsSetLast, MadeInv, Inserting
  <2>2. CASE ~InsSetLast
    BY <1>1, <1>2, <2>2
       DEF MadeInv, SetReady, InsClearNext, InsSetPrev, InsLoadLast, InsStore, Inserting
  <2> QED
    BY <2>1, <2>2
<1>6. StateInv'
  <2>1. current = Node(0) /\ 0 \in 0 .. n
    BY <1>1, <1>2 DEF Node
  <2>2. pc' # "set_ready" /\ IF pc = "set_ready"
                             THEN state' = [state EXCEPT ![t] = "READY"]
                             ELSE state' = state
    BY <1>3 DEF SetReady, InsClearNext, InsSetPrev, InsLoadLast, InsStore, InsSetLast, T,
                BootAt
  <2>3. /\ state \in [Thread -> States] /\ Idle # NULL /\ Idle \in Thread
        /\ ~halted /\ current = Idle /\ state[Idle] = "RUNNING"
        /\ \A i \in 0 .. n : Node(i) # Idle /\ ~(pc = "set_ready" /\ i = n)
                             => state[Node(i)] = "READY"
    BY <1>1, BootThreadsTyped, SchedulerAssumption DEF StateInv, TypeOK, Inserting
  <2>4. state'[Idle] = "RUNNING"
    BY <1>4, <2>2, <2>3
  <2>5. ASSUME NEW i \in 0 .. n, Node(i) # Idle PROVE state'[Node(i)] = "READY"
    <3>1. Node(i) \in Thread /\ (i # n => Node(i) # t)
      BY <1>2, <1>4, RingNodes
    <3> QED
      BY <1>4, <2>2, <2>3, <2>5, <3>1
  <2> QED
    BY <1>1, <1>2, <2>1, <2>2, <2>3, <2>4, <2>5 DEF StateInv
<1>7. /\ links \in Links(Thread, Queues) /\ ReadyQ \in Queues /\ KernelQ \in Queues
      /\ links.last[KernelQ] = Node(n) /\ InsertInv
  BY <1>1, RingNodes DEF TypeOK, LinksInv, Inserting
<1>8. /\ links.next \in [Cell(Thread, Queues) -> Thread \cup {NULL}]
      /\ links.prev \in [Thread -> Cell(Thread, Queues)]
      /\ links.last \in [Queues -> Cell(Thread, Queues)]
  BY <1>7 DEF Links
<1>9. CASE SetReady \/ InsLoadLast
  <2>1. /\ links' = links /\ Inserting'
        /\ pc # "set_last" /\ pc' \in {"clear_next", "store"}
    BY <1>9 DEF SetReady, InsLoadLast, BootAt, Inserting
  <2>2. InsertInv'
    BY <1>1, <1>2, <1>7, <1>9, <2>1
       DEF InsertInv, Chained, SetReady, InsLoadLast, BootAt
  <2> QED
    BY <1>1, <1>2, <1>5, <1>6, <1>7, <2>1, <2>2 DEF LinksInv
<1>10. CASE InsClearNext
  <2>1. links' = [links EXCEPT !.next[t] = NULL] /\ Inserting' /\ pc = "clear_next" /\ pc' = "set_prev"
    BY <1>3, <1>10 DEF InsClearNext, BootAt, ClearNext, T, Inserting
  <2>2. links' = links
    BY <1>4, <1>7, <1>8, <2>1 DEF InsertInv, Chained, Links
  <2>3. InsertInv'
    BY <1>1, <1>2, <1>7, <2>1, <2>2 DEF InsertInv, Chained
  <2> QED
    BY <1>1, <1>2, <1>5, <1>6, <1>7, <2>1, <2>2, <2>3 DEF LinksInv
<1>11. CASE InsSetPrev
  <2>1. /\ links' = [links EXCEPT !.prev[t] = links.last[ReadyQ]]
        /\ Inserting' /\ pc = "set_prev" /\ pc' = "load_last"
    BY <1>3, <1>11 DEF InsSetPrev, BootAt, SetPrev, T, Inserting
  <2>2. /\ links'.next = links.next /\ links'.last = links.last
        /\ links'.prev[t] = links.last[ReadyQ]
        /\ \A x \in Thread : x # t => links'.prev[x] = links.prev[x]
    BY <1>4, <1>7, <1>8, <2>1 DEF Links
  <2>3. links'.prev[made[1]] = ReadyQ
    <3>1. CASE n = 1
      BY <1>4, <1>7, <2>2, <3>1 DEF InsertInv
    <3>2. CASE n > 1
      <4>1. made[1] # t /\ made[1] \in Thread
        BY <1>2, <1>4, <3>2, RingNodes DEF MadeInv
      <4> QED
        BY <1>7, <2>2, <3>2, <4>1 DEF InsertInv
    <3> QED
      BY <1>2, <3>1, <3>2
  <2>4. InsertInv'
    BY <1>1, <1>2, <1>7, <2>1, <2>2, <2>3 DEF InsertInv, Chained
  <2> QED
    BY <1>1, <1>2, <1>5, <1>6, <1>7, <2>1, <2>2, <2>4 DEF LinksInv
<1>12. CASE InsStore
  <2>1. /\ links' = [links EXCEPT !.next[links.last[ReadyQ]] = t]
        /\ Inserting' /\ pc = "store" /\ pc' = "set_last"
    BY <1>3, <1>7, <1>12 DEF InsStore, BootAt, StoreAt, T, Inserting, InsertInv
  <2>2. PICK a : a = links.last[ReadyQ]
    OBVIOUS
  <2>3. /\ links'.prev = links.prev /\ links'.last = links.last
        /\ links'.next[a] = t
        /\ \A x \in Cell(Thread, Queues) : x # a => links'.next[x] = links.next[x]
    <3>1. a \in Cell(Thread, Queues)
      BY <1>7, <1>8, <2>2
    <3> QED
      BY <1>7, <1>8, <2>1, <2>2, <3>1 DEF Links
  <2>4. Chained' /\ links'.next[ReadyQ] = made[1]
    <3>1. CASE n = 1
      <4>1. a = ReadyQ /\ t # ReadyQ /\ t \in Cell(Thread, Queues)
        BY <1>4, <1>7, <2>2, <3>1, RingNodes DEF InsertInv, Cell
      <4> QED
        BY <1>1, <1>2, <1>4, <1>7, <2>3, <3>1, <4>1 DEF Chained, InsertInv
    <3>2. CASE n > 1
      <4>1. /\ a \in {made[n - 1], Idle} /\ n - 1 \in 1 .. n - 1 /\ n - 1 \in 1 .. n
            /\ made[n - 1] # t /\ made[n - 1] \in Thread
            /\ ReadyQ \notin Thread /\ ReadyQ \in Cell(Thread, Queues)
            /\ Idle \in Thread
        <5>1. n \in Nat /\ n - 1 \in 1 .. n - 1 /\ n - 1 \in 1 .. n /\ n \in 1 .. n /\ n - 1 # n
          BY <3>2, RingNodes
        <5>2. a \in {made[n - 1], Idle}
          BY <1>4, <1>7, <2>2, <3>2 DEF InsertInv
        <5>3. \A x, y \in 1 .. n : made[x] = made[y] => x = y
          BY DEF MadeInv
        <5>4. made[n - 1] # t /\ made[n - 1] \in Thread
          BY <1>2, <1>4, <1>7, <5>1, <5>3, RingNodes, BootThreadsTyped DEF InsertInv
        <5>5. ReadyQ \notin Thread /\ ReadyQ \in Queues /\ Idle \in Thread
          BY RingNodes, BootThreadsTyped
        <5>6. ReadyQ \in Cell(Thread, Queues)
          BY <5>5 DEF Cell
        <5> QED
          BY ONLY <5>1, <5>2, <5>4, <5>5, <5>6
      <4>2. links'.next[ReadyQ] = made[1] /\ links'.next[t] = NULL
        BY <1>4, <1>7, <2>1, <2>3, <3>2, <4>1 DEF InsertInv, Chained, Cell
      <4>3. ASSUME NEW i \in 1 .. n - 1 PROVE links'.next[made[i]] = made[i + 1]
        <5>1. made[i] \in Thread /\ made[i] # Idle /\ i \in 1 .. n
          BY <1>2, RingNodes
        <5>2. made[i] = made[n - 1] => i = n - 1 /\ made[i + 1] = t
          <6>1. \A j \in 1 .. n : made[i] = made[j] => i = j
            BY <5>1 DEF MadeInv
          <6> QED
            BY ONLY <1>2, <1>4, <4>1, <6>1
        <5>3. links.next[made[i]] = made[i + 1]
          BY <1>7 DEF InsertInv, Chained
        <5> QED
          BY <2>3, <4>1, <5>1, <5>2, <5>3 DEF Cell
      <4> QED
        BY <1>1, <1>2, <1>4, <4>2, <4>3 DEF Chained
    <3> QED
      BY <1>2, <3>1, <3>2
  <2>5. InsertInv'
    BY <1>1, <1>2, <1>7, <2>1, <2>3, <2>4 DEF InsertInv
  <2> QED
    BY <1>1, <1>2, <1>5, <1>6, <1>7, <2>1, <2>3, <2>5 DEF LinksInv
<1>13. CASE InsSetLast
  <2>1. /\ links' = [links EXCEPT !.last[ReadyQ] = t]
        /\ pc = "set_last" /\ pc' = "create" /\ ~Inserting'
    BY <1>3, <1>13 DEF InsSetLast, BootAt, SetLast, T, Inserting
  <2>2. /\ links'.next = links.next /\ links'.prev = links.prev
        /\ links'.last[ReadyQ] = t /\ links'.last[KernelQ] = links.last[KernelQ]
    BY <1>7, <1>8, <2>1, RingNodes DEF Links
  <2>3. Fresh'
    BY <1>1, <1>2, <1>4, <1>7, <2>1, <2>2 DEF InsertInv, Chained, Fresh
  <2> QED
    BY <1>1, <1>2, <1>5, <1>6, <1>7, <2>1, <2>2, <2>3 DEF LinksInv
<1> QED
  BY <1>9, <1>10, <1>11, <1>12, <1>13

-----------------------------------------------------------------------------
(* Under QuietSpec: the theorems.                                          *)

LEMMA InvStep == Inv /\ SafeInv /\ [QuietNext]_vars => Inv' /\ SafeInv'
<1> SUFFICES ASSUME Inv, SafeInv, [QuietNext]_vars PROVE Inv' /\ SafeInv'
  OBVIOUS
<1>1. SafeInv' /\ TypeOK'
  <2>1. [Next]_vars
    BY DEF QuietNext, QuietTick, Next
  <2>2. SafeInv'
    BY <2>1, SafeStep
  <2> QED
    BY <2>2 DEF SafeInv
<1>2. CASE QuietTick
  BY <1>1, <1>2, InvTick
<1>3. CASE BootStep
  BY <1>1, <1>3, InvSetup, InvCalls, InvLinkKernel, InvInsert DEF BootStep
<1>4. CASE UNCHANGED vars
  <2>1. UNCHANGED <<links, state, current, pc, k, addr, made, halted>>
    BY <1>4 DEF vars, bootVars
  <2>2. UNCHANGED <<n, Inserting>> /\ \A i : Node(i)' = Node(i) /\ Successor(i)' = Successor(i)
    BY <2>1 DEF n, Inserting, Node, Successor
  <2>3. MadeInv' /\ StateInv'
    BY <2>1, <2>2 DEF Inv, MadeInv, StateInv
  <2>4. UNCHANGED <<Fresh, Turning, InsertInv, AloneInv>>
    BY <2>1, <2>2 DEF Fresh, Turning, RingFrom, InsertInv, Chained, AloneInv
  <2>5. LinksInv'
    BY <2>1, <2>2, <2>4 DEF Inv, LinksInv
  <2> QED
    BY <1>1, <2>3, <2>5 DEF Inv
<1> QED
  BY <1>1, <1>2, <1>3, <1>4 DEF QuietNext

LEMMA InvAlways == QuietSpec => [](Inv /\ SafeInv)
  BY InvInit, SafeInit, InvStep, PTL DEF QuietSpec

(* As long as no timer interrupt comes before the first thread is queued,  *)
(* or inside thread_create(), no assertion of the scheduler fails: neither *)
(* thread_set_current()'s nor thread_get_current()'s nor schedule()'s,     *)
(* whatever threads are made and in whatever order they are preempted.     *)
THEOREM AssertionsHold == QuietSpec => []NoAssertionFails
<1>1. Inv => NoAssertionFails
  BY DEF Inv, StateInv, NoAssertionFails
<1> QED
  BY <1>1, InvAlways, PTL

(* On the same condition every timer interrupt gives the processor to the  *)
(* thread created after the one that had it: the double insertion of the   *)
(* running thread in schedule() amounts to a perfect round robin.          *)
THEOREM TurnsAreInOrder == QuietSpec => TurnsInOrder
<1> DEFINE InOrder == \A i \in 0 .. Len(made) :
                        current = Node(i) => current' = Node(Successor(i))
<1>1. Inv /\ [QuietNext]_vars => [Tick => InOrder]_vars
  <2> SUFFICES ASSUME Inv, [QuietNext]_vars, Tick, ~(UNCHANGED vars) PROVE InOrder
    OBVIOUS
  <2>1. ~BootStep
    <3>1. UNCHANGED <<intr, pc, k>> /\ k \in Nat
      BY DEF Tick, bootVars, Inv, TypeOK
    <3> QED
      BY <3>1
         DEF BootStep, BootAt, ThreadingSetup, SchedulerSetup, DisableIRQs, EnableIRQs,
             Allocate, AllocateFails, LinkKernel, SetReady, InsClearNext, InsSetPrev,
             InsLoadLast, InsStore, InsSetLast, Return
  <2>2. QuietTick
    BY <2>1 DEF QuietNext
  <2> SUFFICES ASSUME NEW c \in 0 .. n, current = Node(c)
               PROVE  current' = Node(Successor(c))
    BY DEF n
  <2>3. /\ pc \in {"create", "hang"} /\ (pc = "create" => n > 0)
        /\ AssertsHold => current' = NextThread
    BY <2>2 DEF QuietTick, Tick, n, Inv, TypeOK
  <2>4. CASE n > 0
    BY <2>3, <2>4, TickRing
  <2>5. CASE n = 0
    <3>1. c = 0 /\ current = Idle /\ Node(Successor(c)) = Idle
      BY <2>5 DEF Node, Successor, n
    <3>2. NextThread = Idle /\ state[Idle] = "RUNNING"
      BY <2>3, <2>5, <3>1, TickAlone, RingNodes DEF Inv, StateInv, LinksInv
    <3>3. AssertsHold
      BY <3>1, <3>2, BootThreadsTyped, SchedulerAssumption
         DEF AssertsHold, StateAfter, Preempted, Inv, TypeOK
    <3> QED
      BY <2>3, <3>1, <3>2, <3>3
  <2> QED
    BY <2>4, <2>5, RingNodes DEF Inv
<1> QED
  BY <1>1, InvAlways, PTL DEF QuietSpec, TurnsInOrder
-----------------------------------------------------------------------------
(* The line of waiting threads, which is what a walk over the ready queue  *)
(* finds up to the running thread.                                         *)

(* The thread i places behind the one at c in the ring. *)
Place(c, i) == IF c + i <= n THEN c + i ELSE c + i - n - 1
Line(c)     == [i \in 1 .. n |-> Node(Place(c, i))]

(* No thread can be reached yet: none but Idle was made, or the first one  *)
(* is made and has not been stored in tqh_first.                           *)
Alone == n = 0 \/ (n = 1 /\ Inserting /\ pc # "set_last")

LineInv ==
  IF Alone THEN Waiting = <<>>
  ELSE \E c \in 0 .. n : current = Node(c) /\ Waiting = Line(c)

(* Before scheduler_setup() has run the queue shows no thread, and no      *)
(* thread is READY that was not put on kernel_threads first.               *)
EarlyInv ==
  /\ pc = "threading_setup" => links = ZeroLinks(Thread, Queues)
  /\ pc = "scheduler_setup" => links.next[ReadyQ] = NULL
  /\ \A t \in Thread : state[t] = "READY" => \E i \in 0 .. n : t = Node(i)

(* A walk that goes through the elements of s and then reaches NULL or the *)
(* element where it stops gives s, if it is not cut before.                *)
LEMMA WalkIs ==
  ASSUME NEW l, NEW h, NEW stop, NEW bound \in Nat, NEW m \in Nat, m < bound,
         NEW S, NEW s \in [1 .. m -> S],
         h \notin {NULL, stop}, \A i \in 1 .. m : s[i] \notin {NULL, stop},
         m = 0 => l.next[h] \in {NULL, stop},
         m > 0 => l.next[h] = s[1] /\ l.next[s[m]] \in {NULL, stop},
         \A i \in 1 .. m - 1 : l.next[s[i]] = s[i + 1]
  PROVE  Walk(l, h, stop, bound) = s
<1> DEFINE node[j \in 0 .. bound] ==
             IF j = 0 THEN h
             ELSE IF node[j - 1] \in {NULL, stop} THEN NULL
             ELSE l.next[node[j - 1]]
           live == {j \in 1 .. bound : node[j] \notin {NULL, stop}}
           end  == IF m = 0 THEN l.next[h] ELSE l.next[s[m]]
           walk == [j \in 0 .. bound |-> IF j = 0 THEN h
                                         ELSE IF j <= m THEN s[j]
                                         ELSE IF j = m + 1 THEN end
                                         ELSE NULL]
<1>1. Walk(l, h, stop, bound) = [j \in live |-> node[j]]
  BY DEF Walk
<1>2. end \in {NULL, stop}
  OBVIOUS
<1>3. ASSUME NEW j \in 0 .. bound
      PROVE  walk[j] = IF j = 0 THEN h
                       ELSE IF walk[j - 1] \in {NULL, stop} THEN NULL
                       ELSE l.next[walk[j - 1]]
  <2>1. CASE j = 0
    BY <2>1
  <2>2. CASE j # 0 /\ j <= m
    <3>1. j - 1 \in 0 .. bound /\ j - 1 <= m
      BY <2>2
    <3>2. CASE j = 1
      BY <2>2, <3>1, <3>2
    <3>3. CASE j # 1
      <4>1. j - 1 \in 1 .. m - 1 /\ j - 1 \in 1 .. m /\ (j - 1) + 1 = j
        BY <2>2, <3>3
      <4>2. l.next[s[j - 1]] = s[j] /\ s[j - 1] \notin {NULL, stop}
        BY <4>1
      <4>3. walk[j - 1] = s[j - 1] /\ walk[j] = s[j]
        BY <2>2, <3>1, <4>1
      <4> QED
        BY <2>2, <4>2, <4>3
    <3> QED
      BY <3>2, <3>3
  <2>3. CASE j = m + 1
    <3>1. walk[j] = end /\ j - 1 = m /\ m \in 0 .. bound
      BY <2>3
    <3>2. walk[m] = IF m = 0 THEN h ELSE s[m]
      BY <3>1
    <3>3. walk[m] \notin {NULL, stop} /\ l.next[walk[m]] = end
      BY <3>2
    <3> QED
      BY <2>3, <3>1, <3>3
  <2>4. CASE j > m + 1
    <3>1. j - 1 \in 0 .. bound /\ j - 1 > m /\ j # 0 /\ ~(j <= m) /\ j # m + 1
      BY <2>4
    <3>2. walk[j - 1] \in {NULL, stop} /\ walk[j] = NULL
      BY <1>2, <3>1
    <3> QED
      BY <3>1, <3>2
  <2> QED
    BY <2>1, <2>2, <2>3, <2>4
<1>4. walk = [j \in 0 .. bound |-> IF j = 0 THEN h
                                   ELSE IF walk[j - 1] \in {NULL, stop} THEN NULL
                                   ELSE l.next[walk[j - 1]]]
  <2> DEFINE step(j) == IF j = 0 THEN h
                        ELSE IF walk[j - 1] \in {NULL, stop} THEN NULL
                        ELSE l.next[walk[j - 1]]
  <2>1. walk = [j \in 0 .. bound |-> walk[j]]
    OBVIOUS
  <2> HIDE DEF walk
  <2>2. \A j \in 0 .. bound : walk[j] = step(j)
    BY <1>3
  <2> HIDE DEF step
  <2>3. walk = [j \in 0 .. bound |-> step(j)]
    BY <2>1, <2>2
  <2> QED
    BY <2>3 DEF step
<1> HIDE DEF walk
<1>5. node = [j \in 0 .. bound |-> IF j = 0 THEN h
                                   ELSE IF node[j - 1] \in {NULL, stop} THEN NULL
                                   ELSE l.next[node[j - 1]]]
  BY <1>4
<1> HIDE DEF node
<1>6. \A j \in 0 .. bound : node[j] = walk[j]
  <2> DEFINE Same == {j \in Nat : j <= bound => node[j] = walk[j]}
  <2>1. 0 \in Same
    BY <1>4, <1>5
  <2>2. ASSUME NEW j \in Nat, j \in Same PROVE j + 1 \in Same
    <3> SUFFICES ASSUME j + 1 <= bound PROVE node[j + 1] = walk[j + 1]
      OBVIOUS
    <3>1. PICK i \in 0 .. bound : i = j + 1
      OBVIOUS
    <3>2. i # 0 /\ i - 1 = j /\ node[j] = walk[j]
      BY <2>2, <3>1
    <3>3. node[i] = IF node[j] \in {NULL, stop} THEN NULL ELSE l.next[node[j]]
      BY <1>5, <3>2
    <3>4. walk[i] = IF walk[j] \in {NULL, stop} THEN NULL ELSE l.next[walk[j]]
      BY <1>4, <3>2
    <3> QED
      BY <3>1, <3>2, <3>3, <3>4
  <2> HIDE DEF Same
  <2>3. \A j \in Nat : j \in Same
    <3> SUFFICES ASSUME Nat \ Same # {} PROVE FALSE
      OBVIOUS
    <3> DEFINE R == {p \in Nat \X Nat : p[1] < p[2]}
    <3>1. IsWellFoundedOn(R, Nat)
      BY NatLessThanWellFounded DEF OpToRel
    <3>2. \A i, j \in Nat : i < j => <<i, j>> \in R
      OBVIOUS
    <3> HIDE DEF R
    <3>3. PICK j \in Nat \ Same : \A i \in Nat \ Same : ~ <<i, j>> \in R
      BY <3>1, WFMin
    <3>4. j # 0 /\ j - 1 \in Nat /\ (j - 1) + 1 = j /\ j - 1 < j
      BY <2>1, <3>3
    <3>5. j - 1 \notin Same
      BY <2>2, <3>3, <3>4
    <3> QED
      BY <3>2, <3>3, <3>4, <3>5
  <2> QED
    BY <2>3 DEF Same
<1>7. live = 1 .. m
  <2>1. ASSUME NEW j \in 1 .. bound PROVE node[j] \notin {NULL, stop} <=> j \in 1 .. m
    <3>1. node[j] = IF j <= m THEN s[j] ELSE IF j = m + 1 THEN end ELSE NULL
      BY <1>6 DEF walk
    <3> QED
      BY <1>2, <3>1
  <2> QED
    BY <2>1
<1>8. \A j \in 1 .. m : node[j] = s[j]
  BY <1>6 DEF walk
<1>9. [j \in live |-> node[j]] = [j \in 1 .. m |-> s[j]]
  BY <1>7, <1>8
<1> QED
  BY <1>1, <1>9
LEMMA WalkIsEmpty ==
  ASSUME NEW l, NEW h, NEW stop, NEW bound \in Nat, 0 < bound,
         h \notin {NULL, stop}, l.next[h] \in {NULL, stop}
  PROVE  Walk(l, h, stop, bound) = <<>>
<1>1. PICK m : m = 0
  OBVIOUS
<1>2. PICK s : s = <<>>
  OBVIOUS
<1>3. m \in Nat /\ m < bound /\ 1 .. m = {} /\ 1 .. m - 1 = {} /\ ~(m > 0)
  BY <1>1
<1>4. s \in [1 .. m -> {}]
  BY <1>2, <1>3
<1>5. Walk(l, h, stop, bound) = s
  BY <1>3, <1>4, WalkIs
<1> QED
  BY <1>2, <1>5

(* There are threads enough for the walk not to be cut short. *)
LEMMA WalkIsLongEnough ==
  ASSUME TypeOK, MadeInv
  PROVE  Cardinality(Thread) \in Nat /\ n + 1 <= Cardinality(Thread)
<1>1. IsFiniteSet(Boots)
  <2>1. BootThreads \in Surjection(1 .. Len(BootThreads), Boots)
    BY SchedulerAssumption, BootThreadsTyped DEF Boots, Surjection
  <2> QED
    BY <2>1, BootThreadsTyped, FS_NatSurjection DEF ExistsSurjection
<1>2. IsFiniteSet(Thread) /\ Cardinality(Thread) \in Nat
  BY <1>1, FS_AddElement, FS_CardinalityType DEF Thread
<1>3. PICK f : f = [i \in 0 .. n |-> Node(i)]
  OBVIOUS
<1>4. f \in Injection(0 .. n, Thread)
  BY <1>3, RingNodes DEF Injection, IsInjective
<1>5. Cardinality(0 .. n) <= Cardinality(Thread)
  BY <1>2, <1>4, FS_Injection
<1>6. n \in Nat
  BY RingNodes
<1>7. Cardinality(0 .. n) = n + 1
  BY <1>6, FS_Interval
<1> QED
  BY <1>2, <1>5, <1>7

(* The places behind c in the ring are the other places, each of them once. *)
LEMMA Places ==
  ASSUME n \in Nat, NEW c \in 0 .. n
  PROVE  /\ \A i \in 1 .. n : Place(c, i) \in 0 .. n /\ Place(c, i) # c
         /\ \A i, j \in 1 .. n : Place(c, i) = Place(c, j) => i = j
         /\ \A p \in 0 .. n : p # c => \E i \in 1 .. n : Place(c, i) = p
         /\ n > 0 => Place(c, 1) = Successor(c) /\ Successor(Place(c, n)) = c
         /\ \A i \in 1 .. n - 1 : Place(c, i + 1) = Successor(Place(c, i))
<1>1. \A i \in 1 .. n : Place(c, i) \in 0 .. n /\ Place(c, i) # c
  BY DEF Place
<1>2. \A i, j \in 1 .. n : Place(c, i) = Place(c, j) => i = j
  BY DEF Place
<1>3. ASSUME NEW p \in 0 .. n, p # c PROVE \E i \in 1 .. n : Place(c, i) = p
  <2>1. CASE p > c
    <3>1. p - c \in 1 .. n /\ Place(c, p - c) = p
      BY <2>1 DEF Place
    <3> QED
      BY <3>1
  <2>2. CASE p < c
    <3>1. p - c + n + 1 \in 1 .. n /\ Place(c, p - c + n + 1) = p
      BY <2>2 DEF Place
    <3> QED
      BY <3>1
  <2> QED
    BY <1>3, <2>1, <2>2
<1>4. n > 0 => Place(c, 1) = Successor(c) /\ Successor(Place(c, n)) = c
  BY DEF Place, Successor, n
<1>5. \A i \in 1 .. n - 1 : Place(c, i + 1) = Successor(Place(c, i))
  BY DEF Place, Successor, n
<1> QED
  BY <1>1, <1>2, <1>3, <1>4, <1>5

(* The ready queue is the line of the threads behind the running one. *)
LEMMA QueueIsLine == Inv /\ EarlyInv => LineInv
<1> SUFFICES ASSUME Inv, EarlyInv PROVE LineInv
  OBVIOUS
<1> USE DEF Inv
<1> DEFINE bound == Cardinality(Thread) + 1
<1>1. /\ bound \in Nat /\ n \in Nat /\ n < bound /\ 0 < bound
      /\ Waiting = Walk(links, ReadyQ, current, bound)
  BY RingNodes, WalkIsLongEnough DEF Waiting
<1> HIDE DEF bound
<1>2. ReadyQ \notin {NULL, current}
  BY RingNodes DEF TypeOK
<1>3. ASSUME links.next[ReadyQ] \in {NULL, current} PROVE Waiting = <<>>
  BY <1>1, <1>2, <1>3, WalkIsEmpty
<1>4. ASSUME NEW c \in 0 .. n, current = Node(c), n > 0,
             links.next[ReadyQ] = Node(Successor(c)),
             \A i \in 0 .. n : i # c /\ Successor(i) # c => links.next[Node(i)] = Node(Successor(i)),
             \A i \in 0 .. n : Successor(i) = c => links.next[Node(i)] \in {NULL, Node(c)}
      PROVE  Waiting = Line(c)
  <2>1. PICK s : s = Line(c)
    OBVIOUS
  <2>2. /\ \A i \in 1 .. n : Place(c, i) \in 0 .. n /\ Place(c, i) # c
        /\ Place(c, 1) = Successor(c) /\ Successor(Place(c, n)) = c
        /\ \A i \in 1 .. n - 1 : Place(c, i + 1) = Successor(Place(c, i))
    BY <1>1, <1>4, Places
  <2>3. s \in [1 .. n -> Thread] /\ \A i \in 1 .. n : s[i] \notin {NULL, current}
    BY <1>4, <2>1, <2>2, RingNodes DEF Line
  <2>4. links.next[ReadyQ] = s[1]
    BY <1>1, <1>4, <2>1, <2>2 DEF Line
  <2>5. links.next[s[n]] \in {NULL, current}
    <3>1. n \in 1 .. n /\ s[n] = Node(Place(c, n))
      BY <1>1, <1>4, <2>1 DEF Line
    <3> QED
      BY <1>4, <2>2, <3>1
  <2>6. ASSUME NEW i \in 1 .. n - 1 PROVE links.next[s[i]] = s[i + 1]
    <3>1. i \in 1 .. n /\ i + 1 \in 1 .. n
      BY <1>1
    <3>2. s[i] = Node(Place(c, i)) /\ s[i + 1] = Node(Successor(Place(c, i)))
      BY <2>1, <2>2, <3>1 DEF Line
    <3>3. Successor(Place(c, i)) # c
      BY <2>2, <3>1
    <3> QED
      BY <1>4, <2>2, <3>1, <3>2, <3>3
  <2>7. Walk(links, ReadyQ, current, bound) = s
    BY <1>1, <1>2, <1>4, <2>3, <2>4, <2>5, <2>6, WalkIs
  <2> QED
    BY <1>1, <2>1, <2>7
<1>5. CASE pc \in {"threading_setup", "scheduler_setup"}
  <2>1. links.next[ReadyQ] = NULL
    BY <1>5, RingNodes DEF EarlyInv, ZeroLinks, Cell
  <2>2. n = 0
    BY <1>5 DEF MadeInv, n
  <2> QED
    BY <1>3, <2>1, <2>2 DEF LineInv, Alone
<1>6. CASE pc \in {"create", "link", "hang"} /\ n = 0
  <2>1. AloneInv /\ current = Idle
    BY <1>6, RingNodes DEF LinksInv, StateInv, Node
  <2> QED
    BY <1>3, <1>6, <2>1 DEF AloneInv, LineInv, Alone
<1>7. CASE pc \in {"create", "link", "hang"} /\ n # 0
  <2>1. ~Alone /\ n > 0
    BY <1>1, <1>7 DEF Alone, Inserting
  <2>2. CASE Fresh
    <3>1. 0 \in 0 .. n /\ current = Node(0) /\ Successor(0) = 1 /\ Node(1) = made[1]
      BY <1>1, <2>1, <2>2 DEF Fresh, Node, Successor, n
    <3>2. links.next[ReadyQ] = Node(Successor(0))
      BY <2>2, <3>1 DEF Fresh
    <3>3. ASSUME NEW i \in 0 .. n, i # 0, Successor(i) # 0
          PROVE  links.next[Node(i)] = Node(Successor(i))
      BY <1>1, <2>2, <3>3 DEF Fresh, Chained, Node, Successor, n
    <3>4. ASSUME NEW i \in 0 .. n, Successor(i) = 0 PROVE links.next[Node(i)] = NULL
      BY <1>1, <2>1, <2>2, <3>4 DEF Fresh, Chained, Node, Successor, n
    <3>5. Waiting = Line(0)
      BY <1>4, <2>1, <3>1, <3>2, <3>3, <3>4
    <3> QED
      BY <2>1, <3>1, <3>5 DEF LineInv
  <2>3. CASE Turning
    <3>1. PICK c \in 0 .. n : /\ current = Node(c) /\ RingFrom(links, c)
      BY <2>3 DEF Turning
    <3>2. ASSUME NEW i \in 0 .. n, Successor(i) = c PROVE links.next[Node(i)] = Node(c)
      <4>1. i # c
        BY <2>1, <3>2, RingNodes
      <4> QED
        BY <3>1, <3>2, <4>1 DEF RingFrom
    <3>3. Waiting = Line(c)
      BY <1>4, <2>1, <3>1, <3>2 DEF RingFrom
    <3> QED
      BY <2>1, <3>1, <3>3 DEF LineInv
  <2> QED
    BY <1>7, <2>2, <2>3 DEF LinksInv
<1>8. CASE Inserting
  <2>1. InsertInv /\ current = Idle /\ n > 0
    BY <1>8 DEF LinksInv, StateInv, MadeInv
  <2>2. CASE Alone
    <3>1. links.next[ReadyQ] = NULL
      BY <2>1, <2>2 DEF InsertInv, Alone
    <3> QED
      BY <1>3, <2>2, <3>1 DEF LineInv
  <2>3. CASE ~Alone
    <3>1. 0 \in 0 .. n /\ current = Node(0) /\ Successor(0) = 1 /\ Node(1) = made[1]
      BY <1>1, <2>1 DEF Node, Successor, n
    <3>2. links.next[ReadyQ] = Node(Successor(0))
      BY <1>8, <2>1, <2>3, <3>1 DEF InsertInv, Alone
    <3>3. ASSUME NEW i \in 0 .. n, i # 0, Successor(i) # 0
          PROVE  links.next[Node(i)] = Node(Successor(i))
      BY <1>1, <2>1, <3>3 DEF InsertInv, Chained, Node, Successor, n
    <3>4. ASSUME NEW i \in 0 .. n, Successor(i) = 0 PROVE links.next[Node(i)] = NULL
      BY <1>1, <2>1, <3>4 DEF InsertInv, Chained, Node, Successor, n
    <3>5. Waiting = Line(0)
      BY <1>4, <2>1, <3>1, <3>2, <3>3, <3>4
    <3> QED
      BY <2>3, <3>1, <3>5 DEF LineInv
  <2> QED
    BY <2>2, <2>3
<1> QED
  BY <1>5, <1>6, <1>7, <1>8 DEF TypeOK, Inserting
LEMMA EarlyInit == Init => EarlyInv
  BY DEF Init, EarlyInv

LEMMA EarlySetup == Inv /\ EarlyInv /\ ThreadingSetup => links'.next[ReadyQ] = NULL
<1> SUFFICES ASSUME Inv, EarlyInv, ThreadingSetup PROVE links'.next[ReadyQ] = NULL
  OBVIOUS
<1>1. /\ ReadyQ \in Queues /\ KernelQ \in Queues /\ ReadyQ # KernelQ /\ Idle \in Thread
      /\ ReadyQ # Idle /\ ReadyQ # NULL /\ KernelQ # NULL
  BY RingNodes, BootThreadsTyped DEF Inv
<1>2. links = ZeroLinks(Thread, Queues) /\ links \in Links(Thread, Queues)
  BY DEF ThreadingSetup, BootAt, EarlyInv, Inv, TypeOK
<1>3. PICK a : a = InitHead(links, KernelQ)
  OBVIOUS
<1>4. /\ a \in Links(Thread, Queues) /\ a.next[ReadyQ] = NULL
      /\ a.last[KernelQ] = KernelQ /\ a.last[ReadyQ] = NULL
  <2>1. a \in Links(Thread, Queues)
    <3>1. KernelQ \in Cell(Thread, Queues)
      BY <1>1 DEF Cell
    <3> QED
      BY <1>1, <1>2, <1>3, <3>1, StoresTyped
  <2>2. a.next = [links.next EXCEPT ![KernelQ] = NULL] /\ a.last = [links.last EXCEPT ![KernelQ] = KernelQ]
    BY <1>2, <1>3 DEF InitHead, Links
  <2>3. links.next[ReadyQ] = NULL /\ links.last[ReadyQ] = NULL /\ ReadyQ \in Cell(Thread, Queues)
    BY <1>1, <1>2 DEF ZeroLinks, Cell
  <2>4. /\ links.next \in [Cell(Thread, Queues) -> Thread \cup {NULL}]
        /\ links.last \in [Queues -> Cell(Thread, Queues)]
    BY <1>2 DEF Links
  <2> QED
    BY <1>1, <2>1, <2>2, <2>3, <2>4
<1>5. PICK b : b = InsertTail(a, KernelQ, Idle)
  OBVIOUS
<1>6. b \in Links(Thread, Queues) /\ b.next[ReadyQ] = NULL /\ b.last[ReadyQ] = NULL
  <2>1. ReadyQ \in Cell(Thread, Queues)
    BY <1>1 DEF Cell
  <2> QED
    BY <1>1, <1>4, <1>5, <2>1, InsertTailEffect
<1>7. PICK d : d = InsertTail(b, ReadyQ, Idle)
  OBVIOUS
<1>8. d.next[ReadyQ] = NULL
  <2>1. ReadyQ \in Cell(Thread, Queues)
    BY <1>1 DEF Cell
  <2> QED
    BY <1>1, <1>6, <1>7, <2>1, InsertTailEffect
<1> QED
  BY <1>3, <1>5, <1>7, <1>8 DEF ThreadingSetup

LEMMA EarlyStep == Inv /\ EarlyInv /\ [QuietNext]_vars => EarlyInv'
<1> SUFFICES ASSUME Inv, EarlyInv, [QuietNext]_vars PROVE EarlyInv'
  OBVIOUS
<1> USE DEF Inv
<1> DEFINE Ready == {t \in Thread : state[t] = "READY"}
           Made  == {Node(i) : i \in 0 .. n}
<1>1. Ready \subseteq Made /\ n \in Nat /\ state \in [Thread -> States]
  BY RingNodes DEF EarlyInv, TypeOK
<1>2. ASSUME pc' \notin {"threading_setup", "scheduler_setup"}, Ready' \subseteq Made'
      PROVE  EarlyInv'
  BY <1>2 DEF EarlyInv
<1>3. made' = made => Made' = Made
  BY DEF Node, n
<1>4. CASE ThreadingSetup
  <2>1. /\ links'.next[ReadyQ] = NULL /\ pc' = "scheduler_setup" /\ made' = made
        /\ state' = [state EXCEPT ![Idle] = "RUNNING"]
    BY <1>4, EarlySetup DEF ThreadingSetup
  <2>2. Ready' \subseteq Made'
    BY <1>1, <1>3, <2>1
  <2> QED
    BY <2>1, <2>2 DEF EarlyInv
<1>5. CASE SchedulerSetup \/ DisableIRQs \/ EnableIRQs \/ AllocateFails \/ InsClearNext
           \/ InsSetPrev \/ InsLoadLast \/ InsStore \/ InsSetLast \/ Return
  <2>1. /\ pc' \notin {"threading_setup", "scheduler_setup"}
        /\ state' = state /\ made' = made
    BY <1>5 DEF SchedulerSetup, DisableIRQs, EnableIRQs, AllocateFails, InsClearNext,
                InsSetPrev, InsLoadLast, InsStore, InsSetLast, Return, BootAt, bootVars
  <2> QED
    BY <1>1, <1>2, <1>3, <2>1
<1>6. CASE Allocate
  <2>1. pc' = "link" /\ made' = made /\ state' = [state EXCEPT ![T] = "CREATED"]
    BY <1>6 DEF Allocate
  <2>2. Ready' \subseteq Made'
    BY <1>1, <1>3, <2>1
  <2> QED
    BY <1>2, <2>1, <2>2
<1>7. CASE LinkKernel
  <2>1. pc' = "set_ready" /\ state' = state /\ made' = Append(made, T)
    BY <1>7 DEF LinkKernel
  <2>2. n' = n + 1 /\ \A i \in 1 .. n : made'[i] = made[i]
    BY <2>1 DEF TypeOK, n
  <2>3. \A i \in 0 .. n : i \in 0 .. n' /\ Node(i)' = Node(i)
    BY <1>1, <2>2 DEF Node
  <2>4. Made \subseteq Made'
    BY <2>3
  <2> QED
    BY <1>1, <1>2, <2>1, <2>4
<1>8. CASE SetReady
  <2>1. pc' = "clear_next" /\ made' = made /\ state' = [state EXCEPT ![T] = "READY"]
    BY <1>8 DEF SetReady
  <2>2. T = Node(n) /\ n \in 0 .. n
    BY <1>1, <1>8 DEF SetReady, BootAt, MadeInv, Inserting, T, Node
  <2>3. Ready' \subseteq Made'
    BY <1>1, <1>3, <2>1, <2>2
  <2> QED
    BY <1>2, <2>1, <2>3
<1>9. CASE QuietTick
  <2>1. pc' = pc /\ pc \in {"create", "hang"} /\ made' = made
    BY <1>9 DEF QuietTick, Tick, bootVars
  <2>2. current \in Made
    BY <2>1 DEF StateInv
  <2>3. \/ state' = state
        \/ state' = [StateAfter EXCEPT ![NextThread] = "RUNNING"]
    BY <1>9 DEF QuietTick, Tick
  <2>4. StateAfter \in [Thread -> States] /\ \A t \in Thread : StateAfter[t] = "READY" => t \in Made
    <3>1. StateAfter = state \/ StateAfter = [state EXCEPT ![current] = "READY"]
      BY DEF StateAfter
    <3> QED
      BY <1>1, <2>2, <3>1 DEF States
  <2>5. Ready' \subseteq Made'
    BY <1>1, <1>3, <2>1, <2>3, <2>4
  <2> QED
    BY <1>2, <2>1, <2>5
<1>10. CASE UNCHANGED vars
  BY <1>10 DEF vars, bootVars, EarlyInv, Node, n
<1> QED
  BY <1>4, <1>5, <1>6, <1>7, <1>8, <1>9, <1>10 DEF QuietNext, BootStep

LEMMA LineAlways == QuietSpec => [](Inv /\ EarlyInv /\ LineInv)
  BY InvInit, SafeInit, InvStep, EarlyInit, EarlyStep, QueueIsLine, PTL DEF QuietSpec

(* Between two creations the ready queue holds every READY thread, each of *)
(* them once: whatever schedule() does to the running thread's links, no   *)
(* thread is dropped from the queue and none is duplicated.                *)
THEOREM NoThreadIsDropped == QuietSpec => []ReadyQueueComplete
<1>1. Inv /\ EarlyInv /\ LineInv => ReadyQueueComplete
  <2> SUFFICES ASSUME Inv, EarlyInv, LineInv, pc \in {"create", "hang"},
                      NEW ready, ready = {t \in Thread : state[t] = "READY"}
               PROVE  /\ {Waiting[i] : i \in DOMAIN Waiting} = ready
                      /\ Len(Waiting) = Cardinality(ready)
    BY DEF ReadyQueueComplete
  <2> USE DEF Inv
  <2>1. n \in Nat /\ ~Inserting
    BY RingNodes DEF Inserting
  <2>2. PICK c \in 0 .. n : current = Node(c)
    BY DEF StateInv
  <2>3. state[current] = "RUNNING"
    BY <2>2, RingNodes DEF StateInv
  <2>4. ready = {Node(p) : p \in 0 .. n} \ {current}
    <3>1. ASSUME NEW t \in ready PROVE t \in {Node(p) : p \in 0 .. n} \ {current}
      BY <2>3 DEF EarlyInv
    <3>2. ASSUME NEW p \in 0 .. n, Node(p) # current PROVE Node(p) \in ready
      BY <2>1, <3>2, RingNodes DEF StateInv
    <3> QED
      BY <3>1, <3>2
  <2>5. ready = {Node(p) : p \in 0 .. n \ {c}}
    BY <2>2, <2>4, RingNodes
  <2>6. CASE n = 0
    <3>1. Waiting = <<>> /\ ready = {}
      BY <2>5, <2>6 DEF LineInv, Alone
    <3> QED
      BY <3>1, FS_EmptySet
  <2>7. CASE n # 0
    <3>1. PICK d \in 0 .. n : current = Node(d) /\ Waiting = Line(d)
      BY <2>1, <2>7 DEF LineInv, Alone
    <3>2. d = c
      BY <2>2, <3>1, RingNodes
    <3>3. PICK w : w = Line(c)
      OBVIOUS
    <3>4. /\ DOMAIN w = 1 .. n
          /\ \A i \in 1 .. n : w[i] = Node(Place(c, i))
      BY <3>3 DEF Line
    <3>5. /\ \A i \in 1 .. n : w[i] \in ready
          /\ \A i, j \in 1 .. n : w[i] = w[j] => i = j
          /\ \A t \in ready : \E i \in 1 .. n : w[i] = t
      <4>1. /\ \A i \in 1 .. n : Place(c, i) \in 0 .. n \ {c}
            /\ \A i, j \in 1 .. n : Place(c, i) = Place(c, j) => i = j
            /\ \A p \in 0 .. n \ {c} : \E i \in 1 .. n : Place(c, i) = p
        BY <2>1, Places
      <4>2. \A p, q \in 0 .. n : Node(p) = Node(q) => p = q
        BY RingNodes
      <4>3. \A i \in 1 .. n : w[i] \in ready
        BY <2>5, <3>4, <4>1
      <4>4. \A i, j \in 1 .. n : w[i] = w[j] => i = j
        BY <3>4, <4>1, <4>2
      <4>5. \A t \in ready : \E i \in 1 .. n : w[i] = t
        BY <2>5, <3>4, <4>1
      <4> QED
        BY <4>3, <4>4, <4>5
    <3>6. w \in Bijection(1 .. n, ready)
      <4>1. w \in [1 .. n -> ready]
        BY <3>3, <3>4, <3>5 DEF Line
      <4> QED
        BY <3>5, <4>1 DEF Bijection, Injection, Surjection, IsInjective
    <3>7. Cardinality(ready) = n
      BY <2>1, <3>6, FS_CountingElements DEF ExistsBijection
    <3>8. Len(w) = n
      BY <2>1, <3>6 DEF Bijection, Injection
    <3> QED
      BY <3>1, <3>2, <3>3, <3>4, <3>5, <3>7, <3>8
  <2> QED
    BY <2>6, <2>7
<1> QED
  BY <1>1, LineAlways, PTL
-----------------------------------------------------------------------------
(* The ready queue implements the line of RoundRobin.                      *)

LEMMA LineTurns ==
  ASSUME n \in Nat, n > 0, NEW c \in 0 .. n
  PROVE  /\ \A i \in 1 .. n - 1 : Place(Successor(c), i) = Place(c, i + 1)
         /\ Place(Successor(c), n) = c
  BY DEF Place, Successor, n

LEMMA HeadToTheEnd ==
  ASSUME NEW S, NEW m \in Nat, m > 0, NEW v \in [1 .. m -> S], NEW w \in [1 .. m -> S],
         \A i \in 1 .. m - 1 : v[i] = w[i + 1]
  PROVE  w # <<>> /\ Head(w) = w[1] /\ v = Append(Tail(w), v[m])
<1>1. w \in Seq(S) /\ Len(w) = m /\ w # <<>>
  OBVIOUS
<1>2. PICK q : q = Tail(w)
  OBVIOUS
<1>3. q \in Seq(S) /\ Len(q) = m - 1 /\ \A i \in 1 .. m - 1 : q[i] = w[i + 1]
  BY <1>1, <1>2
<1>4. PICK a : a = Append(q, v[m])
  OBVIOUS
<1>5. v[m] \in S /\ m - 1 \in Nat
  OBVIOUS
<1>6. a \in Seq(S) /\ Len(a) = m /\ a[m] = v[m] /\ \A i \in 1 .. m - 1 : a[i] = q[i]
  BY <1>3, <1>4, <1>5
<1>7. \A i \in 1 .. m : a[i] = v[i]
  BY <1>3, <1>6
<1>8. a = v
  BY <1>6, <1>7
<1> QED
  BY <1>1, <1>2, <1>4, <1>8

(* A step that neither makes nor stores a thread leaves the line alone.    *)
LEMMA LineStays ==
  ASSUME Inv, LineInv, LineInv', UNCHANGED <<current, made>>, Alone' <=> Alone
  PROVE  Waiting' = Waiting
<1>1. n' = n /\ \A i : Node(i)' = Node(i)
  BY DEF n, Node
<1>2. CASE Alone
  BY <1>2 DEF LineInv
<1>3. CASE ~Alone
  <2>1. PICK c \in 0 .. n : current = Node(c) /\ Waiting = Line(c)
    BY <1>3 DEF LineInv
  <2>2. PICK d \in 0 .. n : current = Node(d) /\ Waiting' = Line(d)'
    BY <1>1, <1>3 DEF LineInv
  <2>3. c = d
    BY <2>1, <2>2, RingNodes DEF Inv
  <2>4. Line(c)' = Line(c)
    BY <1>1 DEF Line, Place
  <2> QED
    BY <2>1, <2>2, <2>3, <2>4
<1> QED
  BY <1>2, <1>3

(* A timer interrupt sends the running thread to the end of the line.      *)
LEMMA TickMaps ==
  ASSUME Inv, LineInv, Inv', LineInv', QuietTick
  PROVE  RR!Rotate \/ UNCHANGED (RR!vars)
<1> USE DEF Inv
<1>1. /\ pc' = pc /\ made' = made /\ pc \in {"create", "hang"} /\ current # NULL
      /\ AssertsHold => current' = NextThread
  BY DEF QuietTick, Tick, bootVars
<1>2. n' = n /\ n \in Nat /\ ~Inserting /\ ~Inserting' /\ \A i : Node(i)' = Node(i)
  BY <1>1, RingNodes DEF Inserting, n, Node
<1>3. CASE n = 0
  <2>1. current = Idle /\ current' = Idle
    <3>1. \A i \in 0 .. 0 : i = 0
      OBVIOUS
    <3>2. \E i \in 0 .. 0 : current' = Node(i)
      BY <1>1, <1>2, <1>3 DEF StateInv
    <3>3. \E i \in 0 .. 0 : current = Node(i)
      BY <1>1, <1>2, <1>3 DEF StateInv
    <3> QED
      BY <3>1, <3>2, <3>3 DEF Node
  <2>2. Waiting = <<>> /\ Waiting' = <<>>
    BY <1>2, <1>3 DEF LineInv, Alone
  <2> QED
    BY <2>1, <2>2 DEF RR!vars
<1>4. CASE n # 0
  <2>1. PICK c \in 0 .. n : current = Node(c) /\ Waiting = Line(c)
    BY <1>2, <1>4 DEF LineInv, Alone
  <2>2. PICK d \in 0 .. n : current' = Node(d) /\ Waiting' = Line(d)'
    BY <1>2, <1>4 DEF LineInv, Alone
  <2>3. current' = Node(Successor(c))
    BY <1>1, <1>2, <1>4, <2>1, TickRing
  <2>4. d = Successor(c)
    BY <2>2, <2>3, RingNodes
  <2>5. Line(d)' = Line(d)
    BY <1>2 DEF Line, Place
  <2>6. PICK w : w = Line(c)
    OBVIOUS
  <2>7. PICK v : v = Line(d)
    OBVIOUS
  <2>8. /\ w \in [1 .. n -> Thread] /\ v \in [1 .. n -> Thread]
        /\ w[1] = Node(d) /\ v[n] = Node(c)
        /\ \A i \in 1 .. n - 1 : v[i] = w[i + 1]
    <3>1. /\ \A i \in 1 .. n : Node(Place(c, i)) \in Thread /\ Node(Place(d, i)) \in Thread
          /\ Place(c, 1) = d /\ Place(d, n) = c
          /\ \A i \in 1 .. n - 1 : Place(d, i) = Place(c, i + 1)
      <4>1. n > 0 /\ d \in 0 .. n
        BY <1>2, <1>4
      <4>2. \A i \in 1 .. n : Place(c, i) \in 0 .. n /\ Place(d, i) \in 0 .. n
        BY <1>2, Places
      <4>3. Place(c, 1) = d
        BY <1>2, <2>4, <4>1, Places
      <4>4. Place(d, n) = c /\ \A i \in 1 .. n - 1 : Place(d, i) = Place(c, i + 1)
        BY <1>2, <2>4, <4>1, LineTurns
      <4> QED
        BY <4>2, <4>3, <4>4, RingNodes
    <3>2. \A i \in 1 .. n : w[i] = Node(Place(c, i)) /\ v[i] = Node(Place(d, i))
      BY <2>6, <2>7 DEF Line
    <3>3. w \in [1 .. n -> Thread] /\ v \in [1 .. n -> Thread]
      BY <2>6, <2>7, <3>1 DEF Line
    <3>4. w[1] = Node(d) /\ v[n] = Node(c)
      BY <1>2, <1>4, <3>1, <3>2
    <3>5. ASSUME NEW i \in 1 .. n - 1 PROVE v[i] = w[i + 1]
      <4>1. i \in 1 .. n /\ i + 1 \in 1 .. n
        BY <1>2
      <4> QED
        BY <3>1, <3>2, <4>1
    <3> QED
      BY <3>3, <3>4, <3>5
  <2>9. PICK m \in Nat : m = n /\ m > 0
    BY <1>2, <1>4
  <2>10. PICK x, y \in Thread : x = Node(c) /\ y = Node(d)
    BY RingNodes
  <2>11. w # <<>> /\ Head(w) = y /\ v = Append(Tail(w), x)
    <3>1. /\ w \in [1 .. m -> Thread] /\ v \in [1 .. m -> Thread]
          /\ w[1] = y /\ v[m] = x /\ \A i \in 1 .. m - 1 : v[i] = w[i + 1]
      BY <2>8, <2>9, <2>10
    <3> QED
      BY <2>9, <3>1, HeadToTheEnd
  <2>12. current' # NULL
    BY <2>3, RingNodes
  <2> QED
    BY <1>1, <2>1, <2>2, <2>4, <2>5, <2>6, <2>7, <2>10, <2>11, <2>12 DEF RR!Rotate
<1> QED
  BY <1>3, <1>4

(* A thread joins the line where it becomes reachable: when it is put on   *)
(* kernel_threads, which writes the field that the ready queue uses too,   *)
(* and the first one when it is stored in tqh_first.                       *)
LEMMA JoinMaps ==
  ASSUME Inv, LineInv, LineInv', current = Idle, current' = Idle, ~Alone',
         NEW t \in Boots, n' \in Nat, n' > 0, made' \in Seq(Boots), made'[n'] = t,
         \A i, j \in 1 .. n' : made'[i] = made'[j] => i = j,
         IF Alone THEN n' = 1 ELSE made' = Append(made, t) /\ n' = n + 1
  PROVE  RR!Start(t)
<1>1. Idle # NULL /\ Idle \notin Boots /\ n \in Nat /\ Len(made') = n'
  BY RingNodes, SchedulerAssumption DEF Inv, n, Thread
<1>2. ASSUME NEW c \in 0 .. n, current = Node(c) PROVE c = 0
  BY <1>1, <1>2, RingNodes DEF Inv, Node
<1>3. Waiting' = made'
  <2>1. PICK d \in 0 .. n' : Node(d)' = Idle /\ Waiting' = Line(d)'
    BY DEF LineInv
  <2>2. d = 0
    BY <1>1, <2>1 DEF Node
  <2>3. Line(0)' = [i \in 1 .. n' |-> made'[i]]
    BY <1>1 DEF Line, Place, Node
  <2>4. made' = [i \in 1 .. n' |-> made'[i]]
    BY <1>1
  <2> QED
    BY <2>1, <2>2, <2>3, <2>4
<1>4. Waiting = IF Alone THEN <<>> ELSE made
  <2>1. CASE Alone
    BY <2>1 DEF LineInv
  <2>2. CASE ~Alone
    <3>1. PICK c \in 0 .. n : current = Node(c) /\ Waiting = Line(c)
      BY <2>2 DEF LineInv
    <3>2. c = 0
      BY <1>2, <3>1
    <3>3. Line(0) = [i \in 1 .. n |-> made[i]]
      BY <1>1 DEF Line, Place, Node
    <3>4. made = [i \in 1 .. n |-> made[i]]
      BY DEF Inv, TypeOK, n
    <3> QED
      BY <2>2, <3>1, <3>2, <3>3, <3>4
  <2> QED
    BY <2>1, <2>2
<1>5. Waiting' = Append(Waiting, t)
  <2>1. CASE Alone
    <3>1. made' = <<t>>
      BY <1>1, <2>1
    <3> QED
      BY <1>3, <1>4, <2>1, <3>1
  <2>2. CASE ~Alone
    BY <1>3, <1>4, <2>2
  <2> QED
    BY <2>1, <2>2
<1>6. t \notin RR!Started
  <2>1. t # Idle
    BY <1>1
  <2>2. ASSUME NEW i \in 1 .. Len(Waiting) PROVE Waiting[i] # t
    <3>1. ~Alone /\ Waiting = made /\ i \in 1 .. n
      BY <1>4, <2>2 DEF n
    <3>2. i \in 1 .. n' /\ i # n' /\ n' \in 1 .. n' /\ made'[i] = made[i]
      BY <1>1, <3>1 DEF Inv, TypeOK, n
    <3> QED
      BY <3>1, <3>2
  <2> QED
    BY <1>1, <2>1, <2>2 DEF RR!Started
<1> QED
  BY <1>1, <1>5, <1>6 DEF RR!Start

LEMMA StepMaps ==
  Inv /\ LineInv /\ Inv' /\ LineInv' /\ [QuietNext]_vars => [RR!Next]_(RR!vars)
<1> SUFFICES ASSUME Inv, LineInv, Inv', LineInv', [QuietNext]_vars
             PROVE  RR!Next \/ UNCHANGED (RR!vars)
  OBVIOUS
<1> USE DEF Inv
<1>1. n \in Nat /\ n = Len(made) /\ n' = Len(made')
  BY RingNodes DEF n
<1>2. ASSUME UNCHANGED <<current, made>>, Alone' <=> Alone PROVE UNCHANGED (RR!vars)
  BY <1>2, LineStays DEF RR!vars
<1>3. CASE ThreadingSetup
  <2>1. /\ current = NULL /\ current' = Idle /\ made' = made
        /\ pc = "threading_setup" /\ pc' = "scheduler_setup"
    BY <1>3 DEF ThreadingSetup, BootAt, StateInv
  <2>2. n = 0 /\ n' = 0
    BY <2>1 DEF MadeInv, n
  <2>3. Waiting = <<>> /\ Waiting' = <<>>
    BY <2>2 DEF LineInv, Alone
  <2> QED
    BY <2>1, <2>3, SchedulerAssumption DEF RR!vars, Thread
<1>4. CASE SchedulerSetup \/ DisableIRQs \/ EnableIRQs \/ Allocate \/ AllocateFails \/ Return
  <2>1. /\ UNCHANGED <<current, made>>
        /\ pc \in {"scheduler_setup", "create"} /\ pc' \in {"create", "link", "hang"}
    BY <1>4 DEF SchedulerSetup, DisableIRQs, EnableIRQs, Allocate, AllocateFails, Return,
                BootAt, bootVars
  <2> QED
    BY <1>1, <1>2, <2>1 DEF Alone, Inserting
<1>5. CASE SetReady \/ InsClearNext \/ InsSetPrev \/ InsLoadLast \/ InsSetLast
  <2>1. /\ UNCHANGED <<current, made>> /\ Inserting /\ n > 0
        /\ \/ pc # "set_last" /\ Inserting' /\ pc' # "set_last"
           \/ pc = "set_last" /\ ~Inserting'
    BY <1>5 DEF SetReady, InsClearNext, InsSetPrev, InsLoadLast, InsSetLast, BootAt,
                Inserting, MadeInv
  <2> QED
    BY <1>1, <1>2, <2>1 DEF Alone, n
<1>6. CASE InsStore
  <2>1. /\ UNCHANGED <<current, made>> /\ Inserting /\ n > 0 /\ current = Idle
        /\ pc = "store" /\ pc' = "set_last"
    BY <1>6 DEF InsStore, BootAt, Inserting, MadeInv, StateInv
  <2>2. n' = n /\ ~Alone'
    BY <1>1, <2>1 DEF Alone
  <2>3. CASE n = 1
    <3>1. made[1] \in Boots /\ Alone /\ made \in Seq(Boots)
      <4>1. made \in Seq(Boots) /\ 1 \in 1 .. Len(made)
        BY <1>1, <2>3 DEF TypeOK
      <4>2. made[1] \in Boots
        BY <4>1
      <4> QED
        BY <2>1, <2>3, <4>1, <4>2 DEF Alone
    <3>2. \A i, j \in 1 .. n : made[i] = made[j] => i = j
      BY DEF MadeInv
    <3>3. RR!Start(made[1])
      BY <2>1, <2>2, <2>3, <3>1, <3>2, JoinMaps
    <3> QED
      BY <3>1, <3>3 DEF RR!Next
  <2>4. CASE n # 1
    BY <1>1, <1>2, <2>1, <2>2, <2>4 DEF Alone
  <2> QED
    BY <2>3, <2>4
<1>7. CASE LinkKernel
  <2>1. /\ current = Idle /\ current' = Idle /\ made' = Append(made, T)
        /\ pc = "link" /\ pc' = "set_ready" /\ T \in Boots
    BY <1>7, BootThreadsTyped DEF LinkKernel, BootAt, StateInv, MadeInv, TypeOK, T
  <2>2. n' = n + 1 /\ made' \in Seq(Boots) /\ made'[n'] = T
    BY <1>1, <2>1 DEF TypeOK
  <2>3. CASE n = 0
    <3>1. Alone /\ Alone'
      BY <2>1, <2>2, <2>3 DEF Alone, Inserting
    <3>2. Waiting = <<>> /\ Waiting' = <<>>
      BY <3>1 DEF LineInv
    <3> QED
      BY <2>1, <3>2 DEF RR!vars
  <2>4. CASE n # 0
    <3>1. ~Alone /\ ~Alone' /\ n' \in Nat /\ n' > 0
      BY <1>1, <2>1, <2>2, <2>4 DEF Alone, Inserting
    <3>2. \A i, j \in 1 .. n' : made'[i] = made'[j] => i = j
      BY DEF MadeInv
    <3>3. RR!Start(T)
      BY <2>1, <2>2, <3>1, <3>2, JoinMaps
    <3> QED
      BY <2>1, <3>3 DEF RR!Next
  <2> QED
    BY <2>3, <2>4
<1>8. CASE QuietTick
  BY <1>8, TickMaps DEF RR!Next
<1>9. CASE UNCHANGED vars
  <2>1. UNCHANGED <<current, made, pc>>
    BY <1>9 DEF vars, bootVars
  <2> QED
    BY <1>1, <1>2, <2>1 DEF Alone, Inserting
<1> QED
  BY <1>3, <1>4, <1>5, <1>6, <1>7, <1>8, <1>9 DEF QuietNext, BootStep

(* The two tail queues, threaded through one field of each thread, amount  *)
(* to a first-come first-served line: every step of the kernel is a step   *)
(* of RoundRobin or leaves the line alone.                                 *)
THEOREM QueueIsRoundRobin == QuietSpec => RR!Init /\ [][RR!Next]_(RR!vars)
<1>1. Init /\ LineInv => RR!Init
  <2> SUFFICES ASSUME Init, LineInv PROVE RR!Init
    OBVIOUS
  <2>1. n = 0 /\ current = NULL
    BY DEF Init, n
  <2>2. Waiting = <<>>
    BY <2>1 DEF LineInv, Alone
  <2> QED
    BY <2>1, <2>2 DEF RR!Init
<1> QED
  BY <1>1, LineAlways, StepMaps, PTL DEF QuietSpec
=============================================================================
