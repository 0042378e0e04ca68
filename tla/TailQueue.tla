------------------------------ MODULE TailQueue ------------------------------
(***************************************************************************)
(* The BSD tail queues of kernel/lib/queue.h, at the level of pointers.    *)
(*                                                                         *)
(* An element x has the fields x.tqe_next (a pointer) and x.tqe_prev (the  *)
(* address of a pointer); a head h has h.tqh_first (a pointer) and         *)
(* h.tqh_last (the address of a pointer).  A "cell" is a place where a     *)
(* pointer is stored: the tqe_next of an element, the tqh_first of a head, *)
(* or the word at physical address 0 (paging is never turned on, so that   *)
(* word is ordinary memory).  A cell is named by its owner, so             *)
(*     l.next[x]  is x.tqe_next, and h.tqh_first for a head h,             *)
(*     l.prev[x]  is x.tqe_prev, as the cell it is the address of,         *)
(*     l.last[h]  is h.tqh_last, as the cell it is the address of,         *)
(* and &x.tqe_next is written x, &h.tqh_first is written h.                *)
(*                                                                         *)
(* An element has ONE pair of links whatever the number of queues it is    *)
(* put on, which is what makes this level of detail worth having: struct   *)
(* thread is put on two queues through the same field.                     *)
(***************************************************************************)
EXTENDS Integers, Sequences

CONSTANT NULL    \* the null pointer, and the address 0

(* Where a pointer can be stored, and the memory of all links. *)
Cell(Elem, Queue) == Elem \cup Queue \cup {NULL}

Links(Elem, Queue) ==
  [next : [Cell(Elem, Queue) -> Elem \cup {NULL}],
   prev : [Elem -> Cell(Elem, Queue)],
   last : [Queue -> Cell(Elem, Queue)]]

(* Memory before any queue is set up: zeroed, as .bss is. *)
ZeroLinks(Elem, Queue) ==
  [next |-> [c \in Cell(Elem, Queue) |-> NULL],
   prev |-> [e \in Elem |-> NULL],
   last |-> [h \in Queue |-> NULL]]

-----------------------------------------------------------------------------
(* TAILQ_FIRST *)
First(l, h) == l.next[h]

(* TAILQ_INIT *)
InitHead(l, h) == [l EXCEPT !.next[h] = NULL, !.last[h] = h]

(* The four stores of TAILQ_INSERT_TAIL, in the order of the macro.  The   *)
(* third one is a load of tqh_last and a store through it.                 *)
ClearNext(l, e)  == [l EXCEPT !.next[e] = NULL]
SetPrev(l, h, e) == [l EXCEPT !.prev[e] = l.last[h]]
StoreAt(l, a, e) == [l EXCEPT !.next[a] = e]
SetLast(l, h, e) == [l EXCEPT !.last[h] = e]

(* TAILQ_INSERT_TAIL.  When e is already the last element of h, the third  *)
(* store goes to e.tqe_next itself and e becomes its own successor.        *)
InsertTail(l, h, e) ==
  LET linked == SetPrev(ClearNext(l, e), h, e)
  IN  SetLast(StoreAt(linked, linked.last[h], e), h, e)

(* Mutant: the successor keeps pointing back at the removed element. *)
Remove_KeepsPrev(l, h, e) ==
  LET succ == l.next[e]
  IN  [next |-> [l.next EXCEPT ![l.prev[e]] = succ],
       prev |-> l.prev,
       last |-> IF succ = NULL THEN [l.last EXCEPT ![h] = l.prev[e]] ELSE l.last]

(* TAILQ_REMOVE.  The store through e.tqe_prev comes last, so it sees the  *)
(* new tqe_prev if e is its own successor.                                 *)
Remove(l, h, e) ==
  LET succ == l.next[e]
      prev == IF succ = NULL THEN l.prev ELSE [l.prev EXCEPT ![succ] = l.prev[e]]
  IN  [next |-> [l.next EXCEPT ![prev[e]] = succ],
       prev |-> prev,
       last |-> IF succ = NULL THEN [l.last EXCEPT ![h] = l.prev[e]] ELSE l.last]

-----------------------------------------------------------------------------
(* The elements a TAILQ_FOREACH over h visits before it reaches NULL or    *)
(* the element stop, cut after bound of them (the walk of a corrupted      *)
(* queue may never end).                                                   *)
Walk(l, h, stop, bound) ==
  LET node[n \in 0 .. bound] == IF n = 0 THEN h
                                ELSE IF node[n-1] \in {NULL, stop} THEN NULL
                                ELSE l.next[node[n-1]]
      live == {n \in 1 .. bound : node[n] \notin {NULL, stop}}
  IN  [n \in live |-> node[n]]
=============================================================================
