------------------------------ MODULE Allocator ------------------------------
(***************************************************************************)
(* What heap_alloc() and heap_free() promise to their callers: a block     *)
(* handed out lies in one of the arenas, address by address, and it has an *)
(* address in common with another block only if the two are of different   *)
(* arenas that overlap themselves.  Which block is chosen, and how the     *)
(* free memory is kept, is left open.                                      *)
(***************************************************************************)
EXTENDS Integers

CONSTANTS Word,      \* how many addresses there are
          Arena,     \* the ranges of memory the allocator started with
          Requests   \* the sizes asked for

VARIABLES start,     \* the first address of each arena
          extent,    \* the size of each arena
          live       \* the blocks handed out and not given back

vars == <<start, extent, live>>

(* The addresses from base on: a uint32_t wraps. *)
Addresses(base, size) == {(base + i) % Word : i \in 0 .. size - 1}

Held(block) == Addresses(block.base, block.size)
Memory(a)   == Addresses(start[a], extent[a])

Overlap(a, b) == Held(a) \cap Held(b) # {}

(* Two arenas that were given to the allocator with memory in common. *)
Shared(a, b) == a # b /\ Memory(a) \cap Memory(b) # {}

Init ==
  /\ start \in [Arena -> 0 .. Word - 1]
  /\ extent \in [Arena -> 0 .. Word - 1]
  /\ live = {}

Alloc ==
  \E a \in Arena, base \in 0 .. Word - 1, size \in Requests :
    LET block == [arena |-> a, base |-> base, size |-> size]
    IN  /\ live' = live \cup {block}
        /\ Held(block) \subseteq Memory(a)
        /\ \A other \in live : Overlap(block, other) => Shared(a, other.arena)
        /\ UNCHANGED <<start, extent>>

Free == \E block \in live : live' = live \ {block} /\ UNCHANGED <<start, extent>>

Next == Alloc \/ Free
Spec == Init /\ [][Next]_vars
=============================================================================
