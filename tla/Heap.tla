-------------------------------- MODULE Heap --------------------------------
(***************************************************************************)
(* memory/physical-memory.c: the heap behind malloc() and free().  Two     *)
(* lists of descriptors (struct memory_range), free and used; a descriptor *)
(* is never given back, so it is identified by its rank on the page the    *)
(* heap pointer started at, and a list is a sequence of ranks.  Every call *)
(* is made with one thread running, so a call is one step.                 *)
(***************************************************************************)
EXTENDS Integers, Sequences

CONSTANTS
  Word,                     \* how many addresses a uint32_t can hold
  PageSize,                 \* X86_PAGE_SIZE
  BiosStart, BiosEnd,       \* BIOS_VIDEO_START, BIOS_VIDEO_END
  KernelStart, KernelEnd,   \* the addresses of __kernel_start, __kernel_end
  InitrdStart, InitrdEnd,   \* where the boot loader put the initial RAM disk
  RamSize,                  \* the end of the memory, aligned on a page
  Leftovers,                \* what the memory r2 is built on may hold
  Requests,                 \* the sizes heap_alloc() is asked for, 0 aside
  MaxMade, MaxUsed          \* bounds: descriptors made, blocks handed out

ASSUME HeapAssumption ==
  /\ Word \in Nat \ {0} /\ PageSize \in 0 .. Word - 1
  /\ BiosStart \in 0 .. Word - 1 /\ RamSize \in 0 .. Word - 1
  /\ BiosEnd \in BiosStart .. RamSize /\ KernelStart \in BiosEnd .. RamSize
  /\ KernelEnd \in KernelStart .. RamSize
  /\ InitrdStart \in KernelEnd .. RamSize /\ InitrdEnd \in InitrdStart .. RamSize
  /\ Leftovers \subseteq 0 .. Word - 1
  /\ Requests \subseteq Nat \ {0}
  /\ MaxMade \in Nat /\ MaxUsed \in Nat

VARIABLES
  range,   \* the descriptors: base_address and size; and, as history,
           \* the arena it was cut from and its place in that arena
  free,    \* free_memory_ranges
  used,    \* used_memory_ranges
  extent   \* history: the sizes of the arenas

vars == <<range, free, used, extent>>

(* uint32_t arithmetic. *)
Plus(a, b)  == IF a + b < Word THEN a + b ELSE a + b - Word
Minus(a, b) == IF a >= b THEN a - b ELSE a - b + Word

Arena == 2 .. 8
Made  == DOMAIN range

-----------------------------------------------------------------------------
(* The descriptors r1 .. r8 of physical_memory_setup().  r2->base_address  *)
(* is assigned to itself: it keeps what the memory held.  The size of r6   *)
(* is the address of the end of the kernel.                                *)
SetupRange(leftover) == <<
  [base |-> PageSize, size |-> PageSize],
  [base |-> leftover, size |-> Minus(BiosStart, leftover)],
  [base |-> BiosStart, size |-> BiosEnd - BiosStart],
  [base |-> BiosEnd, size |-> KernelStart - BiosEnd],
  [base |-> InitrdStart, size |-> InitrdEnd - InitrdStart],
  [base |-> KernelStart, size |-> KernelEnd],
  [base |-> KernelEnd, size |-> InitrdStart - KernelEnd],
  [base |-> InitrdEnd, size |-> RamSize - InitrdEnd] >>

(* physical_memory_setup(): all but r1 go to the free list, the ranges     *)
(* commented "Used" too; the used list stays empty.                        *)
Init ==
  \E leftover \in Leftovers :
    /\ range = [d \in 1 .. 8 |->
                  [base |-> SetupRange(leftover)[d].base,
                   size |-> SetupRange(leftover)[d].size, arena |-> d, from |-> 0]]
    /\ free = [i \in 1 .. 7 |-> i + 1]
    /\ used = <<>>
    /\ extent = [a \in Arena |-> range[a].size]

(* TAILQ_REMOVE() of the i-th element. *)
Without(list, i) ==
  [j \in 1 .. Len(list) - 1 |-> IF j < i THEN list[j] ELSE list[j + 1]]

(* Mutant: one byte too few is enough. *)
Fits_OffByOne(d, size) == range[d].size + 1 >= size

Fits(d, size) == range[d].size >= size

IsExact(d, size) == range[d].size = size

NoExact(size) == \A i \in DOMAIN free : ~IsExact(free[i], size)

(* heap_alloc(), first round: the first free range of the very size. *)
Exact(size) ==
  \E i \in DOMAIN free :
    /\ IsExact(free[i], size)
    /\ \A j \in 1 .. i - 1 : ~IsExact(free[j], size)
    /\ free' = Without(free, i)
    /\ used' = Append(used, free[i])
    /\ UNCHANGED <<range, extent>>

(* Mutant: the new chunk gets the size that is left. *)
Cut_SizeLeft(d, size) ==
  LET left == range[d].size - size
  IN  range' = Append([range EXCEPT ![d].size = left],
                      [base |-> Plus(range[d].base, left), size |-> left,
                       arena |-> range[d].arena, from |-> range[d].from + left])

(* Mutant: the new chunk is taken before the range is resized. *)
Cut_AtTheEnd(d, size) ==
  LET left == range[d].size - size
  IN  range' = Append([range EXCEPT ![d].size = left],
                      [base |-> Plus(range[d].base, range[d].size), size |-> size,
                       arena |-> range[d].arena, from |-> range[d].from + left])

(* Mutant: the range that is cut is not resized. *)
Cut_NotResized(d, size) ==
  LET left == range[d].size - size
  IN  range' = Append(range,
                      [base |-> Plus(range[d].base, left), size |-> size,
                       arena |-> range[d].arena, from |-> range[d].from + left])

(* The end of a range becomes a chunk of its own, with a new descriptor. *)
Cut(d, size) ==
  LET left == range[d].size - size
  IN  range' = Append([range EXCEPT ![d].size = left],
                      [base |-> Plus(range[d].base, left), size |-> size,
                       arena |-> range[d].arena, from |-> range[d].from + left])

(* heap_alloc(), second round: the first free range that is large enough   *)
(* is cut, and stays in the free list.                                     *)
FirstFit(size) ==
  \E i \in DOMAIN free :
    /\ NoExact(size)
    /\ Fits(free[i], size)
    /\ \A j \in 1 .. i - 1 : ~Fits(free[j], size)
    /\ Len(range) < MaxMade
    /\ Cut(free[i], size)
    /\ used' = Append(used, Len(range) + 1)
    /\ UNCHANGED <<free, extent>>

(* Or no range is large enough, and the caller gets NULL. *)
Refuse(size) ==
  /\ \A i \in DOMAIN free : ~Fits(free[i], size)
  /\ UNCHANGED vars

Alloc ==
  \E size \in Requests :
    Len(used) < MaxUsed /\ (Exact(size) \/ FirstFit(size) \/ Refuse(size))

(* Mutant: the range stays in the used list. *)
Release_KeepsUsed(i) ==
  /\ free' = Append(free, used[i])
  /\ UNCHANGED <<range, used, extent>>

(* The moved range is the last of the free list, so the loop over the used *)
(* list ends with it.                                                      *)
Release(i) ==
  /\ free' = Append(free, used[i])
  /\ used' = Without(used, i)
  /\ UNCHANGED <<range, extent>>

(* heap_free(): of an address that was handed out; the first used range    *)
(* with that base is released.  heap_free(NULL) returns at once, even when *)
(* 0 is the address of a block.                                            *)
Free ==
  \E i \in DOMAIN used :
    /\ range[used[i]].base # 0
    /\ \A j \in 1 .. i - 1 : range[used[j]].base # range[used[i]].base
    /\ Release(i)

Next == Alloc \/ Free
Spec == Init /\ [][Next]_vars

-----------------------------------------------------------------------------
TypeOK ==
  /\ range \in Seq([base : 0 .. Word - 1, size : 0 .. Word - 1, arena : 1 .. 8, from : Nat])
  /\ free \in Seq(Made \ {1}) /\ used \in Seq(Made \ {1})
  /\ extent \in [Arena -> 0 .. Word - 1]

(* However ranges were cut, handed out, released and handed out again, two *)
(* ranges cut from one arena have no address in common                     *)
(* (physical-memory.c:136-144).                                            *)
Apart ==
  \A d, e \in Made :
    d # e /\ range[d].arena = range[e].arena
      => range[d].from + range[d].size <= range[e].from
         \/ range[e].from + range[e].size <= range[d].from

(* No memory is lost: every address of an arena is in one of its ranges,   *)
(* and no range reaches out of its arena.                                  *)
NothingLost ==
  /\ \A a \in Arena : \A x \in 0 .. extent[a] - 1 :
       \E d \in Made : /\ range[d].arena = a
                       /\ range[d].from <= x /\ x < range[d].from + range[d].size
  /\ \A d \in Made \ {1} : range[d].arena \in Arena /\
       range[d].from + range[d].size <= extent[range[d].arena]

(* The addresses handed out are those of the place in the arena, wrapped   *)
(* to a uint32_t (physical-memory.c:143).                                  *)
Addressed ==
  \A d \in Made : range[d].base = (range[range[d].arena].base + range[d].from) % Word

(* Each range but r1 is in exactly one of the two lists, and once. *)
ListedOnce ==
  /\ \A i, j \in DOMAIN free : free[i] = free[j] => i = j
  /\ \A i, j \in DOMAIN used : used[i] = used[j] => i = j
  /\ \A i \in DOMAIN free, j \in DOMAIN used : free[i] # used[j]
  /\ \A d \in Made \ {1} : \/ \E i \in DOMAIN free : free[i] = d
                           \/ \E i \in DOMAIN used : used[i] = d

(* "It preserves BIOS and Video address ranges from memory allocation      *)
(* requests" (physical-memory.h:53).                                       *)
BiosPreserved ==
  \A i \in DOMAIN used :
    LET r == range[used[i]]
    IN  ~(r.base < BiosEnd /\ BiosStart < r.base + r.size)

(* What a used range is to the caller: an address and a size. *)
Block(d) == [arena |-> range[d].arena, base |-> range[d].base, size |-> range[d].size]

Blocks == INSTANCE Allocator WITH
  start <- [a \in Arena |-> range[a].base],
  live  <- {Block(used[i]) : i \in DOMAIN used}

(* Every call is one of the abstract allocator: the addresses of a block   *)
(* are its arena's, and it shares one with another block only where the    *)
(* ranges that physical_memory_setup() began with share memory             *)
(* (physical-memory.c:112-172).                                            *)
ImplementsAllocator == Blocks!Spec

(* No address is in two blocks at once: the memory test, which fills every *)
(* block with the block's address before it looks at the first again,      *)
(* calls the contrary "Page overwritten" (physical-memory-test.c:61).      *)
NoAddressTwice ==
  \A i, j \in DOMAIN used :
    i # j => ~Blocks!Overlap(Block(used[i]), Block(used[j]))
=============================================================================
