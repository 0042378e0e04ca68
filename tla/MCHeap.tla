------------------------------- MODULE MCHeap -------------------------------
(* A memory of 32 addresses: 4 below the BIOS, 3 for it, a kernel of 2, an *)
(* initial RAM disk of 2.                                                  *)
EXTENDS Heap
MCLeftovers == {0, 1, 6}
MCBelowBios == {1}
MCRequests  == {2, 3}
=============================================================================
