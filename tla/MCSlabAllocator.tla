--------------------------- MODULE MCSlabAllocator ---------------------------
(* Constants of SlabAllocator for TLC. *)
EXTENDS SlabAllocator, TLC

CONSTANTS d1, d2

MCDocs == {d1, d2}

Symmetry == Permutations(MCDocs)

\* No action and no invariant reads which bytes were written, so two states that
\* differ in nothing else have the same futures.
Unwritten == <<[s \in Slabs |-> <<slab[s].size, slab[s].offset>>],
               chain, pool, phase, allocated, live>>
=============================================================================
