---------------------------- MODULE SlabAllocator ----------------------------
(***************************************************************************)
(* Package alloc: the bounded allocators of the documents being extracted, *)
(* each a chain of slabs, and the global pool through which they recycle   *)
(* slabs.  A document's clients keep to the warning of                     *)
(* BoundedAllocator.Reset: they use no slice after the reset.              *)
(*                                                                         *)
(* A slab is abstracted to its size, its offset and the bytes that were    *)
(* ever written, a slice to the bytes it covers.  The mutex of a bounded   *)
(* allocator makes an allocation one step; Reset holds it while it takes   *)
(* the pool's own mutex once per slab, so it is several steps.             *)
(***************************************************************************)
EXTENDS Integers, Sequences, FiniteSets, SequencesExt

CONSTANTS
    Docs,             \* the documents, one BoundedAllocator each
    Limit,            \* BoundedAllocator.limit
    Align,            \* ptrSize
    DefaultSlabSize,
    MinSlabSize,      \* the smallest size that clampSlabSize lets pass
    MaxSlabSize,
    Sizes,            \* the sizes of the slices asked for, in bytes
    MaxSlabs          \* bound: slabs that exist at a time

ASSUME AllocAssumption ==
    /\ Limit \in Nat
    /\ {Align, DefaultSlabSize, MinSlabSize, MaxSlabSize} \subseteq Nat \ {0}
    /\ MinSlabSize <= MaxSlabSize
    /\ Sizes \subseteq Nat \ {0}
    /\ MaxSlabs \in Nat

Slabs == 1 .. MaxSlabs

VARIABLES
    slab,      \* size, offset and written bytes of each slab, size 0 for none
    chain,     \* Allocator.head and the slabs linked to it, by document
    pool,      \* globalPool.bySize: a stack of slabs for each size
    phase,     \* of each document: "none", "open" or "resetting"
    allocated, \* BoundedAllocator.allocated
    live       \* the slices handed out since the last reset

vars == <<slab, chain, pool, phase, allocated, live>>

-----------------------------------------------------------------------------
(* Sizes. *)

NextPow2(n) ==
    CHOOSE p \in {2^k : k \in 0 .. n} :
        p >= n /\ \A k \in 0 .. n : 2^k >= n => p <= 2^k

\* Powers of two grow without bound: nextPow2 has a result, at least its argument.
ASSUME PowersAssumption ==
    \A n \in Sizes \cup {DefaultSlabSize, MinSlabSize} :
        NextPow2(n) \in Nat /\ n <= NextPow2(n)

ClampSlabSize(n) ==
    LET p == NextPow2(IF n < MinSlabSize THEN MinSlabSize ELSE n)
    IN  IF p > MaxSlabSize THEN MaxSlabSize ELSE p

SlabSize == ClampSlabSize(DefaultSlabSize)

\* growAndAlloc: the size of the slab made for a slice of n bytes.
GrownSize(n) ==
    IF n <= SlabSize THEN SlabSize
    ELSE IF NextPow2(n) > MaxSlabSize THEN n
    ELSE NextPow2(n)

SlabSizes == {SlabSize} \cup {GrownSize(n) : n \in Sizes}

\* (offset + alignMask) &^ alignMask
Aligned(offset) == ((offset + Align - 1) \div Align) * Align

Fits(s, n) == Aligned(s.offset) + n <= s.size

-----------------------------------------------------------------------------
NoSlab == [size |-> 0, offset |-> 0, written |-> {}]

NewSlab(size) == [size |-> size, offset |-> 0, written |-> {}]

Bytes(s, first, n) == [slab |-> s, first |-> first, len |-> n]

Cover(g) == g.first .. (g.first + g.len - 1)

Init ==
    /\ slab = [s \in Slabs |-> NoSlab]
    /\ chain = [d \in Docs |-> << >>]
    /\ pool = [z \in SlabSizes |-> << >>]
    /\ phase = [d \in Docs |-> "none"]
    /\ allocated = [d \in Docs |-> 0]
    /\ live = [d \in Docs |-> {}]

(***************************************************************************)
(* getSlab: the slab most recently put in the pool for this size, with its *)
(* offset reset and its bytes as they are, or a new slab of zeros.         *)
(***************************************************************************)
Recycled(s) == [slab[s] EXCEPT !.offset = 0]

\* Mutant: the slab stays in the pool.
GetSlabKeeping(size, s, contents) ==
    \/ /\ pool[size] # << >>
       /\ s = Last(pool[size])
       /\ contents = Recycled(s)
       /\ UNCHANGED pool
    \/ /\ pool[size] = << >>
       /\ slab[s].size = 0
       /\ \A t \in Slabs : t < s => slab[t].size > 0
       /\ contents = NewSlab(size)
       /\ UNCHANGED pool

GetSlab(size, s, contents) ==
    \/ /\ pool[size] # << >>
       /\ s = Last(pool[size])
       /\ contents = Recycled(s)
       /\ pool' = [pool EXCEPT ![size] = Front(@)]
    \/ /\ pool[size] = << >>
       /\ slab[s].size = 0
       /\ \A t \in Slabs : t < s => slab[t].size > 0
       /\ contents = NewSlab(size)
       /\ UNCHANGED pool

\* NewBounded, when a document is opened.
NewBounded(d) ==
    /\ phase[d] = "none"
    /\ phase' = [phase EXCEPT ![d] = "open"]
    /\ \E s \in Slabs : \E c \in {Recycled(s), NewSlab(SlabSize)} :
          /\ GetSlab(SlabSize, s, c)
          /\ slab' = [slab EXCEPT ![s] = c]
          /\ chain' = [chain EXCEPT ![d] = <<s>>]
    /\ UNCHANGED <<allocated, live>>

\* Mutant: the offset moves by the size of the slice, without its padding.
CarveWithoutPadding(d, s, c, n) ==
    /\ slab' = [slab EXCEPT ![s] = [c EXCEPT !.offset = c.offset + n]]
    /\ live' = [live EXCEPT ![d] = @ \cup {Bytes(s, Aligned(c.offset), n)}]
    /\ allocated' = [allocated EXCEPT ![d] = @ + n]

\* The slice that slab.alloc carves out of slab s, whose contents are c.
Carve(d, s, c, n) ==
    /\ slab' = [slab EXCEPT ![s] = [c EXCEPT !.offset = Aligned(c.offset) + n]]
    /\ live' = [live EXCEPT ![d] = @ \cup {Bytes(s, Aligned(c.offset), n)}]
    /\ allocated' = [allocated EXCEPT ![d] = @ + n]

WithinLimit(d, n) == allocated[d] + n <= Limit

\* BoundedAllocSlice and RawAlloc, when the slab at the head has room.
AllocSlice(d, n) ==
    /\ phase[d] = "open"
    /\ WithinLimit(d, n)
    /\ LET s == Head(chain[d]) IN
       /\ Fits(slab[s], n)
       /\ Carve(d, s, slab[s], n)
    /\ UNCHANGED <<chain, pool, phase>>

\* BoundedAllocSlice and growAndAlloc, when it has not; the rest of the head is
\* given up.
GrowAndAlloc(d, n) ==
    /\ phase[d] = "open"
    /\ WithinLimit(d, n)
    /\ ~Fits(slab[Head(chain[d])], n)
    /\ \E s \in Slabs : \E c \in {Recycled(s), NewSlab(GrownSize(n))} :
          /\ GetSlab(GrownSize(n), s, c)
          /\ Carve(d, s, c, n)
          /\ chain' = [chain EXCEPT ![d] = <<s>> \o @]
    /\ UNCHANGED phase

\* A client fills a slice it was given.
Write(d, g) ==
    /\ phase[d] = "open"
    /\ slab' = [slab EXCEPT ![g.slab].written = @ \cup Cover(g)]
    /\ UNCHANGED <<chain, pool, phase, allocated, live>>

\* Mutant: the count is not set to zero.
ResetBeginUncounted(d) ==
    /\ phase[d] = "open"
    /\ phase' = [phase EXCEPT ![d] = "resetting"]
    /\ live' = [live EXCEPT ![d] = {}]
    /\ UNCHANGED <<slab, chain, pool, allocated>>

\* BoundedAllocator.Reset takes the mutex ...
ResetBegin(d) ==
    /\ phase[d] = "open"
    /\ phase' = [phase EXCEPT ![d] = "resetting"]
    /\ allocated' = [allocated EXCEPT ![d] = 0]
    /\ live' = [live EXCEPT ![d] = {}]
    /\ UNCHANGED <<slab, chain, pool>>

\* ... puts the slabs of the chain in the pool, the head first, ...
PutSlab(d) ==
    LET s == Head(chain[d]) IN
    /\ phase[d] = "resetting"
    /\ chain[d] # << >>
    /\ pool' = [pool EXCEPT ![slab[s].size] = Append(@, s)]
    /\ chain' = [chain EXCEPT ![d] = Tail(@)]
    /\ UNCHANGED <<slab, phase, allocated, live>>

\* ... and takes one slab for the next allocations.
ResetEnd(d) ==
    /\ phase[d] = "resetting"
    /\ chain[d] = << >>
    /\ phase' = [phase EXCEPT ![d] = "open"]
    /\ \E s \in Slabs : \E c \in {Recycled(s), NewSlab(SlabSize)} :
          /\ GetSlab(SlabSize, s, c)
          /\ slab' = [slab EXCEPT ![s] = c]
          /\ chain' = [chain EXCEPT ![d] = <<s>>]
    /\ UNCHANGED <<allocated, live>>

\* The Reader is dropped, after a reset or after an error while opening, and the
\* garbage collector frees the slabs it still holds.
Drop(d) ==
    /\ phase[d] = "open"
    /\ phase' = [phase EXCEPT ![d] = "none"]
    /\ slab' = [s \in Slabs |-> IF s \in ToSet(chain[d]) THEN NoSlab
                                ELSE slab[s]]
    /\ chain' = [chain EXCEPT ![d] = << >>]
    /\ allocated' = [allocated EXCEPT ![d] = 0]
    /\ live' = [live EXCEPT ![d] = {}]
    /\ UNCHANGED pool

Next ==
    \E d \in Docs :
        \/ NewBounded(d)
        \/ \E n \in Sizes : AllocSlice(d, n) \/ GrowAndAlloc(d, n)
        \/ \E g \in live[d] : Write(d, g)
        \/ ResetBegin(d)
        \/ PutSlab(d)
        \/ ResetEnd(d)
        \/ Drop(d)

Spec == Init /\ [][Next]_vars

-----------------------------------------------------------------------------
InChain(s) ==
    UNION {{d} \X {i \in DOMAIN chain[d] : chain[d][i] = s} : d \in Docs}

InPool(s) ==
    UNION {{z} \X {i \in DOMAIN pool[z] : pool[z][i] = s} : z \in SlabSizes}

\* Every slab that exists is in exactly one place, the chain of one document or
\* the pool's stack of slabs of its size, also between the steps of a reset: no
\* two documents ever share a slab (Reset, getSlab, slabPool).
SlabInOnePlace ==
    \A s \in Slabs :
        /\ Cardinality(InChain(s)) + Cardinality(InPool(s)) =
              IF slab[s].size > 0 THEN 1 ELSE 0
        /\ \A place \in InPool(s) : place[1] = slab[s].size

\* The slices of a document lie below the offset of slabs of its own chain, inside
\* those slabs and aligned, and no byte is in two of them (slab.alloc, growAndAlloc,
\* Reset).
SlicesDisjoint ==
    \A d \in Docs : \A g \in live[d] :
        /\ g.slab \in ToSet(chain[d])
        /\ g.first % Align = 0
        /\ g.first + g.len <= slab[g.slab].offset
        /\ slab[g.slab].offset <= slab[g.slab].size
        /\ \A h \in live[d] :
              h # g /\ h.slab = g.slab => Cover(g) \cap Cover(h) = {}

AnyOf(T) == CHOOSE x \in T : TRUE

\* The sum of f over a finite set.
SumOf(f, S) ==
    LET sum[T \in SUBSET S] ==
            IF T = {} THEN 0 ELSE f[AnyOf(T)] + sum[T \ {AnyOf(T)}]
    IN sum[S]

LenOf(d) == [g \in live[d] |-> g.len]

OffsetOf == [s \in Slabs |-> slab[s].offset]

BytesInUse(d) == SumOf(OffsetOf, ToSet(chain[d]))

\* The bytes counted against the limit are exactly those of the slices handed out
\* since the last reset, and what BytesInUse reports exceeds them by no more than
\* the padding that aligns each slice (BoundedAllocSlice, Reset, slab.alloc).
AccountingExact ==
    \A d \in Docs :
        /\ allocated[d] = SumOf(LenOf(d), live[d])
        /\ phase[d] = "open" =>
              BytesInUse(d) - allocated[d] \in 0 .. (Align - 1) * Cardinality(live[d])

-----------------------------------------------------------------------------
(* The inductive invariant of the allocators. *)

Contents == [size : {0} \cup SlabSizes, offset : Nat, written : SUBSET Nat]

\* Values of the state, with no more bytes counted than the limit allows
\* (BoundedAllocSlice).
TypeOK ==
    /\ slab \in [Slabs -> Contents]
    /\ chain \in [Docs -> Seq(Slabs)]
    /\ pool \in [SlabSizes -> Seq(Slabs)]
    /\ phase \in [Docs -> {"none", "open", "resetting"}]
    /\ allocated \in [Docs -> 0 .. Limit]
    /\ live \in [Docs -> SUBSET [slab : Slabs, first : Nat, len : Sizes]]

\* A document has a head to allocate from while it is open, and no slice and,
\* in the end, no slab otherwise (NewBounded, Reset).
PhaseOK ==
    \A d \in Docs :
        /\ phase[d] = "open" => chain[d] # << >>
        /\ phase[d] # "open" => live[d] = {}
        /\ phase[d] = "none" => chain[d] = << >>

Chained(s) == \E d \in Docs : s \in ToSet(chain[d])

Pooled(s) == \E z \in SlabSizes : s \in ToSet(pool[z])

\* The chains and the stacks share no slab, none of them has a slab twice, each
\* stack holds slabs of its size, and every slab that exists is in one of them.
PlacesOK ==
    /\ \A d \in Docs : IsInjective(chain[d])
    /\ \A z \in SlabSizes : IsInjective(pool[z])
    /\ \A d, e \in Docs : d # e => ToSet(chain[d]) \cap ToSet(chain[e]) = {}
    /\ \A z \in SlabSizes : \A s \in ToSet(pool[z]) : slab[s].size = z
    /\ \A s \in Slabs : ~(Chained(s) /\ Pooled(s))
    /\ \A s \in Slabs : slab[s].size > 0 <=> Chained(s) \/ Pooled(s)

Inv == TypeOK /\ PhaseOK /\ PlacesOK /\ SlicesDisjoint

=============================================================================
