------------------------- MODULE SlabAllocatorProofs -------------------------
(***************************************************************************)
(* No slab is ever in two places, no byte in two slices, and the bytes     *)
(* counted are those handed out, for any documents, limit, alignment, slab *)
(* sizes and sizes asked for.                                              *)
(*                                                                         *)
(* None of the properties is inductive: a slab taken from the pool is in   *)
(* no chain only because the stacks and the chains share none (PlacesOK),  *)
(* and a slice carved out of the head is in the document's own chain only  *)
(* because the chain of an open document is not empty (PhaseOK).  A count  *)
(* is a sum over the slices: it grows by the length of the new one only    *)
(* because that slice is not among them, which is what SlicesDisjoint says *)
(* of its bytes.                                                           *)
(***************************************************************************)
EXTENDS SlabAllocator, FiniteSetTheorems, SequenceTheorems, WellFoundedInduction,
        TLAPS

(* Sequences that hold nothing twice. *)

\* What a sequence holds is from the set it is over.
LEMMA MembersTyped ==
    ASSUME NEW S, NEW q \in Seq(S)
    PROVE  ToSet(q) \subseteq S /\ (ToSet(q) = {} <=> q = << >>)
<1>1. q \in [1 .. Len(q) -> S] /\ Len(q) \in Nat /\ DOMAIN q = 1 .. Len(q)
  BY LenProperties
<1>2. q # << >> => Len(q) \in Nat \ {0}
  BY EmptySeq
<1>3. q # << >> => q[1] \in ToSet(q)
  BY <1>1, <1>2 DEF ToSet
<1>4. q = << >> => ToSet(q) = {}
  BY DEF ToSet
<1> QED
  BY <1>1, <1>3, <1>4 DEF ToSet

\* The head of a list is not in its tail.
LEMMA MembersOfTail ==
    ASSUME NEW S, NEW q \in Seq(S), q # << >>, IsInjective(q)
    PROVE  /\ Tail(q) \in Seq(S)
           /\ IsInjective(Tail(q))
           /\ Head(q) \in ToSet(q)
           /\ ToSet(Tail(q)) = ToSet(q) \ {Head(q)}
<1>1. /\ q \in [1 .. Len(q) -> S] /\ Len(q) \in Nat \ {0}
      /\ DOMAIN q = 1 .. Len(q)
  BY LenProperties, EmptySeq
<1>2. /\ Tail(q) \in Seq(S) /\ Len(Tail(q)) = Len(q) - 1
      /\ \A i \in 1 .. Len(Tail(q)) : Tail(q)[i] = q[i + 1]
  BY HeadTailProperties
<1>3. DOMAIN Tail(q) = 1 .. (Len(q) - 1)
  BY <1>2, LenProperties
<1>4. Head(q) = q[1]
  BY DEF Head
<1>5. IsInjective(Tail(q))
  BY <1>1, <1>2, <1>3 DEF IsInjective
<1>6. ToSet(Tail(q)) \subseteq ToSet(q) \ {Head(q)}
  BY <1>1, <1>2, <1>3, <1>4 DEF IsInjective, ToSet
<1>7. ASSUME NEW x \in ToSet(q), x # Head(q) PROVE x \in ToSet(Tail(q))
  <2>1. PICK i \in 1 .. Len(q) : q[i] = x
    BY <1>1, <1>7 DEF ToSet
  <2>2. i # 1
    BY <2>1, <1>4, <1>7
  <2>3. i - 1 \in 1 .. (Len(q) - 1) /\ (i - 1) + 1 = i
    BY <1>1, <2>2
  <2>4. Tail(q)[i - 1] = x
    BY <1>2, <2>1, <2>3
  <2> QED
    BY <1>3, <2>3, <2>4 DEF ToSet
<1>8. Head(q) \in ToSet(q)
  BY <1>1, <1>4 DEF ToSet
<1> QED
  BY <1>2, <1>5, <1>6, <1>7, <1>8

\* The top of a stack is not below it.
LEMMA MembersOfFront ==
    ASSUME NEW S, NEW q \in Seq(S), q # << >>, IsInjective(q)
    PROVE  /\ Front(q) \in Seq(S)
           /\ IsInjective(Front(q))
           /\ Last(q) \in ToSet(q)
           /\ ToSet(Front(q)) = ToSet(q) \ {Last(q)}
<1>1. /\ q \in [1 .. Len(q) -> S] /\ Len(q) \in Nat \ {0}
      /\ DOMAIN q = 1 .. Len(q)
  BY LenProperties, EmptySeq
<1> DEFINE m == Len(q) - 1
<1>2. /\ m \in Nat /\ \A i \in 1 .. m : q[i] \in S
  BY <1>1
<1>3. /\ Front(q) \in Seq(S) /\ Len(Front(q)) = m
      /\ \A i \in 1 .. m : Front(q)[i] = q[i]
  <2>1. Front(q) = SubSeq(q, 1, m)
    BY DEF Front
  <2>2. /\ SubSeq(q, 1, m) \in Seq(S)
        /\ Len(SubSeq(q, 1, m)) = IF 1 <= m THEN m - 1 + 1 ELSE 0
        /\ \A i \in 1 .. m - 1 + 1 : SubSeq(q, 1, m)[i] = q[1 + i - 1]
    BY <1>2, SubSeqProperties
  <2>3. m - 1 + 1 = m /\ \A i \in 1 .. m : 1 + i - 1 = i
    BY <1>2
  <2> HIDE DEF m
  <2>4. Len(SubSeq(q, 1, m)) = m
    BY <1>2, <2>2, <2>3
  <2>5. \A i \in 1 .. m : SubSeq(q, 1, m)[i] = q[i]
    BY <2>2, <2>3
  <2> QED
    BY <2>1, <2>2, <2>4, <2>5
<1>4. DOMAIN Front(q) = 1 .. m
  BY <1>3, LenProperties
<1>5. Last(q) = q[Len(q)]
  BY DEF Last
<1>6. IsInjective(Front(q))
  BY <1>1, <1>3, <1>4 DEF IsInjective
<1>7. ToSet(Front(q)) \subseteq ToSet(q) \ {Last(q)}
  BY <1>1, <1>3, <1>4, <1>5 DEF IsInjective, ToSet
<1>8. ASSUME NEW x \in ToSet(q), x # Last(q) PROVE x \in ToSet(Front(q))
  <2>1. PICK i \in 1 .. Len(q) : q[i] = x
    BY <1>1, <1>8 DEF ToSet
  <2>2. i \in 1 .. m
    BY <1>1, <2>1, <1>5, <1>8
  <2> QED
    BY <1>3, <1>4, <2>1, <2>2 DEF ToSet
<1>9. Last(q) \in ToSet(q)
  BY <1>1, <1>5 DEF ToSet
<1> QED
  BY <1>3, <1>6, <1>7, <1>8, <1>9

\* A new element at the end, as put does.
LEMMA MembersOfAppend ==
    ASSUME NEW S, NEW q \in Seq(S), NEW e \in S, IsInjective(q), e \notin ToSet(q)
    PROVE  /\ Append(q, e) \in Seq(S)
           /\ IsInjective(Append(q, e))
           /\ ToSet(Append(q, e)) = ToSet(q) \cup {e}
<1>1. /\ q \in [1 .. Len(q) -> S] /\ Len(q) \in Nat /\ DOMAIN q = 1 .. Len(q)
  BY LenProperties
<1>2. /\ Append(q, e) \in Seq(S)
      /\ Len(Append(q, e)) = Len(q) + 1
      /\ \A i \in 1 .. Len(q) : Append(q, e)[i] = q[i]
      /\ Append(q, e)[Len(q) + 1] = e
  BY AppendProperties
<1>3. DOMAIN Append(q, e) = 1 .. (Len(q) + 1)
  BY <1>2, LenProperties
<1>4. \A i \in 1 .. Len(q) : q[i] # e
  BY <1>1 DEF ToSet
<1>5. IsInjective(Append(q, e))
  BY <1>1, <1>2, <1>3, <1>4 DEF IsInjective
<1>6. ToSet(Append(q, e)) \subseteq ToSet(q) \cup {e}
  BY <1>1, <1>2, <1>3 DEF ToSet
<1>7. ToSet(q) \cup {e} \subseteq ToSet(Append(q, e))
  BY <1>1, <1>2, <1>3 DEF ToSet
<1> QED
  BY <1>2, <1>5, <1>6, <1>7

\* A list of one element.
LEMMA MembersOfOne ==
    ASSUME NEW S, NEW e \in S
    PROVE  /\ <<e>> \in Seq(S) /\ <<e>> # << >>
           /\ IsInjective(<<e>>) /\ ToSet(<<e>>) = {e}
BY DEF IsInjective, ToSet

\* A new element at the front, as growAndAlloc does.
LEMMA MembersOfPush ==
    ASSUME NEW S, NEW q \in Seq(S), NEW e \in S, IsInjective(q), e \notin ToSet(q)
    PROVE  /\ <<e>> \o q \in Seq(S)
           /\ <<e>> \o q # << >>
           /\ IsInjective(<<e>> \o q)
           /\ ToSet(<<e>> \o q) = ToSet(q) \cup {e}
<1> DEFINE r == <<e>> \o q
<1>1. /\ q \in [1 .. Len(q) -> S] /\ Len(q) \in Nat /\ DOMAIN q = 1 .. Len(q)
  BY LenProperties
<1>2. <<e>> \in Seq(S) /\ Len(<<e>>) = 1 /\ <<e>>[1] = e
  OBVIOUS
<1>3. /\ r \in Seq(S) /\ Len(r) = 1 + Len(q)
      /\ \A i \in 1 .. 1 + Len(q) :
            r[i] = IF i <= 1 THEN <<e>>[i] ELSE q[i - 1]
  <2>1. /\ r \in Seq(S) /\ Len(r) = Len(<<e>>) + Len(q)
        /\ \A i \in 1 .. Len(<<e>>) + Len(q) :
              r[i] = IF i <= Len(<<e>>) THEN <<e>>[i] ELSE q[i - Len(<<e>>)]
    BY <1>2, ConcatProperties
  <2> QED
    BY <1>2, <2>1
<1> HIDE DEF r
<1>4. /\ DOMAIN r = 1 .. (1 + Len(q)) /\ r[1] = e
      /\ \A i \in 2 .. (1 + Len(q)) : r[i] = q[i - 1] /\ i - 1 \in DOMAIN q
  <2>1. DOMAIN r = 1 .. (1 + Len(q))
    BY <1>3, LenProperties
  <2> QED
    BY <1>1, <1>2, <1>3, <2>1
<1>5. \A i \in 1 .. Len(q) : q[i] # e
  BY <1>1 DEF ToSet
<1>6. IsInjective(r)
  <2> SUFFICES ASSUME NEW i \in DOMAIN r, NEW j \in DOMAIN r, r[i] = r[j]
               PROVE  i = j
    BY DEF IsInjective
  <2>1. (i = 1 \/ i \in 2 .. (1 + Len(q))) /\ (j = 1 \/ j \in 2 .. (1 + Len(q)))
    BY <1>1, <1>4
  <2>2. (i - 1 = j - 1) => i = j
    BY <1>4, <1>1
  <2> QED
    BY <1>1, <1>4, <1>5, <2>1, <2>2 DEF IsInjective
<1>7. ToSet(r) \subseteq ToSet(q) \cup {e}
  BY <1>1, <1>4 DEF ToSet
<1>8. ASSUME NEW i \in DOMAIN q PROVE q[i] \in ToSet(r)
  <2>1. i + 1 \in 2 .. (1 + Len(q)) /\ (i + 1) - 1 = i
    BY <1>1
  <2> QED
    BY <1>1, <1>4, <2>1 DEF ToSet
<1>9. r # << >>
  BY <1>3, EmptySeq, <1>1
<1> QED
  BY <1>3, <1>4, <1>6, <1>7, <1>8, <1>9 DEF r, ToSet

-----------------------------------------------------------------------------
(* The arithmetic of slabs. *)

\* Every slab that is made has room for the slice it is made for.
LEMMA SizesPositive ==
    /\ SlabSize \in Nat \ {0} /\ SlabSize \in SlabSizes
    /\ \A n \in Sizes : GrownSize(n) \in SlabSizes /\ n <= GrownSize(n)
    /\ SlabSizes \subseteq Nat \ {0}
<1>1. SlabSize \in Nat \ {0}
  <2> DEFINE n == IF DefaultSlabSize < MinSlabSize THEN MinSlabSize
                  ELSE DefaultSlabSize
  <2>1. n \in {DefaultSlabSize, MinSlabSize} /\ n \in Nat \ {0}
    BY AllocAssumption
  <2>2. NextPow2(n) \in Nat /\ n <= NextPow2(n)
    BY <2>1, PowersAssumption
  <2>3. SlabSize = IF NextPow2(n) > MaxSlabSize THEN MaxSlabSize
                   ELSE NextPow2(n)
    BY DEF SlabSize, ClampSlabSize
  <2> HIDE DEF n
  <2> QED
    BY <2>1, <2>2, <2>3, AllocAssumption
<1>2. \A n \in Sizes : n \in Nat \ {0} /\ NextPow2(n) \in Nat /\ n <= NextPow2(n)
  BY AllocAssumption, PowersAssumption
<1>3. \A n \in Sizes : GrownSize(n) \in Nat \ {0} /\ n <= GrownSize(n)
  BY <1>1, <1>2, AllocAssumption DEF GrownSize
<1> QED
  BY <1>1, <1>3 DEF SlabSizes

\* Alignment moves an offset up to a multiple of Align.
LEMMA AlignedUp ==
    ASSUME NEW offset \in Nat
    PROVE  /\ Aligned(offset) \in Nat
           /\ offset <= Aligned(offset)
           /\ Aligned(offset) - offset \in 0 .. Align - 1
           /\ Aligned(offset) % Align = 0
<1>1. Align \in Nat \ {0}
  BY AllocAssumption
<1> DEFINE x == offset + Align - 1
           k == x \div Align
<1>2. x \in Nat
  BY <1>1
<1> HIDE DEF x
<1>3. /\ k \in Nat /\ x % Align \in 0 .. Align - 1
      /\ x = Align * k + (x % Align)
  BY <1>1, <1>2
<1> HIDE DEF k
<1>4. (k * Align) % Align = 0 /\ k * Align \in Nat /\ Align * k = k * Align
  BY <1>1, <1>3
<1>5. Aligned(offset) = k * Align
  BY DEF Aligned, x, k
<1>6. offset <= k * Align /\ (k * Align) - offset \in 0 .. Align - 1
  <2> DEFINE r == x % Align
             m == k * Align
  <2>1. x = m + r /\ r \in 0 .. Align - 1 /\ m \in Nat
    BY <1>3, <1>4
  <2> HIDE DEF r, m
  <2>2. offset + Align - 1 = m + r
    BY <2>1 DEF x
  <2>3. offset <= m /\ m - offset \in 0 .. Align - 1
    BY <1>1, <2>1, <2>2
  <2> QED
    BY <2>3 DEF m
<1> QED
  BY <1>4, <1>5, <1>6

\* The start of a slab is aligned.
LEMMA AlignedStart == Aligned(0) = 0
<1>1. Align \in Nat \ {0}
  BY AllocAssumption
<1>2. (Align - 1) \div Align = 0
  BY <1>1
<1>3. 0 + Align - 1 = Align - 1
  BY <1>1
<1> QED
  BY <1>1, <1>2, <1>3 DEF Aligned

-----------------------------------------------------------------------------
(* Where slabs are. *)

\* A stack and a chain hold slabs.
LEMMA PlacesTyped ==
    ASSUME TypeOK
    PROVE  /\ \A d \in Docs : /\ chain[d] \in Seq(Slabs)
                              /\ ToSet(chain[d]) \subseteq Slabs
                              /\ ToSet(chain[d]) = {} <=> chain[d] = << >>
           /\ \A z \in SlabSizes : /\ pool[z] \in Seq(Slabs)
                                   /\ ToSet(pool[z]) \subseteq Slabs
BY MembersTyped DEF TypeOK

\* getSlab: the slab it returns is empty, of the size asked for and no longer in the
\* pool, and no chain has it.
LEMMA SlabTaken ==
    ASSUME TypeOK, PlacesOK, NEW size \in SlabSizes, NEW s \in Slabs,
           NEW c \in {Recycled(s), NewSlab(size)}, GetSlab(size, s, c)
    PROVE  /\ c \in Contents /\ c.size = size /\ c.offset = 0
           /\ ~Chained(s)
           /\ pool' \in [SlabSizes -> Seq(Slabs)]
           /\ \A z \in SlabSizes : /\ IsInjective(pool'[z])
                                   /\ ToSet(pool'[z]) = ToSet(pool[z]) \ {s}
<1>1. CASE pool[size] # << >> /\ s = Last(pool[size]) /\ c = Recycled(s)
           /\ pool' = [pool EXCEPT ![size] = Front(@)]
  <2>1. /\ Front(pool[size]) \in Seq(Slabs)
        /\ IsInjective(Front(pool[size]))
        /\ s \in ToSet(pool[size])
        /\ ToSet(Front(pool[size])) = ToSet(pool[size]) \ {s}
    <3>1. pool[size] \in Seq(Slabs) /\ IsInjective(pool[size])
      BY DEF TypeOK, PlacesOK
    <3> QED
      BY <1>1, <3>1, MembersOfFront
  <2>2. slab[s].size = size /\ Pooled(s)
    BY <2>1 DEF PlacesOK, Pooled
  <2>3. c \in Contents /\ c.size = size /\ c.offset = 0
    BY <1>1, <2>2 DEF TypeOK, Contents, Recycled
  <2>4. ~Chained(s)
    BY <2>2 DEF PlacesOK
  <2>5. \A z \in SlabSizes : z # size => s \notin ToSet(pool[z])
    BY <2>2 DEF PlacesOK
  <2>6. /\ pool'[size] = Front(pool[size])
        /\ \A z \in SlabSizes : z # size => pool'[z] = pool[z]
    BY <1>1 DEF TypeOK
  <2>7. pool' \in [SlabSizes -> Seq(Slabs)]
    BY <1>1, <2>1 DEF TypeOK
  <2>8. \A z \in SlabSizes : IsInjective(pool'[z])
    BY <2>1, <2>6 DEF PlacesOK
  <2>9. \A z \in SlabSizes : ToSet(pool'[z]) = ToSet(pool[z]) \ {s}
    BY <2>1, <2>5, <2>6
  <2> QED
    BY <2>3, <2>4, <2>7, <2>8, <2>9
<1>2. CASE slab[s].size = 0 /\ c = NewSlab(size) /\ pool' = pool
  <2>1. c \in Contents /\ c.size = size /\ c.offset = 0
    BY <1>2 DEF Contents, NewSlab
  <2>2. ~Chained(s) /\ ~Pooled(s)
    BY <1>2 DEF PlacesOK
  <2> QED
    BY <1>2, <2>1, <2>2 DEF TypeOK, PlacesOK, Pooled
<1> QED
  BY <1>1, <1>2 DEF GetSlab

\* The slab getSlab returns becomes the head of one chain.
LEMMA TakenPlaces ==
    ASSUME TypeOK, PlacesOK, NEW size \in SlabSizes, NEW s \in Slabs,
           NEW c \in {Recycled(s), NewSlab(size)}, GetSlab(size, s, c),
           NEW d \in Docs, NEW q \in Seq(Slabs),
           IsInjective(q), ToSet(q) = ToSet(chain[d]) \cup {s},
           chain' = [chain EXCEPT ![d] = q],
           slab'[s].size = size,
           \A t \in Slabs : t # s => slab'[t] = slab[t]
    PROVE  PlacesOK'
<1>1. /\ ~Chained(s)
      /\ \A z \in SlabSizes : /\ IsInjective(pool'[z])
                              /\ ToSet(pool'[z]) = ToSet(pool[z]) \ {s}
  BY SlabTaken
<1>2. chain'[d] = q /\ \A e \in Docs : e # d => chain'[e] = chain[e]
  BY DEF TypeOK
<1>3. size > 0
  BY SizesPositive
<1>4. \A e \in Docs : s \notin ToSet(chain[e])
  BY <1>1 DEF Chained
<1>5. \A t \in Slabs : /\ Chained(t)' <=> Chained(t) \/ t = s
                       /\ Pooled(t)' <=> Pooled(t) /\ t # s
  BY <1>1, <1>2 DEF Chained, Pooled
<1>6. \A e \in Docs : IsInjective(chain'[e])
  BY <1>2 DEF PlacesOK
<1>7. \A e, f \in Docs : e # f => ToSet(chain'[e]) \cap ToSet(chain'[f]) = {}
  BY <1>2, <1>4 DEF PlacesOK
<1>8. \A z \in SlabSizes : \A t \in ToSet(pool'[z]) : slab'[t].size = z
  <2> SUFFICES ASSUME NEW z \in SlabSizes, NEW t \in ToSet(pool'[z])
               PROVE  slab'[t].size = z
    OBVIOUS
  <2>1. t \in ToSet(pool[z]) /\ t # s
    BY <1>1
  <2>2. t \in Slabs
    BY <2>1, PlacesTyped
  <2>3. slab[t].size = z
    BY <2>1 DEF PlacesOK
  <2> QED
    BY <2>1, <2>2, <2>3
<1>9. \A t \in Slabs : ~(Chained(t)' /\ Pooled(t)')
  BY <1>5 DEF PlacesOK
<1>10. \A t \in Slabs : slab'[t].size > 0 <=> Chained(t)' \/ Pooled(t)'
  BY <1>3, <1>5 DEF PlacesOK
<1> QED
  BY <1>1, <1>6, <1>7, <1>8, <1>9, <1>10 DEF PlacesOK, Chained, Pooled

-----------------------------------------------------------------------------
(* Where slices are. *)

\* A slice leaves the state well-typed, and the bytes counted within the limit.
LEMMA CarveTyped ==
    ASSUME TypeOK, NEW d \in Docs, NEW s \in Slabs, NEW c \in Contents,
           NEW n \in Sizes, Carve(d, s, c, n), WithinLimit(d, n)
    PROVE  /\ slab' \in [Slabs -> Contents]
           /\ allocated' \in [Docs -> 0 .. Limit]
           /\ live' \in [Docs -> SUBSET [slab : Slabs, first : Nat, len : Sizes]]
<1>1. n \in Nat \ {0} /\ c.offset \in Nat /\ Limit \in Nat
  BY AllocAssumption DEF Contents
<1>2. Aligned(c.offset) \in Nat
  BY <1>1, AlignedUp
<1>3. slab' \in [Slabs -> Contents]
  <2>1. [c EXCEPT !.offset = Aligned(c.offset) + n] \in Contents
    BY <1>1, <1>2 DEF Contents
  <2> QED
    BY <2>1 DEF TypeOK, Carve
<1>4. allocated' \in [Docs -> 0 .. Limit]
  <2>1. allocated[d] + n \in 0 .. Limit
    BY <1>1 DEF TypeOK, WithinLimit
  <2> QED
    BY <2>1 DEF TypeOK, Carve
<1>5. live' \in [Docs -> SUBSET [slab : Slabs, first : Nat, len : Sizes]]
  <2>1. Bytes(s, Aligned(c.offset), n) \in [slab : Slabs, first : Nat, len : Sizes]
    BY <1>2 DEF Bytes
  <2> QED
    BY <2>1 DEF TypeOK, Carve
<1> QED
  BY <1>3, <1>4, <1>5

\* The slices handed out so far keep their bytes below the offset when a slice of n

\* bytes is carved out of a slab that has room for it.
LEMMA CarveDisjoint ==
    ASSUME TypeOK, PhaseOK, SlicesDisjoint, NEW d \in Docs, NEW s \in Slabs,
           NEW c \in Contents, NEW n \in Sizes, Carve(d, s, c, n),
           \A e \in Docs : e # d => s \notin ToSet(chain[e]),
           s \in ToSet(chain[d]) => c = slab[s],
           Fits(c, n),
           s \in ToSet(chain'[d]),
           \A e \in Docs : ToSet(chain[e]) \subseteq ToSet(chain'[e])
    PROVE  SlicesDisjoint'
<1> DEFINE new == Bytes(s, Aligned(c.offset), n)
           Below(t, g) == /\ g.first % Align = 0
                          /\ g.first + g.len <= t.offset
                          /\ t.offset <= t.size
<1>1. c.offset \in Nat /\ c.size \in Nat /\ n \in Nat \ {0}
  <2>1. c.offset \in Nat /\ c.size \in {0} \cup SlabSizes
    BY DEF Contents
  <2>2. n \in Nat \ {0}
    BY AllocAssumption
  <2>3. \A z \in SlabSizes : z \in Nat
    BY SizesPositive
  <2>4. c.size \in Nat
    BY <2>1, <2>3
  <2> QED
    BY <2>1, <2>2, <2>4
<1>2. /\ Aligned(c.offset) \in Nat /\ c.offset <= Aligned(c.offset)
      /\ Aligned(c.offset) % Align = 0
  BY <1>1, AlignedUp
<1>3. /\ slab'[s].offset = Aligned(c.offset) + n
      /\ slab'[s].size = c.size
      /\ \A t \in Slabs : t # s => slab'[t] = slab[t]
  BY DEF Carve, TypeOK, Contents
<1>4. /\ live'[d] = live[d] \cup {new}
      /\ \A e \in Docs : e # d => live'[e] = live[e]
  BY DEF Carve, TypeOK
<1>5. new.slab = s /\ new.first = Aligned(c.offset) /\ new.len = n
  BY DEF Bytes
<1>6. ASSUME NEW e \in Docs, NEW g \in live[e]
      PROVE  /\ g.slab \in Slabs /\ g.first \in Nat /\ g.len \in Nat
             /\ g.slab \in ToSet(chain[e])
             /\ Below(slab[g.slab], g)
  <2>1. g \in [slab : Slabs, first : Nat, len : Sizes]
    BY <1>6 DEF TypeOK
  <2>2. g.len \in Nat
    BY <2>1, AllocAssumption
  <2>3. g.slab \in ToSet(chain[e]) /\ Below(slab[g.slab], g)
    BY <1>6 DEF SlicesDisjoint
  <2> QED
    BY <2>1, <2>2, <2>3
<1>7. ASSUME NEW g \in live[d], g.slab = s
      PROVE  g.first + g.len <= c.offset
  BY <1>6, <1>7
<1>8. Below(slab'[s], new)
  <2>1. Aligned(c.offset) + n \in Nat /\ Aligned(c.offset) + n <= c.size
    BY <1>1, <1>2 DEF Fits
  <2>2. /\ slab'[s].offset <= slab'[s].size
        /\ new.first + new.len <= slab'[s].offset
    BY <1>3, <1>5, <2>1
  <2> QED
    BY <1>2, <1>5, <2>2
<1> HIDE DEF new
<1>9. ASSUME NEW g \in live[d]
      PROVE  Below(slab'[g.slab], g)
  <2>1. CASE g.slab = s
    <3>1. g.first + g.len \in Nat /\ slab'[s].offset \in Nat
      BY <1>1, <1>2, <1>3, <1>6, <1>9
    <3> QED
      BY <1>1, <1>2, <1>3, <1>6, <1>7, <1>8, <1>9, <2>1, <3>1
  <2>2. CASE g.slab # s
    BY <1>3, <1>6, <2>2
  <2> QED
    BY <2>1, <2>2
<1>10. ASSUME NEW g \in live[d], g.slab = s
       PROVE  Cover(g) \cap Cover(new) = {}
  BY <1>1, <1>2, <1>5, <1>6, <1>7, <1>10 DEF Cover
<1>11. ASSUME NEW g \in live'[d]
       PROVE  /\ g.slab \in ToSet(chain'[d])
              /\ Below(slab'[g.slab], g)
              /\ \A h \in live'[d] :
                    h # g /\ h.slab = g.slab => Cover(g) \cap Cover(h) = {}
  <2>1. CASE g = new
    <3>1. \A h \in live[d] : h.slab = s => Cover(new) \cap Cover(h) = {}
      BY <1>10
    <3> QED
      BY <1>4, <1>5, <1>8, <2>1, <3>1
  <2>2. CASE g \in live[d]
    <3>1. \A h \in live[d] :
             h # g /\ h.slab = g.slab => Cover(g) \cap Cover(h) = {}
      BY <2>2 DEF SlicesDisjoint
    <3>2. g.slab = new.slab => Cover(g) \cap Cover(new) = {}
      BY <1>5, <1>10, <2>2
    <3> QED
      BY <1>4, <1>6, <1>9, <2>2, <3>1, <3>2
  <2> QED
    BY <1>4, <1>11, <2>1, <2>2
<1>12. ASSUME NEW e \in Docs, e # d, NEW g \in live'[e]
       PROVE  /\ g.slab \in ToSet(chain'[e])
              /\ Below(slab'[g.slab], g)
              /\ \A h \in live'[e] :
                    h # g /\ h.slab = g.slab => Cover(g) \cap Cover(h) = {}
  <2>1. g \in live[e] /\ g.slab # s
    BY <1>4, <1>6, <1>12
  <2> QED
    BY <1>3, <1>4, <1>6, <1>12, <2>1 DEF SlicesDisjoint
<1> QED
  BY <1>11, <1>12 DEF SlicesDisjoint

-----------------------------------------------------------------------------
(* The steps of the allocators. *)

LEMMA InitInv == Init => Inv
<1> SUFFICES ASSUME Init PROVE Inv
  OBVIOUS
<1>1. NoSlab \in Contents /\ NoSlab.size = 0
  BY DEF NoSlab, Contents
<1>2. << >> \in Seq(Slabs) /\ ToSet(<< >>) = {} /\ IsInjective(<< >>)
  BY EmptySeq DEF ToSet, IsInjective
<1>3. TypeOK
  BY <1>1, <1>2, AllocAssumption DEF Init, TypeOK
<1>4. PhaseOK
  BY DEF Init, PhaseOK
<1>5. /\ \A d \in Docs : IsInjective(chain[d]) /\ ToSet(chain[d]) = {}
      /\ \A z \in SlabSizes : IsInjective(pool[z]) /\ ToSet(pool[z]) = {}
      /\ \A s \in Slabs : slab[s].size = 0
  BY <1>1, <1>2 DEF Init
<1>6. PlacesOK
  BY <1>5 DEF PlacesOK, Chained, Pooled
<1>7. SlicesDisjoint
  BY DEF Init, SlicesDisjoint
<1> QED
  BY <1>3, <1>4, <1>6, <1>7 DEF Inv

\* NewBounded, and the end of a reset: a document without slabs gets its first.
LEMMA FirstSlabInv ==
    ASSUME Inv, NEW d \in Docs, phase[d] # "open", chain[d] = << >>,
           phase' = [phase EXCEPT ![d] = "open"],
           NEW s \in Slabs, NEW c \in {Recycled(s), NewSlab(SlabSize)},
           GetSlab(SlabSize, s, c),
           slab' = [slab EXCEPT ![s] = c],
           chain' = [chain EXCEPT ![d] = <<s>>],
           UNCHANGED <<allocated, live>>
    PROVE  Inv'
<1>1. SlabSize \in SlabSizes
  BY SizesPositive
<1>2. /\ c \in Contents /\ c.size = SlabSize /\ ~Chained(s)
      /\ pool' \in [SlabSizes -> Seq(Slabs)]
  BY <1>1, SlabTaken DEF Inv
<1>3. /\ <<s>> \in Seq(Slabs) /\ <<s>> # << >>
      /\ IsInjective(<<s>>) /\ ToSet(<<s>>) = {s}
  BY MembersOfOne
<1>4. slab'[s] = c /\ \A t \in Slabs : t # s => slab'[t] = slab[t]
  BY DEF Inv, TypeOK
<1>5. chain'[d] = <<s>> /\ \A e \in Docs : e # d => chain'[e] = chain[e]
  BY DEF Inv, TypeOK
<1>6. TypeOK'
  BY <1>2, <1>3 DEF Inv, TypeOK
<1>7. PhaseOK'
  <2>1. phase'[d] = "open" /\ \A e \in Docs : e # d => phase'[e] = phase[e]
    BY DEF Inv, TypeOK
  <2> QED
    BY <1>3, <1>5, <2>1 DEF Inv, PhaseOK
<1>8. PlacesOK'
  <2>1. ToSet(<<s>>) = ToSet(chain[d]) \cup {s}
    BY <1>3, PlacesTyped DEF Inv
  <2> QED
    BY <1>1, <1>2, <1>3, <1>4, <2>1, TakenPlaces DEF Inv
<1>9. SlicesDisjoint'
  <2>1. live[d] = {}
    BY DEF Inv, PhaseOK
  <2>2. \A e \in Docs : s \notin ToSet(chain[e])
    BY <1>2 DEF Chained
  <2>3. ASSUME NEW e \in Docs, NEW g \in live[e]
        PROVE  /\ e # d /\ chain'[e] = chain[e] /\ live'[e] = live[e]
               /\ g.slab \in Slabs /\ slab'[g.slab] = slab[g.slab]
    <3>1. e # d
      BY <2>1, <2>3
    <3>2. g.slab \in ToSet(chain[e])
      BY <2>3 DEF Inv, SlicesDisjoint
    <3>3. g.slab # s /\ g.slab \in Slabs
      BY <2>2, <3>2, PlacesTyped DEF Inv
    <3> QED
      BY <1>4, <1>5, <3>1, <3>3
  <2> QED
    BY <2>3 DEF Inv, SlicesDisjoint
<1> QED
  BY <1>6, <1>7, <1>8, <1>9 DEF Inv

\* A slice from the slab at the head.
LEMMA AllocSliceInv ==
    ASSUME Inv, NEW d \in Docs, NEW n \in Sizes, AllocSlice(d, n)
    PROVE  Inv'
<1> DEFINE s == Head(chain[d])
<1>1. /\ phase[d] = "open" /\ WithinLimit(d, n) /\ Fits(slab[s], n)
      /\ Carve(d, s, slab[s], n) /\ UNCHANGED <<chain, pool, phase>>
  BY DEF AllocSlice
<1>2. /\ chain[d] \in Seq(Slabs) /\ chain[d] # << >> /\ IsInjective(chain[d])
  BY <1>1 DEF Inv, TypeOK, PhaseOK, PlacesOK
<1>3. s \in ToSet(chain[d]) /\ s \in Slabs
  BY <1>2, MembersOfTail, PlacesTyped DEF Inv
<1> HIDE DEF s
<1>4. \A e \in Docs : e # d => s \notin ToSet(chain[e])
  BY <1>3 DEF Inv, PlacesOK
<1>5. slab[s] \in Contents
  BY <1>3 DEF Inv, TypeOK
<1>6. SlicesDisjoint'
  BY <1>1, <1>3, <1>4, <1>5, CarveDisjoint DEF Inv
<1>7. TypeOK'
  BY <1>1, <1>3, <1>5, CarveTyped DEF Inv, TypeOK
<1>8. PhaseOK'
  BY <1>1 DEF Inv, PhaseOK, TypeOK, Carve
<1>9. \A t \in Slabs : slab'[t].size = slab[t].size
  BY <1>1, <1>5 DEF Inv, TypeOK, Contents, Carve
<1>10. PlacesOK'
  BY <1>1, <1>9, PlacesTyped DEF Inv, PlacesOK, Chained, Pooled
<1> QED
  BY <1>6, <1>7, <1>8, <1>10 DEF Inv

\* A slice from a new head.
LEMMA GrowAndAllocInv ==
    ASSUME Inv, NEW d \in Docs, NEW n \in Sizes, GrowAndAlloc(d, n)
    PROVE  Inv'
<1>1. /\ phase[d] = "open" /\ WithinLimit(d, n) /\ UNCHANGED phase
  BY DEF GrowAndAlloc
<1>a. PICK s \in Slabs : \E c \in {Recycled(s), NewSlab(GrownSize(n))} :
         /\ GetSlab(GrownSize(n), s, c)
         /\ Carve(d, s, c, n)
         /\ chain' = [chain EXCEPT ![d] = <<s>> \o @]
  BY DEF GrowAndAlloc
<1>2. PICK c \in {Recycled(s), NewSlab(GrownSize(n))} :
         /\ GetSlab(GrownSize(n), s, c)
         /\ Carve(d, s, c, n)
         /\ chain' = [chain EXCEPT ![d] = <<s>> \o @]
  BY <1>a
<1>3. GrownSize(n) \in SlabSizes /\ n <= GrownSize(n)
  BY SizesPositive
<1>4. /\ c \in Contents /\ c.size = GrownSize(n) /\ c.offset = 0 /\ ~Chained(s)
      /\ pool' \in [SlabSizes -> Seq(Slabs)]
  BY <1>2, <1>3, SlabTaken DEF Inv
<1>5. \A e \in Docs : s \notin ToSet(chain[e])
  BY <1>4 DEF Chained
<1> DEFINE q == <<s>> \o chain[d]
<1>6. /\ q \in Seq(Slabs) /\ q # << >> /\ IsInjective(q)
      /\ ToSet(q) = ToSet(chain[d]) \cup {s}
  <2>1. chain[d] \in Seq(Slabs) /\ IsInjective(chain[d])
    BY DEF Inv, TypeOK, PlacesOK
  <2> QED
    BY <1>5, <2>1, MembersOfPush
<1>7. chain' = [chain EXCEPT ![d] = q]
  BY <1>2
<1> HIDE DEF q
<1>8. chain'[d] = q /\ \A e \in Docs : e # d => chain'[e] = chain[e]
  BY <1>7 DEF Inv, TypeOK
<1>9. TypeOK'
  <2>1. chain' \in [Docs -> Seq(Slabs)]
    BY <1>6, <1>7 DEF Inv, TypeOK
  <2> QED
    BY <1>1, <1>2, <1>4, <2>1, CarveTyped DEF Inv, TypeOK
<1>10. PhaseOK'
  <2>1. \A e \in Docs : e # d => live'[e] = live[e]
    BY <1>2 DEF Inv, TypeOK, Carve
  <2> QED
    BY <1>1, <1>6, <1>8, <2>1 DEF Inv, PhaseOK
<1>11. PlacesOK'
  <2>1. /\ slab'[s].size = GrownSize(n)
        /\ \A t \in Slabs : t # s => slab'[t] = slab[t]
    BY <1>2, <1>4 DEF Inv, TypeOK, Contents, Carve
  <2>2. TypeOK /\ PlacesOK
    BY DEF Inv
  <2>3. IsInjective(q) /\ ToSet(q) = ToSet(chain[d]) \cup {s} /\ q \in Seq(Slabs)
    BY <1>6
  <2>4. GrownSize(n) \in SlabSizes /\ GetSlab(GrownSize(n), s, c)
    BY <1>2, <1>3
  <2> DEFINE size == GrownSize(n)
  <2>5. /\ size \in SlabSizes /\ GetSlab(size, s, c)
        /\ c \in {Recycled(s), NewSlab(size)} /\ slab'[s].size = size
    BY <2>1, <2>4
  <2> HIDE DEF size
  <2> QED
    BY <1>7, <2>1, <2>2, <2>3, <2>5, TakenPlaces
<1>12. SlicesDisjoint'
  <2>1. Fits(c, n)
    <3>1. n \in Nat
      BY AllocAssumption
    <3> QED
      BY <1>3, <1>4, <3>1, AlignedStart DEF Fits
  <2>2. s \in ToSet(chain'[d])
    BY <1>6, <1>8
  <2>3. \A e \in Docs : ToSet(chain[e]) \subseteq ToSet(chain'[e])
    BY <1>6, <1>8
  <2> QED
    BY <1>2, <1>4, <1>5, <2>1, <2>2, <2>3, CarveDisjoint DEF Inv
<1> QED
  BY <1>9, <1>10, <1>11, <1>12 DEF Inv

\* A client writes into its slice.
LEMMA WriteInv ==
    ASSUME Inv, NEW d \in Docs, NEW g \in live[d], Write(d, g)
    PROVE  Inv'
<1>1. UNCHANGED <<chain, pool, phase, allocated, live>>
  BY DEF Write
<1>2. g \in [slab : Slabs, first : Nat, len : Sizes]
  BY DEF Inv, TypeOK
<1>3. Cover(g) \subseteq Nat
  <2>1. g.first \in Nat /\ g.len \in Nat
    BY <1>2, AllocAssumption
  <2> QED
    BY <2>1 DEF Cover
<1>4. /\ slab' \in [Slabs -> Contents]
      /\ \A t \in Slabs : /\ slab'[t].size = slab[t].size
                          /\ slab'[t].offset = slab[t].offset
  BY <1>2, <1>3 DEF Write, Inv, TypeOK, Contents
<1>5. TypeOK' /\ PhaseOK'
  BY <1>1, <1>4 DEF Inv, TypeOK, PhaseOK
<1>6. PlacesOK'
  BY <1>1, <1>4, PlacesTyped DEF Inv, PlacesOK, Chained, Pooled
<1>7. SlicesDisjoint'
  BY <1>1, <1>4 DEF Inv, TypeOK, SlicesDisjoint
<1> QED
  BY <1>5, <1>6, <1>7 DEF Inv

\* The slices of a document are given up.
LEMMA ResetBeginInv ==
    ASSUME Inv, NEW d \in Docs, ResetBegin(d)
    PROVE  Inv'
<1>1. /\ phase[d] = "open"
      /\ phase' = [phase EXCEPT ![d] = "resetting"]
      /\ allocated' = [allocated EXCEPT ![d] = 0]
      /\ live' = [live EXCEPT ![d] = {}]
      /\ UNCHANGED <<slab, chain, pool>>
  BY DEF ResetBegin
<1>2. TypeOK'
  BY <1>1, AllocAssumption DEF Inv, TypeOK
<1>3. /\ phase'[d] = "resetting" /\ live'[d] = {}
      /\ \A e \in Docs : e # d => phase'[e] = phase[e] /\ live'[e] = live[e]
  BY <1>1 DEF Inv, TypeOK
<1>4. PhaseOK'
  BY <1>1, <1>3 DEF Inv, PhaseOK
<1>5. PlacesOK'
  BY <1>1 DEF Inv, PlacesOK, Chained, Pooled
<1>6. SlicesDisjoint'
  BY <1>1, <1>3 DEF Inv, SlicesDisjoint
<1> QED
  BY <1>2, <1>4, <1>5, <1>6 DEF Inv

\* A slab moves from the chain to the stack of its size.
LEMMA PutSlabInv ==
    ASSUME Inv, NEW d \in Docs, PutSlab(d)
    PROVE  Inv'
<1> DEFINE s == Head(chain[d])
           z == slab[s].size
<1>1. /\ phase[d] = "resetting" /\ chain[d] # << >>
      /\ pool' = [pool EXCEPT ![z] = Append(@, s)]
      /\ chain' = [chain EXCEPT ![d] = Tail(@)]
      /\ UNCHANGED <<slab, phase, allocated, live>>
  BY DEF PutSlab
<1>2. /\ Tail(chain[d]) \in Seq(Slabs) /\ IsInjective(Tail(chain[d]))
      /\ s \in ToSet(chain[d])
      /\ ToSet(Tail(chain[d])) = ToSet(chain[d]) \ {s}
  <2>1. chain[d] \in Seq(Slabs) /\ IsInjective(chain[d])
    BY DEF Inv, TypeOK, PlacesOK
  <2> QED
    BY <1>1, <2>1, MembersOfTail
<1> HIDE DEF s
<1>3. s \in Slabs /\ Chained(s) /\ ~Pooled(s)
  BY <1>2, PlacesTyped DEF Inv, PlacesOK, Chained
<1>4. z \in SlabSizes
  <2>1. z > 0
    BY <1>3 DEF Inv, PlacesOK
  <2>2. z \in {0} \cup SlabSizes
    BY <1>3 DEF Inv, TypeOK, Contents
  <2> QED
    BY <2>1, <2>2
<1> HIDE DEF z
<1>5. /\ Append(pool[z], s) \in Seq(Slabs) /\ IsInjective(Append(pool[z], s))
      /\ ToSet(Append(pool[z], s)) = ToSet(pool[z]) \cup {s}
  <2>1. pool[z] \in Seq(Slabs) /\ IsInjective(pool[z]) /\ s \notin ToSet(pool[z])
    BY <1>3, <1>4 DEF Inv, TypeOK, PlacesOK, Pooled
  <2> QED
    BY <1>3, <2>1, MembersOfAppend
<1>6. /\ chain'[d] = Tail(chain[d]) /\ pool'[z] = Append(pool[z], s)
      /\ \A e \in Docs : e # d => chain'[e] = chain[e]
      /\ \A y \in SlabSizes : y # z => pool'[y] = pool[y]
  BY <1>1, <1>4 DEF Inv, TypeOK
<1>7. TypeOK'
  BY <1>1, <1>2, <1>5 DEF Inv, TypeOK
<1>8. PhaseOK'
  BY <1>1, <1>6 DEF Inv, PhaseOK
<1>9. \A e \in Docs : e # d => s \notin ToSet(chain[e])
  BY <1>2 DEF Inv, PlacesOK
<1>10. \A t \in Slabs : /\ Chained(t)' <=> Chained(t) /\ t # s
                        /\ Pooled(t)' <=> Pooled(t) \/ t = s
  BY <1>2, <1>4, <1>5, <1>6, <1>9 DEF Chained, Pooled
<1>11. PlacesOK'
  <2>1. \A e \in Docs : IsInjective(chain'[e])
    BY <1>2, <1>6 DEF Inv, PlacesOK
  <2>2. \A y \in SlabSizes : IsInjective(pool'[y])
    BY <1>5, <1>6 DEF Inv, PlacesOK
  <2>3. \A e \in Docs : ToSet(chain'[e]) \subseteq ToSet(chain[e])
    BY <1>2, <1>6
  <2>4. \A e, f \in Docs : e # f => ToSet(chain'[e]) \cap ToSet(chain'[f]) = {}
    BY <2>3 DEF Inv, PlacesOK
  <2>5. ASSUME NEW y \in SlabSizes, NEW t \in ToSet(pool'[y])
        PROVE  slab'[t].size = y
    <3>1. slab' = slab /\ slab[s].size = z
      BY <1>1 DEF z
    <3>2. (y = z /\ t = s) \/ t \in ToSet(pool[y])
      BY <1>5, <1>6, <2>5
    <3> QED
      BY <3>1, <3>2 DEF Inv, PlacesOK
  <2>6. \A t \in Slabs : ~(Chained(t)' /\ Pooled(t)')
    BY <1>10 DEF Inv, PlacesOK
  <2>7. \A t \in Slabs : slab'[t].size > 0 <=> Chained(t)' \/ Pooled(t)'
    BY <1>1, <1>3, <1>10 DEF Inv, PlacesOK
  <2> QED
    BY <2>1, <2>2, <2>4, <2>5, <2>6, <2>7 DEF PlacesOK, Chained, Pooled
<1>12. SlicesDisjoint'
  <2>1. live[d] = {}
    BY <1>1 DEF Inv, PhaseOK
  <2>2. \A e \in Docs : \A g \in live[e] : e # d /\ chain'[e] = chain[e]
    BY <1>6, <2>1
  <2> QED
    BY <1>1, <2>2 DEF Inv, SlicesDisjoint
<1> QED
  BY <1>7, <1>8, <1>11, <1>12 DEF Inv

\* The garbage collector frees the chain of a document.
LEMMA DropInv ==
    ASSUME Inv, NEW d \in Docs, Drop(d)
    PROVE  Inv'
<1>1. /\ phase' = [phase EXCEPT ![d] = "none"]
      /\ chain' = [chain EXCEPT ![d] = << >>]
      /\ allocated' = [allocated EXCEPT ![d] = 0]
      /\ live' = [live EXCEPT ![d] = {}]
      /\ pool' = pool
  BY DEF Drop
<1>2. /\ \A s \in Slabs : slab'[s] = IF s \in ToSet(chain[d]) THEN NoSlab
                                     ELSE slab[s]
      /\ slab' \in [Slabs -> Contents]
      /\ NoSlab.size = 0
  <2>1. NoSlab \in Contents /\ NoSlab.size = 0
    BY DEF NoSlab, Contents
  <2> QED
    BY <2>1 DEF Drop, Inv, TypeOK
<1>3. << >> \in Seq(Slabs) /\ ToSet(<< >>) = {} /\ IsInjective(<< >>)
  BY EmptySeq DEF ToSet, IsInjective
<1>4. /\ phase'[d] = "none" /\ chain'[d] = << >> /\ live'[d] = {}
      /\ \A e \in Docs : e # d => /\ phase'[e] = phase[e]
                                  /\ chain'[e] = chain[e]
                                  /\ live'[e] = live[e]
  BY <1>1 DEF Inv, TypeOK
<1>5. TypeOK'
  BY <1>1, <1>2, <1>3, AllocAssumption DEF Inv, TypeOK
<1>6. PhaseOK'
  BY <1>4 DEF Inv, PhaseOK
<1>7. \A e \in Docs : e # d => ToSet(chain[d]) \cap ToSet(chain[e]) = {}
  BY DEF Inv, PlacesOK
<1>8. \A t \in Slabs : /\ Chained(t)' <=> Chained(t) /\ t \notin ToSet(chain[d])
                       /\ Pooled(t)' <=> Pooled(t)
                       /\ t \in ToSet(chain[d]) => ~Pooled(t)
  <2>1. \A t \in Slabs : Chained(t)' <=> Chained(t) /\ t \notin ToSet(chain[d])
    BY <1>3, <1>4, <1>7 DEF Chained
  <2>2. \A t \in Slabs : Pooled(t)' <=> Pooled(t)
    BY <1>1 DEF Pooled
  <2>3. \A t \in Slabs : t \in ToSet(chain[d]) => ~Pooled(t)
    BY DEF Inv, PlacesOK, Chained
  <2> QED
    BY <2>1, <2>2, <2>3
<1>9. PlacesOK'
  <2>1. \A e \in Docs : IsInjective(chain'[e])
    BY <1>3, <1>4 DEF Inv, PlacesOK
  <2>2. \A y \in SlabSizes : IsInjective(pool'[y])
    BY <1>1 DEF Inv, PlacesOK
  <2>3. \A e \in Docs : ToSet(chain'[e]) \subseteq ToSet(chain[e])
    BY <1>3, <1>4
  <2>4. \A e, f \in Docs : e # f => ToSet(chain'[e]) \cap ToSet(chain'[f]) = {}
    BY <2>3 DEF Inv, PlacesOK
  <2>5. ASSUME NEW y \in SlabSizes, NEW t \in ToSet(pool'[y])
        PROVE  slab'[t].size = y
    <3>1. t \in ToSet(pool[y]) /\ t \in Slabs
      BY <1>1, PlacesTyped DEF Inv
    <3>2. Pooled(t) /\ slab[t].size = y
      BY <3>1 DEF Inv, PlacesOK, Pooled
    <3> QED
      BY <1>2, <1>8, <3>1, <3>2
  <2>6. \A t \in Slabs : ~(Chained(t)' /\ Pooled(t)')
    BY <1>8 DEF Inv, PlacesOK
  <2>7. ASSUME NEW t \in Slabs
        PROVE  slab'[t].size > 0 <=> Chained(t)' \/ Pooled(t)'
    <3>1. slab[t].size > 0 <=> Chained(t) \/ Pooled(t)
      BY DEF Inv, PlacesOK
    <3>2. CASE t \in ToSet(chain[d])
      BY <1>2, <1>8, <3>2
    <3>3. CASE t \notin ToSet(chain[d])
      BY <1>2, <1>8, <3>1, <3>3
    <3> QED
      BY <3>2, <3>3
  <2> QED
    BY <2>1, <2>2, <2>4, <2>5, <2>6, <2>7 DEF PlacesOK, Chained, Pooled
<1>10. SlicesDisjoint'
  <2>1. ASSUME NEW e \in Docs, NEW g \in live'[e]
        PROVE  /\ e # d /\ g \in live[e] /\ g.slab \in ToSet(chain[e])
               /\ slab'[g.slab] = slab[g.slab]
    <3>1. e # d /\ g \in live[e]
      BY <1>4, <2>1
    <3>2. g.slab \in ToSet(chain[e])
      BY <3>1 DEF Inv, SlicesDisjoint
    <3>3. g.slab \in Slabs /\ g.slab \notin ToSet(chain[d])
      BY <1>7, <3>1, <3>2, PlacesTyped DEF Inv
    <3> QED
      BY <1>2, <3>1, <3>2, <3>3
  <2> QED
    BY <1>4, <2>1 DEF Inv, SlicesDisjoint
<1> QED
  BY <1>5, <1>6, <1>9, <1>10 DEF Inv

LEMMA StepInv == Inv /\ [Next]_vars => Inv'
<1> SUFFICES ASSUME Inv, [Next]_vars PROVE Inv'
  OBVIOUS
<1>1. CASE UNCHANGED vars
  BY <1>1 DEF vars, Inv, TypeOK, PhaseOK, PlacesOK, SlicesDisjoint, Chained, Pooled
<1>2. CASE Next
  <2>1. PICK d \in Docs :
           \/ NewBounded(d)
           \/ \E n \in Sizes : AllocSlice(d, n) \/ GrowAndAlloc(d, n)
           \/ \E g \in live[d] : Write(d, g)
           \/ ResetBegin(d)
           \/ PutSlab(d)
           \/ ResetEnd(d)
           \/ Drop(d)
    BY <1>2 DEF Next
  <2>2. CASE NewBounded(d)
    <3>1. phase[d] # "open" /\ chain[d] = << >>
      BY <2>2 DEF NewBounded, Inv, PhaseOK
    <3> QED
      BY <2>2, <3>1, FirstSlabInv DEF NewBounded
  <2>3. CASE ResetEnd(d)
    BY <2>3, FirstSlabInv DEF ResetEnd
  <2>4. CASE \E n \in Sizes : AllocSlice(d, n) \/ GrowAndAlloc(d, n)
    BY <2>4, AllocSliceInv, GrowAndAllocInv
  <2>5. CASE \E g \in live[d] : Write(d, g)
    BY <2>5, WriteInv
  <2>6. CASE ResetBegin(d)
    BY <2>6, ResetBeginInv
  <2>7. CASE PutSlab(d)
    BY <2>7, PutSlabInv
  <2>8. CASE Drop(d)
    BY <2>8, DropInv
  <2> QED
    BY <2>1, <2>2, <2>3, <2>4, <2>5, <2>6, <2>7, <2>8
<1> QED
  BY <1>1, <1>2

\* Every state of the allocators keeps the invariant.
THEOREM Invariant == Spec => []Inv
BY InitInv, StepInv, PTL DEF Spec

\* The slices a document holds are aligned, inside the slabs of its own chain, and
\* share no byte (slab.alloc, growAndAlloc, Reset).
THEOREM SlicesDisjointCorrect == Spec => []SlicesDisjoint
<1>1. Inv => SlicesDisjoint
  BY DEF Inv
<1> QED
  BY <1>1, Invariant, PTL

\* A set of which the members are equal has at most one.
LEMMA AtMostOne ==
    ASSUME NEW S, \A x, y \in S : x = y
    PROVE  Cardinality(S) = IF S = {} THEN 0 ELSE 1
<1>1. CASE S = {}
  BY <1>1, FS_EmptySet
<1>2. CASE S # {}
  <2>1. PICK x \in S : S = {x}
    BY <1>2
  <2> QED
    BY <1>2, <2>1, FS_Singleton
<1> QED
  BY <1>1, <1>2

\* A slab has one place in the chains if it is in one, and one in the pool.
LEMMA PlacesOnce ==
    ASSUME Inv, NEW s \in Slabs
    PROVE  /\ Cardinality(InChain(s)) = IF Chained(s) THEN 1 ELSE 0
           /\ Cardinality(InPool(s)) = IF Pooled(s) THEN 1 ELSE 0
           /\ \A place \in InPool(s) : place[1] = slab[s].size
<1>1. ASSUME NEW p \in InChain(s)
      PROVE  /\ p = <<p[1], p[2]>> /\ p[1] \in Docs /\ p[2] \in DOMAIN chain[p[1]]
             /\ chain[p[1]][p[2]] = s /\ s \in ToSet(chain[p[1]])
  <2>1. PICK d \in Docs : p \in {d} \X {i \in DOMAIN chain[d] : chain[d][i] = s}
    BY <1>1 DEF InChain
  <2> QED
    BY <2>1 DEF ToSet
<1>2. ASSUME NEW p \in InPool(s)
      PROVE  /\ p = <<p[1], p[2]>> /\ p[1] \in SlabSizes
             /\ p[2] \in DOMAIN pool[p[1]]
             /\ pool[p[1]][p[2]] = s /\ s \in ToSet(pool[p[1]])
  <2>1. PICK z \in SlabSizes : p \in {z} \X {i \in DOMAIN pool[z] : pool[z][i] = s}
    BY <1>2 DEF InPool
  <2> QED
    BY <2>1 DEF ToSet
<1>3. InChain(s) = {} <=> ~Chained(s)
  <2>1. ASSUME NEW d \in Docs, s \in ToSet(chain[d]) PROVE InChain(s) # {}
    <3>1. PICK i \in DOMAIN chain[d] : chain[d][i] = s
      BY <2>1 DEF ToSet
    <3>2. <<d, i>> \in {d} \X {j \in DOMAIN chain[d] : chain[d][j] = s}
      BY <3>1
    <3> QED
      BY <3>2 DEF InChain
  <2> QED
    BY <1>1, <2>1 DEF Chained
<1>4. InPool(s) = {} <=> ~Pooled(s)
  <2>1. ASSUME NEW z \in SlabSizes, s \in ToSet(pool[z]) PROVE InPool(s) # {}
    <3>1. PICK i \in DOMAIN pool[z] : pool[z][i] = s
      BY <2>1 DEF ToSet
    <3>2. <<z, i>> \in {z} \X {j \in DOMAIN pool[z] : pool[z][j] = s}
      BY <3>1
    <3> QED
      BY <3>2 DEF InPool
  <2> QED
    BY <1>2, <2>1 DEF Pooled
<1>5. \A p, q \in InChain(s) : p = q
  <2> SUFFICES ASSUME NEW p \in InChain(s), NEW q \in InChain(s) PROVE p = q
    OBVIOUS
  <2>1. p[1] = q[1]
    BY <1>1 DEF Inv, PlacesOK
  <2>2. p[2] = q[2]
    BY <1>1, <2>1 DEF Inv, PlacesOK, IsInjective
  <2> QED
    BY <1>1, <2>1, <2>2
<1>6. \A p, q \in InPool(s) : p = q
  <2> SUFFICES ASSUME NEW p \in InPool(s), NEW q \in InPool(s) PROVE p = q
    OBVIOUS
  <2>1. p[1] = q[1]
    BY <1>2 DEF Inv, PlacesOK
  <2>2. p[2] = q[2]
    BY <1>2, <2>1 DEF Inv, PlacesOK, IsInjective
  <2> QED
    BY <1>2, <2>1, <2>2
<1>7. \A place \in InPool(s) : place[1] = slab[s].size
  BY <1>2 DEF Inv, PlacesOK
<1>8. Cardinality(InChain(s)) = IF InChain(s) = {} THEN 0 ELSE 1
  BY <1>5, AtMostOne
<1>9. Cardinality(InPool(s)) = IF InPool(s) = {} THEN 0 ELSE 1
  BY <1>6, AtMostOne
<1> QED
  BY <1>3, <1>4, <1>7, <1>8, <1>9

\* Every slab that exists is in the chain of one document or in the pool, once, and
\* no two documents share a slab, also between the steps of a reset (Reset, getSlab,
\* slabPool).
THEOREM SlabInOnePlaceCorrect == Spec => []SlabInOnePlace
<1>1. ASSUME Inv PROVE SlabInOnePlace
  <2> SUFFICES ASSUME NEW s \in Slabs
               PROVE  /\ Cardinality(InChain(s)) + Cardinality(InPool(s)) =
                            IF slab[s].size > 0 THEN 1 ELSE 0
                      /\ \A place \in InPool(s) : place[1] = slab[s].size
    BY DEF SlabInOnePlace
  <2>1. /\ slab[s].size > 0 <=> Chained(s) \/ Pooled(s)
        /\ ~(Chained(s) /\ Pooled(s))
    BY <1>1 DEF Inv, PlacesOK
  <2> QED
    BY <1>1, <2>1, PlacesOnce
<1> QED
  BY <1>1, Invariant, PTL

-----------------------------------------------------------------------------
(* Sums over finite sets. *)

\* Induction over the subsets of a finite set.
LEMMA SubsetInduction ==
    ASSUME NEW S, IsFiniteSet(S), NEW G,
           \A T \in SUBSET S : (\A x \in T : T \ {x} \in G) => T \in G
    PROVE  SUBSET S \subseteq G
<1> DEFINE Bad == (SUBSET S) \ G
<1> SUFFICES ASSUME Bad # {} PROVE FALSE
  OBVIOUS
<1>1. IsWellFoundedOn(StrictSubsetOrdering(S), SUBSET S)
  <2>1. IsWellFoundedOn(StrictSubsetOrdering(S), FiniteSubsetsOf(S))
    BY FS_StrictSubsetOrderingWellFounded, Zenon
  <2>2. FiniteSubsetsOf(S) = SUBSET S
    BY FS_FiniteSubsetsOfFinite, Zenon
  <2> QED
    BY <2>1, <2>2, Zenon
<1>2. PICK T \in Bad : \A U \in Bad : <<U, T>> \notin StrictSubsetOrdering(S)
  <2>1. Bad \subseteq SUBSET S
    OBVIOUS
  <2> HIDE DEF Bad
  <2> QED
    BY <1>1, <2>1, WFMin
<1>3. \A x \in T : T \ {x} \in G
  <2> SUFFICES ASSUME NEW x \in T, T \ {x} \notin G PROVE FALSE
    OBVIOUS
  <2>1. T \ {x} \in Bad
    OBVIOUS
  <2>2. <<T \ {x}, T>> \in StrictSubsetOrdering(S)
    BY DEF StrictSubsetOrdering
  <2> QED
    BY <1>2, <2>1, <2>2
<1> QED
  BY <1>3

\* The function g gives the sums of f over the subsets of S.
Sums(g, f, S) ==
    g = [T \in SUBSET S |->
            IF T = {} THEN 0 ELSE f[AnyOf(T)] + g[T \ {AnyOf(T)}]]

\* One element, or none, at a time.
LEMMA SumsStep ==
    ASSUME NEW g, NEW f, NEW S, Sums(g, f, S)
    PROVE  \A T \in SUBSET S :
              /\ T = {} => g[T] = 0
              /\ T # {} => AnyOf(T) \in T /\ g[T] = f[AnyOf(T)] + g[T \ {AnyOf(T)}]
<1> DEFINE F == [U \in SUBSET S |->
                    IF U = {} THEN 0 ELSE f[AnyOf(U)] + g[U \ {AnyOf(U)}]]
<1>1. \A T \in SUBSET S :
         F[T] = IF T = {} THEN 0 ELSE f[AnyOf(T)] + g[T \ {AnyOf(T)}]
  OBVIOUS
<1>2. g = F
  BY DEF Sums
<1>3. \A T \in SUBSET S : T # {} => AnyOf(T) \in T
  BY DEF AnyOf
<1> HIDE DEF F
<1> QED
  BY <1>1, <1>2, <1>3

\* A sum depends on nothing but its terms.
LEMMA SumsAgree ==
    ASSUME NEW g, NEW f, NEW S, Sums(g, f, S),
           NEW h, NEW e, NEW R, Sums(h, e, R),
           NEW T \in SUBSET S, T \subseteq R, IsFiniteSet(T),
           \A x \in T : f[x] = e[x] /\ f[x] \in Int
    PROVE  g[T] = h[T] /\ g[T] \in Int
<1>a. \A U \in SUBSET R :
         /\ U = {} => h[U] = 0
         /\ U # {} => h[U] = e[AnyOf(U)] + h[U \ {AnyOf(U)}]
  BY SumsStep
<1> DEFINE G == {U \in SUBSET T : g[U] = h[U] /\ g[U] \in Int}
<1>1. ASSUME NEW U \in SUBSET T, \A x \in U : U \ {x} \in G PROVE U \in G
  <2>1. U \in SUBSET S /\ U \in SUBSET R
    OBVIOUS
  <2>2. /\ U = {} => g[U] = 0
        /\ U # {} => AnyOf(U) \in U /\ g[U] = f[AnyOf(U)] + g[U \ {AnyOf(U)}]
    BY <2>1, SumsStep
  <2>3. /\ U = {} => h[U] = 0
        /\ U # {} => h[U] = e[AnyOf(U)] + h[U \ {AnyOf(U)}]
    BY <1>a, <2>1
  <2>4. CASE U = {}
    BY <2>2, <2>3, <2>4
  <2>5. CASE U # {}
    <3> DEFINE x == AnyOf(U)
    <3>1. x \in U
      BY <2>2, <2>5
    <3>2. g[U \ {x}] = h[U \ {x}] /\ g[U \ {x}] \in Int /\ f[x] = e[x] /\ f[x] \in Int
      BY <1>1, <3>1
    <3>3. g[U] = f[x] + g[U \ {x}] /\ h[U] = e[x] + h[U \ {x}]
      BY <2>2, <2>3, <2>5
    <3> HIDE DEF x
    <3> QED
      BY <3>2, <3>3
  <2> QED
    BY <2>4, <2>5
<1> HIDE DEF G
<1>2. SUBSET T \subseteq G
  BY <1>1, SubsetInduction
<1>3. T \in G
  BY <1>2
<1> QED
  BY <1>3 DEF G

\* There is such a function.
LEMMA SumsExist ==
    ASSUME NEW S, IsFiniteSet(S), NEW f, \A x \in S : f[x] \in Int
    PROVE  \E g : Sums(g, f, S)
<1> DEFINE Of(T) == CHOOSE g : Sums(g, f, T)
           G == {T \in SUBSET S : \A U \in SUBSET T : \E g : Sums(g, f, U)}
<1>1. ASSUME NEW T \in SUBSET S, \A x \in T : T \ {x} \in G PROVE T \in G
  <2> DEFINE rest(U) == U \ {AnyOf(U)}
             g == [U \in SUBSET T |-> IF U = {} THEN 0 ELSE f[AnyOf(U)] + Of(rest(U))[rest(U)]]
  <2>1. \A U \in SUBSET T : U # T => Sums(Of(U), f, U)
    <3> SUFFICES ASSUME NEW U \in SUBSET T, NEW x \in T, x \notin U
                 PROVE  Sums(Of(U), f, U)
      OBVIOUS
    <3>1. T \ {x} \in G /\ U \in SUBSET (T \ {x})
      BY <1>1
    <3>2. \E h : Sums(h, f, U)
      BY <3>1
    <3> QED
      BY <3>2
  <2> HIDE DEF Of
  <2>2. \A U \in SUBSET T : U # {} => AnyOf(U) \in U /\ rest(U) \in SUBSET T /\ rest(U) # T
    BY DEF AnyOf
  <2>3. ASSUME NEW U \in SUBSET T, U # T PROVE g[U] = Of(U)[U]
    <3>1. CASE U = {}
      BY <2>1, <2>3, <3>1, SumsStep
    <3>2. CASE U # {}
      <4> DEFINE x == AnyOf(U)
                 V == U \ {x}
      <4>1. x \in U /\ V \in SUBSET T /\ V # T
        BY <2>2, <3>2
      <4>2. g[U] = f[x] + Of(V)[V]
        BY <3>2
      <4>3. Sums(Of(U), f, U) /\ Sums(Of(V), f, V)
        BY <2>1, <2>3, <4>1
      <4>4. Of(U)[U] = f[x] + Of(U)[V]
        BY <3>2, <4>3, SumsStep
      <4>5. /\ V \in SUBSET U /\ V \subseteq V /\ IsFiniteSet(V)
            /\ \A y \in V : f[y] = f[y] /\ f[y] \in Int
        BY FS_Subset
      <4> HIDE DEF V
      <4>6. Of(U)[V] = Of(V)[V]
        BY <4>3, <4>5, SumsAgree
      <4> HIDE DEF g, x
      <4> QED
        BY <4>2, <4>4, <4>6
    <3> QED
      BY <3>1, <3>2
  <2>4. \A U \in SUBSET T :
           g[U] = IF U = {} THEN 0 ELSE f[AnyOf(U)] + g[U \ {AnyOf(U)}]
    <3> TAKE U \in SUBSET T
    <3>1. g[U] = IF U = {} THEN 0 ELSE f[AnyOf(U)] + Of(rest(U))[rest(U)]
      OBVIOUS
    <3>2. U # {} => g[rest(U)] = Of(rest(U))[rest(U)]
      BY <2>2, <2>3
    <3> HIDE DEF g
    <3> QED
      BY <3>1, <3>2
  <2>5. g = [U \in SUBSET T |-> g[U]]
    OBVIOUS
  <2> HIDE DEF g
  <2>6. Sums(g, f, T)
    BY <2>4, <2>5 DEF Sums
  <2>7. \A U \in SUBSET T : \E h : Sums(h, f, U)
    BY <2>1, <2>6
  <2> QED
    BY <2>7
<1> HIDE DEF G
<1>2. SUBSET S \subseteq G
  BY <1>1, SubsetInduction
<1> QED
  BY <1>2 DEF G

\* A sum grows by the term that is added.
LEMMA SumsAdd ==
    ASSUME NEW g, NEW f, NEW S, Sums(g, f, S), IsFiniteSet(S),
           \A x \in S : f[x] \in Int
    PROVE  \A T \in SUBSET S : \A x \in S \ T :
              g[T \cup {x}] = g[T] + f[x]
<1> DEFINE G == {T \in SUBSET S : \A x \in S \ T : g[T \cup {x}] = g[T] + f[x]}
<1>0. \A T \in SUBSET S :
         T # {} => AnyOf(T) \in T /\ g[T] = f[AnyOf(T)] + g[T \ {AnyOf(T)}]
  BY SumsStep
<1>1. \A T \in SUBSET S : g[T] \in Int
  <2> TAKE T \in SUBSET S
  <2>1. T \subseteq S /\ IsFiniteSet(T) /\ \A x \in T : f[x] = f[x] /\ f[x] \in Int
    BY FS_Subset
  <2> QED
    BY <2>1, SumsAgree
<1>2. ASSUME NEW T \in SUBSET S, \A y \in T : T \ {y} \in G PROVE T \in G
  <2> SUFFICES ASSUME NEW x \in S, x \notin T PROVE g[T \cup {x}] = g[T] + f[x]
    OBVIOUS
  <2> DEFINE U == T \cup {x}
             a == AnyOf(U)
  <2>1. U \in SUBSET S /\ U # {} /\ x \in U
    OBVIOUS
  <2>2. a \in U /\ g[U] = f[a] + g[U \ {a}]
    BY <1>0, <2>1
  <2> HIDE DEF a
  <2>3. CASE a = x
    <3>1. U \ {a} = T
      BY <2>3
    <3> HIDE DEF U
    <3>2. g[U] = f[x] + g[T] /\ g[T] \in Int /\ f[x] \in Int
      BY <1>1, <2>2, <2>3, <3>1
    <3> QED
      BY <3>2 DEF U
  <2>4. CASE a # x
    <3> DEFINE V == T \ {a}
    <3>1. /\ a \in T /\ V \in G /\ a \in S \ V /\ x \in S \ V
          /\ V \cup {a} = T /\ U \ {a} = V \cup {x}
      BY <1>2, <2>2, <2>4
    <3>2. g[V \cup {a}] = g[V] + f[a] /\ g[V \cup {x}] = g[V] + f[x]
      BY <3>1
    <3>3. V \in SUBSET S /\ g[V] \in Int /\ f[a] \in Int /\ f[x] \in Int
      BY <1>1, <3>1
    <3> HIDE DEF U, V
    <3>4. g[T] = g[V] + f[a] /\ g[U] = f[a] + (g[V] + f[x])
      BY <2>2, <3>1, <3>2
    <3>5. g[U] = g[T] + f[x]
      BY <3>3, <3>4
    <3> QED
      BY <3>5 DEF U
  <2> QED
    BY <2>3, <2>4
<1> HIDE DEF G
<1>3. SUBSET S \subseteq G
  BY <1>2, SubsetInduction
<1> QED
  BY <1>3 DEF G

\* What SumOf returns is such a sum.
LEMMA SumOfIs ==
    ASSUME NEW S, IsFiniteSet(S), NEW f, \A x \in S : f[x] \in Int
    PROVE  \E g : Sums(g, f, S) /\ SumOf(f, S) = g[S]
<1>1. PICK h : Sums(h, f, S)
  BY SumsExist
<1> DEFINE sum == CHOOSE g : Sums(g, f, S)
<1>2. Sums(sum, f, S)
  BY <1>1
<1>3. SumOf(f, S) = sum[S]
  BY DEF SumOf, Sums
<1> QED
  BY <1>2, <1>3

\* No term, no sum.
LEMMA SumOfNone ==
    ASSUME NEW f
    PROVE  SumOf(f, {}) = 0
<1>1. IsFiniteSet({})
  BY FS_EmptySet
<1>2. PICK g : Sums(g, f, {}) /\ SumOf(f, {}) = g[{}]
  BY <1>1, SumOfIs
<1> QED
  BY <1>2, SumsStep

\* A sum depends on nothing but its terms.
LEMMA SumOfAgree ==
    ASSUME NEW S, IsFiniteSet(S), NEW f, NEW e,
           \A x \in S : f[x] = e[x] /\ f[x] \in Int
    PROVE  SumOf(f, S) = SumOf(e, S) /\ SumOf(f, S) \in Int
<1>1. PICK g : Sums(g, f, S) /\ SumOf(f, S) = g[S]
  BY SumOfIs
<1>2. \A x \in S : e[x] \in Int
  OBVIOUS
<1>3. PICK h : Sums(h, e, S) /\ SumOf(e, S) = h[S]
  BY <1>2, SumOfIs
<1>4. S \in SUBSET S /\ S \subseteq S
  OBVIOUS
<1>5. g[S] = h[S] /\ g[S] \in Int
  BY <1>1, <1>3, <1>4, SumsAgree
<1> QED
  BY <1>1, <1>3, <1>5

\* A sum grows by the term that is added.
LEMMA SumOfAdd ==
    ASSUME NEW S, IsFiniteSet(S), NEW x, x \notin S, NEW f,
           \A y \in S \cup {x} : f[y] \in Int
    PROVE  SumOf(f, S \cup {x}) = SumOf(f, S) + f[x]
<1> DEFINE R == S \cup {x}
<1>1. IsFiniteSet(R) /\ S \in SUBSET R /\ S \subseteq S /\ x \in R \ S
  BY FS_AddElement
<1>2. (\A y \in R : f[y] \in Int) /\ \A y \in S : f[y] = f[y] /\ f[y] \in Int
  OBVIOUS
<1>3. R = S \cup {x}
  OBVIOUS
<1> HIDE DEF R
<1>4. PICK g : Sums(g, f, R) /\ SumOf(f, R) = g[R]
  BY <1>1, <1>2, SumOfIs
<1>5. PICK h : Sums(h, f, S) /\ SumOf(f, S) = h[S]
  BY <1>2, SumOfIs
<1>6. g[S] = h[S]
  BY <1>1, <1>2, <1>4, <1>5, SumsAgree
<1>7. g[R] = g[S] + f[x]
  BY <1>1, <1>2, <1>3, <1>4, SumsAdd
<1> QED
  BY <1>3, <1>4, <1>5, <1>6, <1>7

-----------------------------------------------------------------------------
(* The bytes counted. *)

Lens(L) == [g \in L |-> g.len]

Offsets(slabs) == [s \in Slabs |-> slabs[s].offset]

\* The slices L have count bytes, and an open document whose chain holds the slabs C
\* uses those and at most the padding of each slice.
Exact(L, count, slabs, C, open) ==
    /\ IsFiniteSet(L)
    /\ count = SumOf(Lens(L), L)
    /\ open => SumOf(Offsets(slabs), C) - count \in 0 .. (Align - 1) * Cardinality(L)

Accounted(d) ==
    Exact(live[d], allocated[d], slab, ToSet(chain[d]), phase[d] = "open")

\* The strengthening of AccountingExact: a document has finitely many slices.
AccountInv == \A d \in Docs : Accounted(d)

LEMMA AccountImplies == AccountInv => AccountingExact
BY DEF AccountInv, Accounted, Exact, AccountingExact, Lens, Offsets, LenOf, OffsetOf,
       BytesInUse

\* The slabs are finitely many, and their offsets have a sum.
LEMMA OffsetsFinite ==
    ASSUME TypeOK, NEW C \in SUBSET Slabs
    PROVE  /\ IsFiniteSet(C)
           /\ \A s \in C : Offsets(slab)[s] = slab[s].offset /\ slab[s].offset \in Nat
           /\ SumOf(Offsets(slab), C) \in Int
<1>1. IsFiniteSet(Slabs)
  BY AllocAssumption, FS_Interval DEF Slabs
<1>2. IsFiniteSet(C)
  BY <1>1, FS_Subset
<1>3. \A s \in C : Offsets(slab)[s] = slab[s].offset /\ slab[s].offset \in Nat
  BY DEF Offsets, TypeOK, Contents
<1>4. \A s \in C : Offsets(slab)[s] = Offsets(slab)[s] /\ Offsets(slab)[s] \in Int
  BY <1>3
<1> HIDE DEF Offsets
<1>5. SumOf(Offsets(slab), C) \in Int
  BY <1>2, <1>4, SumOfAgree
<1> QED
  BY <1>2, <1>3, <1>5

\* A document without slices.
LEMMA ExactNone ==
    ASSUME NEW slabs, NEW C, NEW open \in BOOLEAN,
           open => SumOf(Offsets(slabs), C) = 0
    PROVE  Exact({}, 0, slabs, C, open)
<1>1. IsFiniteSet({}) /\ Cardinality({}) = 0
  BY FS_EmptySet
<1>2. SumOf(Lens({}), {}) = 0
  BY SumOfNone
<1>3. (Align - 1) * 0 = 0
  BY AllocAssumption
<1> QED
  BY <1>1, <1>2, <1>3 DEF Exact

\* A step that leaves a document's chain and the offsets of its slabs.
LEMMA ExactKept ==
    ASSUME TypeOK, NEW C \in SUBSET Slabs, NEW slabs,
           \A s \in C : slabs[s].offset = slab[s].offset,
           NEW L, NEW count, NEW open, Exact(L, count, slab, C, open)
    PROVE  Exact(L, count, slabs, C, open)
<1>1. \A s \in C : Offsets(slabs)[s] = slabs[s].offset
  BY DEF Offsets
<1>2. \A s \in C : Offsets(slab)[s] = Offsets(slabs)[s] /\ Offsets(slab)[s] \in Int
  BY <1>1, OffsetsFinite
<1>3. IsFiniteSet(C)
  BY OffsetsFinite
<1> HIDE DEF Offsets
<1>4. SumOf(Offsets(slab), C) = SumOf(Offsets(slabs), C)
  BY <1>2, <1>3, SumOfAgree
<1> QED
  BY <1>4 DEF Exact

\* The padding that one more slice may need.
LEMMA OneMore ==
    ASSUME NEW a \in Nat, NEW k \in Nat
    PROVE  a * (k + 1) = a * k + a /\ a * k \in Nat
OBVIOUS

\* Slice g, of n bytes, is carved out of slab s from offset o on; the other slabs of
\* the chain are R.
Carves(g, n, s, o, R, L, C, slabs) ==
    /\ R \in SUBSET Slabs /\ s \in Slabs \ R /\ o \in Nat /\ n \in Nat
    /\ SumOf(Offsets(slab), C) = SumOf(Offsets(slab), R) + o
    /\ \A t \in R : slabs[t].offset = slab[t].offset
    /\ slabs[s].offset = Aligned(o) + n
    /\ \A h \in L : h.len \in Nat
    /\ g \notin L /\ g.len = n

LEMMA ExactCarved ==
    ASSUME TypeOK, NEW L, NEW count, NEW C, NEW R, NEW s, NEW o, NEW n, NEW slabs,
           NEW g, Carves(g, n, s, o, R, L, C, slabs),
           Exact(L, count, slab, C, TRUE)
    PROVE  Exact(L \cup {g}, count + n, slabs, R \cup {s}, TRUE)
<1>0. /\ R \in SUBSET Slabs /\ s \in Slabs \ R /\ o \in Nat /\ n \in Nat
      /\ SumOf(Offsets(slab), C) = SumOf(Offsets(slab), R) + o
      /\ \A t \in R : slabs[t].offset = slab[t].offset
      /\ slabs[s].offset = Aligned(o) + n
      /\ \A h \in L : h.len \in Nat
      /\ g \notin L /\ g.len = n
  BY DEF Carves
<1> DEFINE M == L \cup {g}
           used == SumOf(Offsets(slab), C)
           rest == SumOf(Offsets(slab), R)
           k == Cardinality(L)
<1>1. /\ IsFiniteSet(L) /\ count = SumOf(Lens(L), L)
      /\ used - count \in 0 .. (Align - 1) * k
  BY DEF Exact
<1>2. IsFiniteSet(M) /\ Cardinality(M) = k + 1 /\ k \in Nat
  BY <1>0, <1>1, FS_AddElement, FS_CardinalityType
<1>3. SumOf(Lens(M), M) = count + n /\ count \in Int
  <2>1. /\ \A h \in L : Lens(L)[h] = Lens(M)[h] /\ Lens(L)[h] \in Int
        /\ \A h \in M : Lens(M)[h] \in Int
        /\ Lens(M)[g] = n
    BY <1>0 DEF Lens
  <2>2. M = L \cup {g}
    OBVIOUS
  <2> HIDE DEF M
  <2>3. SumOf(Lens(L), L) = SumOf(Lens(M), L) /\ SumOf(Lens(L), L) \in Int
    BY <1>1, <2>1, SumOfAgree
  <2>4. SumOf(Lens(M), M) = SumOf(Lens(M), L) + Lens(M)[g]
    BY <1>0, <1>1, <2>1, <2>2, SumOfAdd
  <2> QED
    BY <1>0, <1>1, <2>1, <2>3, <2>4
<1>4. SumOf(Offsets(slabs), R \cup {s}) = rest + Aligned(o) + n /\ rest \in Int
  <2>1. IsFiniteSet(R) /\ rest \in Int
    BY <1>0, OffsetsFinite
  <2>2. \A t \in R \cup {s} : Offsets(slabs)[t] = slabs[t].offset
    BY <1>0 DEF Offsets
  <2>3. \A t \in R : /\ Offsets(slab)[t] = slab[t].offset
                     /\ slab[t].offset \in Nat
    BY <1>0, OffsetsFinite
  <2>4. \A t \in R : /\ Offsets(slab)[t] = Offsets(slabs)[t]
                     /\ Offsets(slab)[t] \in Int
    BY <1>0, <2>2, <2>3
  <2>5. Aligned(o) + n \in Nat
    BY <1>0, AlignedUp
  <2>6. Offsets(slabs)[s] = Aligned(o) + n
    BY <1>0, <2>2
  <2>7. \A t \in R \cup {s} : Offsets(slabs)[t] \in Int
    BY <1>0, <2>4, <2>5, <2>6
  <2> HIDE DEF Offsets
  <2>8. SumOf(Offsets(slab), R) = SumOf(Offsets(slabs), R)
    BY <2>1, <2>4, SumOfAgree
  <2>9. SumOf(Offsets(slabs), R \cup {s}) = SumOf(Offsets(slabs), R) + Offsets(slabs)[s]
    BY <1>0, <2>1, <2>7, SumOfAdd
  <2> QED
    BY <1>0, <2>1, <2>5, <2>6, <2>8, <2>9, AlignedUp
<1>5. (Align - 1) * (k + 1) = (Align - 1) * k + (Align - 1) /\ (Align - 1) * k \in Nat
  <2>1. Align - 1 \in Nat /\ k \in Nat
    BY <1>2, AllocAssumption
  <2> HIDE DEF k
  <2> QED
    BY <2>1, OneMore
<1>6. /\ Aligned(o) - o \in 0 .. Align - 1 /\ Aligned(o) \in Nat
      /\ Align \in Nat \ {0}
  BY <1>0, AlignedUp, AllocAssumption
<1>7. used = rest + o
  BY <1>0
<1> DEFINE most == (Align - 1) * k
           new == SumOf(Offsets(slabs), R \cup {s})
<1>8. new - (count + n) \in 0 .. (Align - 1) * (k + 1)
  <2>1. new = rest + Aligned(o) + n
    BY <1>4
  <2>2. (Align - 1) * (k + 1) = most + (Align - 1) /\ most \in Nat
    BY <1>5
  <2>3. used - count \in 0 .. most
    BY <1>1
  <2> HIDE DEF most, new, used, rest, k
  <2>4. new - (count + n) = (used - count) + (Aligned(o) - o)
    BY <1>0, <1>3, <1>4, <1>6, <1>7, <2>1
  <2> QED
    BY <1>6, <2>2, <2>3, <2>4
<1> HIDE DEF M
<1>9. Exact(M, count + n, slabs, R \cup {s}, TRUE)
  BY <1>2, <1>3, <1>8 DEF Exact
<1> QED
  BY <1>9 DEF M

\* A document that a step of document d leaves alone keeps its account.
LEMMA OthersKept ==
    ASSUME Inv, AccountInv, NEW e \in Docs,
           \A s \in ToSet(chain[e]) : slab'[s].offset = slab[s].offset,
           chain'[e] = chain[e], live'[e] = live[e], allocated'[e] = allocated[e],
           phase'[e] = phase[e]
    PROVE  Accounted(e)'
<1>1. Exact(live[e], allocated[e], slab, ToSet(chain[e]), phase[e] = "open")
  BY DEF AccountInv, Accounted
<1>2. ToSet(chain[e]) \in SUBSET Slabs /\ TypeOK
  BY PlacesTyped DEF Inv
<1>3. Exact(live[e], allocated[e], slab', ToSet(chain[e]), phase[e] = "open")
  BY <1>1, <1>2, ExactKept
<1> QED
  BY <1>3 DEF Accounted

LEMMA FirstSlabAccount ==
    ASSUME Inv, AccountInv, NEW d \in Docs, phase[d] # "open", chain[d] = << >>,
           phase' = [phase EXCEPT ![d] = "open"],
           NEW s \in Slabs, NEW c \in {Recycled(s), NewSlab(SlabSize)},
           GetSlab(SlabSize, s, c),
           slab' = [slab EXCEPT ![s] = c],
           chain' = [chain EXCEPT ![d] = <<s>>],
           UNCHANGED <<allocated, live>>
    PROVE  AccountInv'
<1>1. c.offset = 0 /\ ~Chained(s)
  BY SizesPositive, SlabTaken DEF Inv
<1>2. /\ slab'[s] = c /\ \A t \in Slabs : t # s => slab'[t] = slab[t]
      /\ chain'[d] = <<s>> /\ phase'[d] = "open"
      /\ \A e \in Docs : e # d => chain'[e] = chain[e] /\ phase'[e] = phase[e]
  BY DEF Inv, TypeOK
<1>3. ASSUME NEW e \in Docs, e # d PROVE Accounted(e)'
  <2>1. \A t \in ToSet(chain[e]) : t \in Slabs /\ t # s
    BY <1>1, PlacesTyped DEF Inv, Chained
  <2> QED
    BY <1>2, <1>3, <2>1, OthersKept
<1>4. Accounted(d)'
  <2>1. live[d] = {}
    BY DEF Inv, PhaseOK
  <2>2. allocated[d] = 0
    BY <2>1, SumOfNone DEF AccountInv, Accounted, Exact
  <2>3. SumOf(Offsets(slab'), {s}) = 0
    <3>1. IsFiniteSet({}) /\ s \notin {} /\ {} \cup {s} = {s}
      BY FS_EmptySet
    <3>2. /\ \A t \in {} \cup {s} : Offsets(slab')[t] \in Int
          /\ Offsets(slab')[s] = 0
      BY <1>1, <1>2 DEF Offsets
    <3> HIDE DEF Offsets
    <3>3. SumOf(Offsets(slab'), {} \cup {s}) = SumOf(Offsets(slab'), {}) + Offsets(slab')[s]
      BY <3>1, <3>2, SumOfAdd
    <3> QED
      BY <3>1, <3>2, <3>3, SumOfNone
  <2>4. Exact({}, 0, slab', {s}, phase'[d] = "open")
    BY <2>3, ExactNone
  <2>5. ToSet(chain'[d]) = {s}
    BY <1>2, MembersOfOne
  <2> QED
    BY <2>1, <2>2, <2>4, <2>5 DEF Accounted
<1> QED
  BY <1>3, <1>4 DEF AccountInv

\* The slice carved out of slab s is a new one.
LEMMA SliceNew ==
    ASSUME Inv, NEW d \in Docs, NEW s \in Slabs, NEW o \in Nat, NEW n \in Sizes,
           s \in ToSet(chain[d]) => slab[s].offset = o
    PROVE  Bytes(s, Aligned(o), n) \notin live[d]
<1> SUFFICES ASSUME Bytes(s, Aligned(o), n) \in live[d] PROVE FALSE
  OBVIOUS
<1>1. /\ s \in ToSet(chain[d])
      /\ Aligned(o) + n <= slab[s].offset
  BY DEF Inv, SlicesDisjoint, Bytes
<1>2. n \in Nat \ {0} /\ Aligned(o) \in Nat /\ o <= Aligned(o)
  BY AllocAssumption, AlignedUp
<1> QED
  BY <1>1, <1>2

\* A slice from a slab that is, or now becomes, part of the chain.
LEMMA CarveAccount ==
    ASSUME Inv, AccountInv, NEW d \in Docs, phase[d] = "open", phase' = phase,
           NEW s \in Slabs, NEW c \in Contents, NEW n \in Sizes, Carve(d, s, c, n),
           \A e \in Docs : e # d => s \notin ToSet(chain[e]),
           s \in ToSet(chain[d]) => c = slab[s],
           s \notin ToSet(chain[d]) => c.offset = 0,
           ToSet(chain'[d]) = ToSet(chain[d]) \cup {s},
           \A e \in Docs : e # d => chain'[e] = chain[e]
    PROVE  AccountInv'
<1> DEFINE o == c.offset
           g == Bytes(s, Aligned(o), n)
           C == ToSet(chain[d])
           R == C \ {s}
<1>1. /\ slab' = [slab EXCEPT ![s] = [c EXCEPT !.offset = Aligned(o) + n]]
      /\ live' = [live EXCEPT ![d] = @ \cup {g}]
      /\ allocated' = [allocated EXCEPT ![d] = @ + n]
  BY DEF Carve
<1>2. o \in Nat /\ n \in Nat
  BY AllocAssumption DEF Contents
<1>3. /\ slab'[s].offset = Aligned(o) + n
      /\ \A t \in Slabs : t # s => slab'[t] = slab[t]
      /\ live'[d] = live[d] \cup {g}
      /\ allocated'[d] = allocated[d] + n
      /\ \A e \in Docs : e # d => /\ live'[e] = live[e]
                                  /\ allocated'[e] = allocated[e]
  BY <1>1 DEF Inv, TypeOK, Contents
<1>4. ASSUME NEW e \in Docs, e # d PROVE Accounted(e)'
  <2>1. \A t \in ToSet(chain[e]) : t \in Slabs /\ t # s
    BY <1>4, PlacesTyped DEF Inv
  <2>2. \A t \in ToSet(chain[e]) : slab'[t].offset = slab[t].offset
    BY <1>3, <2>1
  <2> QED
    BY <1>3, <1>4, <2>2, OthersKept
<1>5. Accounted(d)'
  <2>1. TypeOK /\ C \in SUBSET Slabs /\ R \in SUBSET Slabs /\ s \in Slabs \ R
    BY PlacesTyped DEF Inv
  <2>2. Exact(live[d], allocated[d], slab, C, TRUE)
    BY DEF AccountInv, Accounted
  <2>3. SumOf(Offsets(slab), C) = SumOf(Offsets(slab), R) + o
    <3>1. CASE s \in C
      <4>1. /\ IsFiniteSet(R) /\ s \notin R /\ R \cup {s} = C
            /\ SumOf(Offsets(slab), R) \in Int
        BY <2>1, <3>1, OffsetsFinite
      <4>2. \A t \in C : /\ Offsets(slab)[t] = slab[t].offset
                         /\ slab[t].offset \in Nat
        BY <2>1, OffsetsFinite
      <4> HIDE DEF Offsets, C, R
      <4>3. \A t \in R \cup {s} : Offsets(slab)[t] \in Int
        BY <4>1, <4>2
      <4>4. SumOf(Offsets(slab), R \cup {s}) = SumOf(Offsets(slab), R) + Offsets(slab)[s]
        BY <4>1, <4>3, SumOfAdd
      <4>5. Offsets(slab)[s] = o
        BY <3>1, <4>2 DEF C
      <4> QED
        BY <4>1, <4>4, <4>5
    <3>2. CASE s \notin C
      <4>1. R = C /\ o = 0
        BY <3>2
      <4>2. SumOf(Offsets(slab), R) \in Int
        BY <2>1, OffsetsFinite
      <4> HIDE DEF R, C, o
      <4> QED
        BY <4>1, <4>2
    <3> QED
      BY <3>1, <3>2
  <2>4. \A h \in live[d] : h.len \in Nat
    <3>1. live[d] \subseteq [slab : Slabs, first : Nat, len : Sizes]
      BY DEF Inv, TypeOK
    <3>2. Sizes \subseteq Nat
      BY AllocAssumption
    <3> QED
      BY <3>1, <3>2
  <2>5. g \notin live[d] /\ g.len = n
    <3>1. s \in ToSet(chain[d]) => slab[s].offset = o
      OBVIOUS
    <3>2. Bytes(s, Aligned(o), n) \notin live[d]
      BY <1>2, <3>1, SliceNew
    <3> QED
      BY <3>2 DEF Bytes
  <2>6. /\ \A t \in R : slab'[t].offset = slab[t].offset
        /\ slab'[s].offset = Aligned(o) + n
    BY <1>3, <2>1
  <2>7. ToSet(chain'[d]) = R \cup {s}
    OBVIOUS
  <2> HIDE DEF R, C, g, o
  <2>8. Exact(live[d] \cup {g}, allocated[d] + n, slab', R \cup {s}, TRUE)
    <3>1. R \in SUBSET Slabs /\ s \in Slabs \ R /\ TypeOK
      BY <2>1
    <3>2. /\ \A t \in R : slab'[t].offset = slab[t].offset
          /\ slab'[s].offset = Aligned(o) + n
      BY <2>6
    <3>3. g \notin live[d] /\ g.len = n /\ o \in Nat /\ n \in Nat
      BY <1>2, <2>5
    <3>4. Carves(g, n, s, o, R, live[d], C, slab')
      BY <2>3, <2>4, <3>1, <3>2, <3>3 DEF Carves
    <3> QED
      BY <2>2, <3>1, <3>4, ExactCarved
  <2> QED
    BY <1>3, <2>7, <2>8 DEF Accounted
<1> QED
  BY <1>4, <1>5 DEF AccountInv

\* The account of every document is kept by the steps of one.
LEMMA InitAccount == Init => AccountInv
<1> SUFFICES ASSUME Init, NEW d \in Docs PROVE Accounted(d)
  BY DEF AccountInv
<1>1. live[d] = {} /\ allocated[d] = 0 /\ (phase[d] = "open") = FALSE
  BY DEF Init
<1>2. Exact({}, 0, slab, ToSet(chain[d]), FALSE)
  BY ExactNone
<1> QED
  BY <1>1, <1>2 DEF Accounted

LEMMA AllocSliceAccount ==
    ASSUME Inv, AccountInv, NEW d \in Docs, NEW n \in Sizes, AllocSlice(d, n)
    PROVE  AccountInv'
<1> DEFINE s == Head(chain[d])
<1>1. /\ phase[d] = "open" /\ Carve(d, s, slab[s], n) /\ UNCHANGED <<chain, pool, phase>>
  BY DEF AllocSlice
<1>2. chain[d] \in Seq(Slabs) /\ chain[d] # << >> /\ IsInjective(chain[d])
  BY <1>1 DEF Inv, TypeOK, PhaseOK, PlacesOK
<1>3. s \in ToSet(chain[d]) /\ s \in Slabs
  BY <1>2, MembersOfTail, PlacesTyped DEF Inv
<1> HIDE DEF s
<1>4. \A e \in Docs : e # d => s \notin ToSet(chain[e])
  BY <1>3 DEF Inv, PlacesOK
<1>5. slab[s] \in Contents
  BY <1>3 DEF Inv, TypeOK
<1>6. /\ ToSet(chain'[d]) = ToSet(chain[d]) \cup {s}
      /\ \A e \in Docs : e # d => chain'[e] = chain[e]
  BY <1>1, <1>3
<1> QED
  BY <1>1, <1>3, <1>4, <1>5, <1>6, CarveAccount

LEMMA GrowAndAllocAccount ==
    ASSUME Inv, AccountInv, NEW d \in Docs, NEW n \in Sizes, GrowAndAlloc(d, n)
    PROVE  AccountInv'
<1>1. phase[d] = "open" /\ phase' = phase
  BY DEF GrowAndAlloc
<1>2. PICK s \in Slabs : \E c \in {Recycled(s), NewSlab(GrownSize(n))} :
         /\ GetSlab(GrownSize(n), s, c)
         /\ Carve(d, s, c, n)
         /\ chain' = [chain EXCEPT ![d] = <<s>> \o @]
  BY DEF GrowAndAlloc
<1>3. PICK c \in {Recycled(s), NewSlab(GrownSize(n))} :
         /\ GetSlab(GrownSize(n), s, c)
         /\ Carve(d, s, c, n)
         /\ chain' = [chain EXCEPT ![d] = <<s>> \o @]
  BY <1>2
<1>4. c \in Contents /\ c.offset = 0 /\ ~Chained(s)
  <2>1. GrownSize(n) \in SlabSizes
    BY SizesPositive
  <2> QED
    BY <1>3, <2>1, SlabTaken DEF Inv
<1>5. \A e \in Docs : s \notin ToSet(chain[e])
  BY <1>4 DEF Chained
<1>6. ToSet(<<s>> \o chain[d]) = ToSet(chain[d]) \cup {s}
  <2>1. chain[d] \in Seq(Slabs) /\ IsInjective(chain[d])
    BY DEF Inv, TypeOK, PlacesOK
  <2> QED
    BY <1>5, <2>1, MembersOfPush
<1>7. /\ ToSet(chain'[d]) = ToSet(chain[d]) \cup {s}
      /\ \A e \in Docs : e # d => chain'[e] = chain[e]
  BY <1>3, <1>6 DEF Inv, TypeOK
<1> QED
  BY <1>1, <1>3, <1>4, <1>5, <1>7, CarveAccount

LEMMA WriteAccount ==
    ASSUME Inv, AccountInv, NEW d \in Docs, NEW g \in live[d], Write(d, g)
    PROVE  AccountInv'
<1>1. UNCHANGED <<chain, pool, phase, allocated, live>>
  BY DEF Write
<1>2. \A t \in Slabs : slab'[t].offset = slab[t].offset
  BY DEF Write, Inv, TypeOK, Contents
<1>3. ASSUME NEW e \in Docs PROVE Accounted(e)'
  <2>1. \A t \in ToSet(chain[e]) : slab'[t].offset = slab[t].offset
    BY <1>2, PlacesTyped DEF Inv
  <2> QED
    BY <1>1, <2>1, OthersKept
<1> QED
  BY <1>3 DEF AccountInv

\* A document gives up its slices, and then its slabs.
LEMMA GivenUpAccount ==
    ASSUME Inv, AccountInv, NEW d \in Docs, ResetBegin(d) \/ PutSlab(d) \/ Drop(d)
    PROVE  AccountInv'
<1>1. /\ (phase'[d] = "open") = FALSE
      /\ live'[d] = {} /\ allocated'[d] = 0
      /\ \A e \in Docs : e # d => /\ phase'[e] = phase[e]
                                  /\ chain'[e] = chain[e]
                                  /\ live'[e] = live[e]
                                  /\ allocated'[e] = allocated[e]
  <2>1. CASE ResetBegin(d)
    BY <2>1 DEF ResetBegin, Inv, TypeOK
  <2>2. CASE Drop(d)
    BY <2>2 DEF Drop, Inv, TypeOK
  <2>3. CASE PutSlab(d)
    <3>1. phase[d] = "resetting" /\ UNCHANGED <<phase, allocated, live>>
      BY <2>3 DEF PutSlab
    <3>2. live[d] = {}
      BY <3>1 DEF Inv, PhaseOK
    <3>3. allocated[d] = 0
      BY <3>2, SumOfNone DEF AccountInv, Accounted, Exact
    <3> QED
      BY <2>3, <3>1, <3>2, <3>3 DEF PutSlab, Inv, TypeOK
  <2> QED
    BY <2>1, <2>2, <2>3
<1>2. \A e \in Docs : e # d => ToSet(chain[d]) \cap ToSet(chain[e]) = {}
  BY DEF Inv, PlacesOK
<1>3. \A t \in Slabs : t \notin ToSet(chain[d]) => slab'[t] = slab[t]
  BY DEF ResetBegin, PutSlab, Drop
<1>4. ASSUME NEW e \in Docs, e # d PROVE Accounted(e)'
  <2>1. \A t \in ToSet(chain[e]) : t \in Slabs /\ t \notin ToSet(chain[d])
    BY <1>2, <1>4, PlacesTyped DEF Inv
  <2> QED
    BY <1>1, <1>3, <1>4, <2>1, OthersKept
<1>5. Accounted(d)'
  <2>1. Exact({}, 0, slab', ToSet(chain'[d]), FALSE)
    BY ExactNone
  <2> QED
    BY <1>1, <2>1 DEF Accounted
<1> QED
  BY <1>4, <1>5 DEF AccountInv

LEMMA StepAccount == Inv /\ AccountInv /\ [Next]_vars => AccountInv'
<1> SUFFICES ASSUME Inv, AccountInv, [Next]_vars PROVE AccountInv'
  OBVIOUS
<1>1. CASE UNCHANGED vars
  BY <1>1 DEF vars, AccountInv, Accounted
<1>2. CASE Next
  <2>1. PICK d \in Docs :
           \/ NewBounded(d)
           \/ \E n \in Sizes : AllocSlice(d, n) \/ GrowAndAlloc(d, n)
           \/ \E g \in live[d] : Write(d, g)
           \/ ResetBegin(d)
           \/ PutSlab(d)
           \/ ResetEnd(d)
           \/ Drop(d)
    BY <1>2 DEF Next
  <2>2. CASE NewBounded(d)
    <3>1. phase[d] # "open" /\ chain[d] = << >>
      BY <2>2 DEF NewBounded, Inv, PhaseOK
    <3> QED
      BY <2>2, <3>1, FirstSlabAccount DEF NewBounded
  <2>3. CASE ResetEnd(d)
    BY <2>3, FirstSlabAccount DEF ResetEnd
  <2>4. CASE \E n \in Sizes : AllocSlice(d, n) \/ GrowAndAlloc(d, n)
    BY <2>4, AllocSliceAccount, GrowAndAllocAccount
  <2>5. CASE \E g \in live[d] : Write(d, g)
    BY <2>5, WriteAccount
  <2>6. CASE ResetBegin(d) \/ PutSlab(d) \/ Drop(d)
    BY <2>6, GivenUpAccount
  <2> QED
    BY <2>1, <2>2, <2>3, <2>4, <2>5, <2>6
<1> QED
  BY <1>1, <1>2

\* The bytes counted against the limit are those of the slices handed out since the
\* last reset, and the bytes in use exceed them by padding only (BoundedAllocSlice,
\* Reset, slab.alloc).
THEOREM AccountingExactCorrect == Spec => []AccountingExact
<1>1. Spec => []AccountInv
  BY Invariant, InitAccount, StepAccount, PTL DEF Spec
<1> QED
  BY <1>1, AccountImplies, PTL

=============================================================================
