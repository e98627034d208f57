------------------------------ MODULE XrefProofs ------------------------------
(***************************************************************************)
(* What holds of the reading of cross-reference data for any file, any     *)
(* places and object numbers, and whatever memory is refused or holds; and *)
(* in the end of the parser, which reads those data and all objects, for   *)
(* any text, any calls on its buffer and any pieces that the bytes come in *)
(* (the module Parser, under the name Parse).                              *)
(*                                                                         *)
(* That a file is refused only for its tables needs to know, at each       *)
(* table, that the chain of Prev links led there, and at each stream that  *)
(* an XRefStm did (TablesOK, StreamOK); that no slice panics needs the     *)
(* slots of a table to fit into its capacity (IsTable).                    *)
(*                                                                         *)
(* That the newest revision wins needs a set V of the sections read so     *)
(* far: links lead out of V only at the section read last, every row of V  *)
(* has a slot, and a slot holds what the newest of V says (StreamsRead,    *)
(* TablesRead).  When that last link is none, V is the whole chain.        *)
(*                                                                         *)
(* That the parser stays within its buffer needs bounds on the tokens that *)
(* are given back, by what its innermost call waits for (LookAheadOK).     *)
(* That the pieces do not show in what it reads is a refinement of         *)
(* WholeText: each buffer is mapped to one that holds the whole text and   *)
(* stands at the same place of it (AsWhole).                               *)
(*                                                                         *)
(* What the library's induction theorems would give is proved here from    *)
(* well-founded sets of numbers (SetInduction).                            *)
(***************************************************************************)
EXTENDS Xref, FiniteSetTheorems, SequenceTheorems, WellFoundedInduction, TLAPS

(* Numbers. *)

\* A set of natural numbers has a least one.
LEMMA LeastOfSet ==
    ASSUME NEW T \in SUBSET Nat, T # {}
    PROVE  \E x \in T : \A y \in T : x <= y
<1>1. PICK x \in T : \A y \in T : <<y, x>> \notin OpToRel(<, Nat)
  BY WFMin, NatLessThanWellFounded, Zenon
<1>2. \A y \in T : ~(y < x)
  <2> SUFFICES ASSUME NEW y \in T, y < x PROVE FALSE
    OBVIOUS
  <2>1. <<y, x>> \in Nat \X Nat /\ <<y, x>>[1] = y /\ <<y, x>>[2] = x
    BY <1>1
  <2>2. <<y, x>> \in OpToRel(<, Nat)
    BY <2>1, Zenon DEF OpToRel
  <2> QED
    BY <1>1, <2>2, Zenon
<1> QED
  BY <1>2

\* Induction, for a set of natural numbers.
LEMMA SetInduction ==
    ASSUME NEW S, 0 \in S, \A n \in Nat : n \in S => n + 1 \in S
    PROVE  Nat \subseteq S
<1> SUFFICES ASSUME Nat \ S # {} PROVE FALSE
  OBVIOUS
<1>1. PICK x \in Nat \ S : \A y \in Nat \ S : x <= y
  BY LeastOfSet
<1>2. x # 0 /\ x - 1 \in Nat /\ (x - 1) + 1 = x
  BY <1>1
<1>3. x - 1 \in S
  BY <1>1, <1>2
<1> QED
  BY <1>1, <1>2, <1>3

\* A finite set of natural numbers that is not empty has a greatest one.
LEMMA GreatestOfSet ==
    ASSUME NEW T \in SUBSET Nat, IsFiniteSet(T), T # {}
    PROVE  \E x \in T : \A y \in T : y <= x
<1> DEFINE HasBound(n) == \A f \in [1 .. n -> Nat] :
                             \E b \in Nat : \A i \in 1 .. n : f[i] <= b
           S == {n \in Nat : HasBound(n)}
<1>1. 0 \in S
  OBVIOUS
<1>2. ASSUME NEW n \in Nat, n \in S PROVE n + 1 \in S
  <2> SUFFICES HasBound(n + 1)
    <3> HIDE DEF HasBound
    <3> QED
      OBVIOUS
  <2> SUFFICES ASSUME NEW f \in [1 .. n + 1 -> Nat]
               PROVE  \E b \in Nat : \A i \in 1 .. n + 1 : f[i] <= b
    OBVIOUS
  <2> DEFINE g == [i \in 1 .. n |-> f[i]]
  <2>1. g \in [1 .. n -> Nat]
    OBVIOUS
  <2>2. PICK b \in Nat : \A i \in 1 .. n : g[i] <= b
    BY <1>2, <2>1
  <2>3. f[n + 1] \in Nat
    OBVIOUS
  <2>4. \A i \in 1 .. n + 1 : f[i] <= b + f[n + 1]
    <3> SUFFICES ASSUME NEW i \in 1 .. n + 1 PROVE f[i] <= b + f[n + 1]
      OBVIOUS
    <3>1. CASE i = n + 1
      BY <2>3, <3>1
    <3>2. CASE i # n + 1
      <4>1. i \in 1 .. n /\ g[i] = f[i] /\ f[i] \in Nat
        BY <3>2
      <4> QED
        BY <2>2, <2>3, <4>1
    <3> QED
      BY <3>1, <3>2
  <2>5. b + f[n + 1] \in Nat
    BY <2>3
  <2> WITNESS b + f[n + 1] \in Nat
  <2> QED
    BY <2>4
<1>3. Nat \subseteq S
  <2> HIDE DEF S
  <2> QED
    BY <1>1, <1>2, SetInduction
<1>4. PICK b \in Nat : \A y \in T : y <= b
  <2>1. Cardinality(T) \in Nat /\ ExistsBijection(1 .. Cardinality(T), T)
    BY FS_CardinalityType
  <2>2. PICK f \in [1 .. Cardinality(T) -> T] :
           \A y \in T : \E i \in 1 .. Cardinality(T) : f[i] = y
    BY <2>1 DEF ExistsBijection, Bijection, Surjection, Injection
  <2>3. f \in [1 .. Cardinality(T) -> Nat]
    OBVIOUS
  <2>4. PICK b \in Nat : \A i \in 1 .. Cardinality(T) : f[i] <= b
    BY <1>3, <2>1, <2>3
  <2> QED
    BY <2>2, <2>4
<1> DEFINE Bounds == {n \in Nat : \A y \in T : y <= n}
<1>5. PICK x \in Bounds : \A n \in Bounds : x <= n
  <2>1. Bounds \in SUBSET Nat /\ Bounds # {}
    BY <1>4
  <2> HIDE DEF Bounds
  <2> QED
    BY <2>1, LeastOfSet
<1>6. x \in T
  <2> SUFFICES ASSUME x \notin T PROVE FALSE
    OBVIOUS
  <2>1. \A y \in T : y < x
    BY <1>5
  <2>2. PICK y \in T : y < x
    BY <2>1
  <2>3. x - 1 \in Nat /\ \A z \in T : z <= x - 1
    BY <1>5, <2>1, <2>2
  <2> QED
    BY <1>5, <2>3
<1> QED
  BY <1>5, <1>6

-----------------------------------------------------------------------------
(* Tables. *)

\* A slice of n entries.
LEMMA TableOf ==
    ASSUME NEW n \in Nat, NEW f \in [0 .. n - 1 -> Entries], NEW c \in Nat, n <= c
    PROVE  /\ IsTable([slot |-> f, cap |-> c])
           /\ Length([slot |-> f, cap |-> c]) = n
<1>1. Cardinality(0 .. n - 1) = n
  <2>1. Cardinality(0 .. n - 1) = IF 0 > n - 1 THEN 0 ELSE n - 1 - 0 + 1
    BY FS_Interval
  <2> QED
    BY <2>1
<1>2. Length([slot |-> f, cap |-> c]) = n
  BY <1>1 DEF Length
<1> QED
  BY <1>2 DEF IsTable

\* The slots of a slice are numbered from 0.
LEMMA TableParts ==
    ASSUME NEW t, IsTable(t)
    PROVE  /\ Length(t) \in Nat /\ t.cap \in Nat /\ Length(t) <= t.cap
           /\ DOMAIN t.slot = 0 .. Length(t) - 1
           /\ \A x \in DOMAIN t.slot : t.slot[x] \in Entries
BY DEF IsTable

\* Other entries in the slots of a slice.
LEMMA TableRefilled ==
    ASSUME NEW t, IsTable(t), NEW f \in [DOMAIN t.slot -> Entries]
    PROVE  /\ IsTable([t EXCEPT !.slot = f])
           /\ Length([t EXCEPT !.slot = f]) = Length(t)
<1>1. t = [slot |-> t.slot, cap |-> t.cap]
  BY DEF IsTable
<1>2. [t EXCEPT !.slot = f] = [slot |-> f, cap |-> t.cap]
  BY <1>1
<1> DEFINE n == Length(t)
           c == t.cap
<1>3. n \in Nat /\ c \in Nat /\ n <= c /\ f \in [0 .. n - 1 -> Entries]
  BY TableParts
<1>4. [t EXCEPT !.slot = f] = [slot |-> f, cap |-> c]
  BY <1>2
<1> HIDE DEF n, c
<1>5. /\ IsTable([slot |-> f, cap |-> c])
      /\ Length([slot |-> f, cap |-> c]) = n
  BY <1>3, TableOf
<1> QED
  BY <1>4, <1>5 DEF n

LEMMA NoTableOK == IsTable(NoTable) /\ Length(NoTable) = 0
<1> DEFINE f == [x \in {} |-> Empty]
           n == 0
<1>1. n \in Nat /\ n <= n /\ f \in [0 .. n - 1 -> Entries]
  OBVIOUS
<1>2. NoTable = [slot |-> f, cap |-> n]
  BY DEF NoTable
<1> HIDE DEF f, n
<1>3. /\ IsTable([slot |-> f, cap |-> n])
      /\ Length([slot |-> f, cap |-> n]) = n
  BY <1>1, TableOf
<1> QED
  BY <1>2, <1>3 DEF n

\* Memory that is not zeroed holds entries.
LEMMA MemoryEntries == {Empty} \cup Stale \subseteq Entries
BY StaleAssumption DEF Entries

\* extendXrefTable: the capacity grows with the length.
LEMMA ExtendedTable ==
    ASSUME NEW t, IsTable(t), NEW n \in Nat, NEW mem \in Memory(NewSlots(t, n))
    PROVE  /\ IsTable(Extended(t, n, mem))
           /\ n <= Length(Extended(t, n, mem))
           /\ Length(t) <= Length(Extended(t, n, mem))
<1>1. CASE n <= Length(t)
  BY <1>1, TableParts DEF Extended
<1>2. CASE ~(n <= Length(t))
  <2> DEFINE f == [x \in 0 .. n - 1 |->
                      IF x \in DOMAIN t.slot THEN t.slot[x] ELSE mem[x]]
             c == IF n > t.cap THEN (n * 11) \div 10 ELSE t.cap
  <2>1. f \in [0 .. n - 1 -> Entries]
    BY TableParts, MemoryEntries DEF Memory, NewSlots
  <2>2. c \in Nat /\ n <= c
    BY TableParts
  <2>3. Extended(t, n, mem) = [slot |-> f, cap |-> c]
    BY <1>2 DEF Extended
  <2> HIDE DEF f, c
  <2> QED
    BY <1>2, <2>1, <2>2, <2>3, TableOf, TableParts
<1> QED
  BY <1>1, <1>2

\* Every row of a section gives an entry.
LEMMA RowGivesEntry ==
    ASSUME NEW s, IsSection(s), NEW o \in Offsets, NEW x \in DOMAIN s.rows,
           NEW buffer, s.kind = "table" \/ buffer \in Memory(CutRows(s))
    PROVE  RowEntry(s, o, x, buffer) \in Entries
<1> DEFINE m == s.rows[x]
<1>1. m \in Mention
  BY DEF IsSection
<1>2. CASE m.type = "cut"
  <2>1. s.kind # "table"
    BY <1>2 DEF IsSection
  <2>2. buffer[x] \in Entries
    BY <1>2, <2>1, MemoryEntries DEF Memory, CutRows
  <2> QED
    BY <1>2, <2>2 DEF RowEntry, Entries
<1>3. CASE m.type = "free"
  <2>1. RowEntry(s, o, x, buffer) = IF s.kind = "table" THEN Empty ELSE Free
    BY <1>3 DEF RowEntry
  <2> QED
    BY <2>1 DEF Entries
<1>4. CASE m.type \in {"used", "packed"}
  <2>1. RowEntry(s, o, x, buffer) = Entry(o, m)
    BY <1>4 DEF RowEntry
  <2>2. m.check \in {"none", "good", "near", "lost"}
    BY <1>1, <1>4 DEF Mention
  <2> QED
    BY <1>4, <2>1, <2>2 DEF Entries, Entry
<1>5. CASE m.type = "other"
  <2>1. RowEntry(s, o, x, buffer) = Empty
    BY <1>5 DEF RowEntry
  <2> QED
    BY <2>1 DEF Entries
<1> QED
  BY <1>1, <1>2, <1>3, <1>4, <1>5 DEF Mention

\* setIfEmpty, processXrefChunk.
LEMMA FillTable ==
    ASSUME NEW t, IsTable(t), NEW s, IsSection(s), NEW o \in Offsets,
           NEW buffer, s.kind = "table" \/ buffer \in Memory(CutRows(s))
    PROVE  /\ IsTable(Fill(t, s, o, buffer))
           /\ Length(Fill(t, s, o, buffer)) = Length(t)
<1> DEFINE f == [x \in DOMAIN t.slot |->
                    IF t.slot[x] = Empty /\ x \in DOMAIN s.rows
                    THEN RowEntry(s, o, x, buffer) ELSE t.slot[x]]
<1>1. f \in [DOMAIN t.slot -> Entries]
  BY TableParts, RowGivesEntry
<1>2. Fill(t, s, o, buffer) = [t EXCEPT !.slot = f]
  BY DEF Fill
<1> HIDE DEF f
<1> QED
  BY <1>1, <1>2, TableRefilled

\* validateAndRepairXrefEntries.
LEMMA RepairedTable ==
    ASSUME NEW t, IsTable(t)
    PROVE  IsTable(Repaired(t)) /\ Length(Repaired(t)) = Length(t)
<1> DEFINE f == [x \in DOMAIN t.slot |->
                    IF t.slot[x].check = "near"
                    THEN [t.slot[x] EXCEPT
                             !.check = IF t.slot[x].type = "used" THEN "good"
                                       ELSE "moved"]
                    ELSE t.slot[x]]
<1>1. ASSUME NEW e \in Entries, e.check = "near"
      PROVE  [e EXCEPT !.check = IF e.type = "used" THEN "good" ELSE "moved"]
                \in Entries
  <2>1. e \in [sec : Offsets \cup {None}, type : {"used", "packed"},
               check : {"none", "good", "near", "lost", "moved"}]
    BY <1>1 DEF Entries, Empty, Free
  <2> QED
    BY <2>1 DEF Entries
<1>2. f \in [DOMAIN t.slot -> Entries]
  BY <1>1, TableParts
<1>3. Repaired(t) = [t EXCEPT !.slot = f]
  BY DEF Repaired
<1> HIDE DEF f
<1> QED
  BY <1>2, <1>3, TableRefilled

\* mergeXrefTables.
LEMMA MergedTable ==
    ASSUME NEW dest, IsTable(dest), NEW src, IsTable(src),
           NEW mem \in Memory(NewSlots(dest, Length(src)))
    PROVE  IsTable(Merged(dest, src, mem))
<1> DEFINE t == Extended(dest, Length(src), mem)
           f == [x \in DOMAIN t.slot |->
                    IF /\ x \in Present(src)
                       /\ t.slot[x] = Empty \/ (t.slot[x] # Free /\ src.slot[x] # Free)
                    THEN src.slot[x] ELSE t.slot[x]]
<1>1. IsTable(t)
  BY TableParts, ExtendedTable
<1>2. Merged(dest, src, mem) = [t EXCEPT !.slot = f]
  BY DEF Merged
<1> HIDE DEF t
<1>3. f \in [DOMAIN t.slot -> Entries]
  BY <1>1, TableParts DEF Present
<1> HIDE DEF f
<1> QED
  BY <1>1, <1>2, <1>3, TableRefilled

-----------------------------------------------------------------------------
(* Sections. *)

\* The ranges of a section end after its last row.
LEMMA RangeEndTyped ==
    ASSUME NEW s, IsSection(s)
    PROVE  /\ RangeEnd(s) \in Nat
           /\ DOMAIN s.rows \subseteq 0 .. RangeEnd(s) - 1
<1>1. DOMAIN s.rows \subseteq Objects
  BY DEF IsSection
<1>2. DOMAIN s.rows \in SUBSET Nat /\ IsFiniteSet(DOMAIN s.rows)
  BY <1>1, XrefAssumption, FS_Subset
<1>3. CASE DOMAIN s.rows = {}
  BY <1>3 DEF RangeEnd
<1>4. CASE DOMAIN s.rows # {}
  <2> DEFINE T == DOMAIN s.rows
             last == CHOOSE x \in T : \A y \in T : y <= x
  <2>1. \E x \in T : \A y \in T : y <= x
    BY <1>2, <1>4, GreatestOfSet
  <2>2. last \in T /\ \A y \in T : y <= last
    BY <2>1
  <2>3. RangeEnd(s) = 1 + last
    BY <1>4 DEF RangeEnd
  <2> QED
    BY <1>2, <2>2, <2>3
<1> QED
  BY <1>3, <1>4

\* estimateXrefCapacity: the first table of a stream has room for Size entries when
\* the ranges cover it.
LEMMA CapacityTyped ==
    ASSUME NEW s, IsSection(s), s.size \in Nat
    PROVE  /\ EstimateCapacity(s) \in Nat
           /\ ((s.hasIndex => s.size <= RangeEnd(s)) => s.size <= EstimateCapacity(s))
<1> DEFINE end == RangeEnd(s)
           n == IF s.hasIndex THEN end + (end \div 20) ELSE (s.size * 120) \div 100
<1>1. end \in Nat
  BY RangeEndTyped
<1>2. EstimateCapacity(s) = IF n <= 0 THEN 1 ELSE n
  BY DEF EstimateCapacity
<1> HIDE DEF end
<1>3. n \in Nat /\ ((s.hasIndex => s.size <= end) => s.size <= n)
  <2>1. (s.size * 120) \div 100 \in Nat /\ s.size <= (s.size * 120) \div 100
    OBVIOUS
  <2>2. end \div 20 \in Nat /\ end <= end + (end \div 20)
    BY <1>1
  <2> QED
    BY <1>1, <2>1, <2>2
<1> HIDE DEF n
<1> QED
  BY <1>2, <1>3 DEF end

-----------------------------------------------------------------------------
(* Chains. *)

\* A chain begins at its first section.
LEMMA ChainSelf ==
    ASSUME NEW o \in Offsets
    PROVE  o \in Chain(o)
BY DEF Chain

\* It goes on along the link of each of its sections.
LEMMA ChainStep ==
    ASSUME NEW o, NEW p \in Chain(o), Older(p) \in Offsets
    PROVE  Older(p) \in Chain(o)
<1> DEFINE q == Older(p)
<1> SUFFICES ASSUME NEW S \in SUBSET (Offsets \ {q}), o \in S
             PROVE  \E r \in S : Older(r) \notin S \cup {None}
  BY DEF Chain
<1>1. CASE p \in S
  <2>1. q \notin S \cup {None}
    BY XrefAssumption
  <2> HIDE DEF q
  <2> QED
    BY <1>1, <2>1 DEF q
<1>2. CASE p \notin S
  BY <1>2 DEF Chain
<1> QED
  BY <1>1, <1>2

\* A set that the links do not leave has the chain of each of its sections.
LEMMA ChainInClosed ==
    ASSUME NEW V \in SUBSET Offsets, \A q \in V : Older(q) \in V \cup {None},
           NEW o \in V
    PROVE  Chain(o) \subseteq V
BY DEF Chain

\* The chain of Prev links stays among the revisions.
LEMMA RevisionsClosed ==
    /\ file.start \in Offsets => file.start \in Revisions
    /\ \A o \in Revisions : Section(o).prev \in Offsets =>
                               Section(o).prev \in Revisions
<1>1. ASSUME NEW o \in Revisions, Section(o).prev \in Offsets
      PROVE  Section(o).prev \in Revisions
  <2>1. o \in Offsets
    BY DEF Revisions, Chain
  <2>2. Older(o) = Section(o).prev
    BY <1>1, <2>1 DEF Older
  <2> QED
    BY <1>1, <2>2, ChainStep DEF Revisions
<1> QED
  BY <1>1, ChainSelf DEF Revisions

-----------------------------------------------------------------------------
(* The reader. *)

LEMMA InitInv == Init => Inv
<1> SUFFICES ASSUME Init PROVE Inv
  OBVIOUS
<1>1. file.start \in Offsets /\ \A o \in Offsets : IsSection(Section(o))
  BY XrefAssumption DEF Init, Section
<1>2. IsTable(table) /\ IsTable(stm)
  BY NoTableOK DEF Init
<1>3. TypeOK
  BY <1>1, <1>2, TableParts DEF Init, TypeOK
<1>4. /\ pc = "start" /\ at = file.start
      /\ StreamOK /\ TablesOK /\ StreamFaultsTolerated /\ NoPanicOnCoveredIndex
  BY DEF Init, StreamOK, TablesOK, StreamFaultsTolerated, NoPanicOnCoveredIndex
<1> QED
  BY <1>1, <1>2, <1>3, <1>4 DEF Inv

Labels == {"start", "table", "trailer", "stream", "streamPrev", "prevStream",
           "merge", "prev", "done", "error", "panic"}

\* All links stay inside the file, and Index covers Size.
Covered ==
    \A o \in Offsets :
        /\ Section(o).kind # "eof"
        /\ Section(o).kind = "stream" /\ Section(o).hasIndex
              => Section(o).size <= RangeEnd(Section(o))

\* The sections do not change.
LEMMA FileKept ==
    ASSUME file' = file
    PROVE  /\ \A o : Section(o)' = Section(o)
           /\ Revisions' = Revisions
           /\ Covered' <=> Covered
BY DEF Section, Revisions, Chain, Older, Covered

\* The parts of the invariant that a step may disturb.
LEMMA Assemble ==
    ASSUME Inv, file' = file, pc' \in Labels \ {"start"}, at' \in Offsets,
           IsTable(table'), IsTable(stm'),
           trailer' \in Offsets \cup {None}, stmHead' \in Offsets \cup {None},
           hybrid' \in BOOLEAN, refused' \in BOOLEAN,
           pc' \in {"trailer", "prev", "done"} => trailer' \in Offsets,
           StreamOK', TablesOK', StreamFaultsTolerated',
           pc' = "panic" => ~Covered
    PROVE  Inv'
<1>1. file'.start \in Offsets /\ \A o \in Offsets : IsSection(Section(o)')
  BY FileKept DEF Inv
<1>2. TypeOK'
  BY TableParts DEF Labels, TypeOK
<1>3. NoPanicOnCoveredIndex'
  BY FileKept DEF NoPanicOnCoveredIndex, Covered, Section
<1> QED
  BY <1>1, <1>2, <1>3 DEF Inv, IsTable, Length, Labels

\* An error of an XRefStm is given up, one of a file that ends in a stream ends
\* the reading.
LEMMA StreamFailsInv ==
    ASSUME Inv, file' = file, StreamFails, refused' \in BOOLEAN,
           pc \in {"stream", "streamPrev", "prevStream", "merge"}
    PROVE  Inv'
<1>1. /\ pc' = IF hybrid THEN "prev" ELSE "error"
      /\ stm' = NoTable /\ hybrid' = FALSE
      /\ UNCHANGED <<at, table, trailer, stmHead>>
  BY DEF StreamFails
<1>2. StreamOK'
  BY <1>1 DEF StreamOK
<1>3. Section(file.start).kind = "table" => pc' = "prev"
  BY <1>1 DEF Inv, TablesOK
<1>4. TablesOK' /\ StreamFaultsTolerated'
  BY <1>1, <1>3, FileKept DEF Inv, TablesOK, StreamFaultsTolerated, Section
<1>5. pc' = "prev" => trailer' \in Offsets
  BY <1>1 DEF Inv, StreamOK
<1>6. IsTable(table') /\ IsTable(stm')
  BY <1>1, NoTableOK DEF Inv
<1> QED
  BY <1>1, <1>2, <1>4, <1>5, <1>6, Assemble DEF Inv, TypeOK, Labels

\* The reading ends in an error for want of memory.
LEMMA RefusedInv ==
    ASSUME Inv, file' = file, Fail, refused' = TRUE
    PROVE  Inv'
<1>1. pc' = "error" /\ UNCHANGED <<at, table, trailer, hybrid, stm, stmHead>>
  BY DEF Fail
<1>2. StreamOK' /\ TablesOK' /\ StreamFaultsTolerated'
  BY <1>1, FileKept DEF Inv, StreamOK, TablesOK, StreamFaultsTolerated, Section
<1> QED
  BY <1>1, <1>2, Assemble DEF Inv, TypeOK, Labels

\* The lexer panics, at a place that no covered file has.
LEMMA PanicInv ==
    ASSUME Inv, file' = file, Panic, refused' = refused, ~Covered
    PROVE  Inv'
<1>1. pc' = "panic" /\ UNCHANGED <<at, table, trailer, hybrid, stm, stmHead>>
  BY DEF Panic
<1>2. StreamOK' /\ TablesOK' /\ StreamFaultsTolerated'
  BY <1>1, FileKept DEF Inv, StreamOK, TablesOK, StreamFaultsTolerated, Section
<1> QED
  BY <1>1, <1>2, Assemble DEF Inv, TypeOK, Labels

LEMMA StartInv ==
    ASSUME Inv, Start
    PROVE  Inv'
<1>1. file' = file /\ pc = "start" /\ at = file.start /\ at \in Offsets
  BY DEF Start, Inv, TypeOK
<1>2. Here.kind \in {"table", "stream", "junk", "eof"} /\ Here = Section(file.start)
  BY <1>1 DEF Inv, IsSection, SectionKinds, Here
<1>3. CASE Here.kind = "eof"
  BY <1>1, <1>3, PanicInv DEF Start, Covered, Here
<1>4. CASE Here.kind = "junk"
  <2>1. pc' = "error" /\ UNCHANGED <<at, table, trailer, hybrid, stm, stmHead, refused>>
    BY <1>4 DEF Start, Fail
  <2>2. StreamOK' /\ TablesOK' /\ StreamFaultsTolerated'
    BY <1>1, <1>2, <1>4, <2>1 DEF Inv, StreamOK, TablesOK, StreamFaultsTolerated, Section
  <2> QED
    BY <1>1, <2>1, <2>2, Assemble DEF Inv, TypeOK, Labels
<1>5. CASE Here.kind = "stream"
  <2>1. pc' = "stream" /\ UNCHANGED <<at, table, trailer, hybrid, stm, stmHead, refused>>
    BY <1>5 DEF Start
  <2>2. StreamOK' /\ TablesOK' /\ StreamFaultsTolerated'
    BY <1>1, <1>2, <1>5, <2>1 DEF Inv, StreamOK, TablesOK, StreamFaultsTolerated, Section
  <2> QED
    BY <1>1, <2>1, <2>2, Assemble DEF Inv, TypeOK, Labels
<1>6. CASE Here.kind = "table"
  <2>1. CASE Fail /\ refused' = TRUE
    BY <1>1, <2>1, RefusedInv
  <2>2. CASE /\ pc' = "table" /\ refused' = refused
             /\ table' = [NoTable EXCEPT !.cap = InitialCapacity]
             /\ UNCHANGED <<at, trailer, hybrid, stm, stmHead>>
    <3>1. IsTable(table')
      <4> DEFINE f == [x \in {} |-> Empty]
                 n == 0
                 c == InitialCapacity
      <4>1. n \in Nat /\ c \in Nat /\ n <= c /\ f \in [0 .. n - 1 -> Entries]
        BY XrefAssumption
      <4>2. table' = [slot |-> f, cap |-> c]
        BY <2>2 DEF NoTable
      <4> HIDE DEF f, n, c
      <4> QED
        BY <4>1, <4>2, TableOf
    <3>2. StreamOK' /\ StreamFaultsTolerated'
      BY <1>1, <2>2 DEF Inv, StreamOK, StreamFaultsTolerated
    <3>3. at' \in Revisions'
      BY <1>1, <2>2, FileKept, RevisionsClosed
    <3>4. TablesOK'
      BY <1>1, <1>2, <1>6, <2>2, <3>3, FileKept DEF Inv, TablesOK, Section
    <3> QED
      BY <1>1, <2>2, <3>1, <3>2, <3>4, Assemble DEF Inv, TypeOK, Labels
  <2> QED
    BY <1>6, <2>1, <2>2 DEF Start, Allocate
<1> QED
  BY <1>2, <1>3, <1>4, <1>5, <1>6

LEMMA ReadTableInv ==
    ASSUME Inv, ReadTable
    PROVE  Inv'
<1>1. file' = file /\ pc = "table" /\ at \in Offsets
  BY DEF ReadTable, Inv, TypeOK
<1>2. Here.kind \in {"table", "stream", "junk", "eof"} /\ IsSection(Here)
  BY <1>1 DEF Inv, IsSection, SectionKinds, Here
<1>3. CASE Here.kind = "eof"
  BY <1>1, <1>3, PanicInv DEF ReadTable, Covered, Here
<1>4. CASE Here.kind \in {"junk", "stream"}
  <2>1. pc' = "error" /\ UNCHANGED <<at, table, trailer, hybrid, stm, stmHead, refused>>
    BY <1>4 DEF ReadTable, Fail
  <2>2. Section(file.start).kind = "table" => at \in Revisions
    BY <1>1 DEF Inv, TablesOK
  <2>3. StreamFaultsTolerated'
    BY <1>1, <1>4, <2>2, FileKept DEF StreamFaultsTolerated, Here
  <2>4. StreamOK' /\ TablesOK'
    BY <1>1, <2>1, FileKept DEF Inv, StreamOK, TablesOK, Section
  <2> QED
    BY <1>1, <2>1, <2>3, <2>4, Assemble DEF Inv, TypeOK, Labels
<1>5. CASE Here.kind = "table"
  <2>1. CASE Fail /\ refused' = TRUE
    BY <1>1, <2>1, RefusedInv
  <2>2. CASE /\ \E mem \in Memory(NewSlots(table, RangeEnd(Here))) :
                   table' = Fill(Extended(table, RangeEnd(Here), mem), Here, at, << >>)
             /\ trailer' = at
             /\ pc' = "trailer"
             /\ UNCHANGED <<at, hybrid, stm, stmHead, refused>>
    <3>1. IsTable(table')
      <4>1. PICK mem \in Memory(NewSlots(table, RangeEnd(Here))) :
                   table' = Fill(Extended(table, RangeEnd(Here), mem), Here, at, << >>)
        BY <2>2
      <4>2. RangeEnd(Here) \in Nat
        BY <1>2, RangeEndTyped
      <4>3. IsTable(Extended(table, RangeEnd(Here), mem))
        BY <4>2, ExtendedTable DEF Inv
      <4> QED
        BY <1>1, <1>2, <1>5, <4>1, <4>3, FillTable
    <3>2. StreamOK' /\ StreamFaultsTolerated'
      BY <1>1, <2>2 DEF Inv, StreamOK, StreamFaultsTolerated
    <3>3. TablesOK'
      BY <1>1, <2>2, FileKept DEF Inv, TablesOK, Section
    <3> QED
      BY <1>1, <2>2, <3>1, <3>2, <3>3, Assemble DEF Inv, TypeOK, Labels
  <2> QED
    BY <1>5, <2>1, <2>2 DEF ReadTable, Allocate
<1> QED
  BY <1>2, <1>3, <1>4, <1>5

LEMMA TrailerInv ==
    ASSUME Inv, Trailer
    PROVE  Inv'
<1>1. /\ pc = "trailer" /\ trailer \in Offsets
      /\ UNCHANGED <<file, table, trailer, stm, stmHead, refused>>
  BY DEF Trailer, Inv, TypeOK
<1>2. \/ pc' = "stream" /\ at' \in Offsets /\ hybrid' = TRUE
      \/ pc' = "prev" /\ UNCHANGED <<at, hybrid>>
  BY DEF Trailer
<1>3. StreamOK' /\ TablesOK' /\ StreamFaultsTolerated'
  BY <1>1, <1>2, FileKept DEF Inv, StreamOK, TablesOK, StreamFaultsTolerated, Section
<1> QED
  BY <1>1, <1>2, <1>3, Assemble DEF Inv, TypeOK, Labels

\* readXrefStreamData.
LEMMA ReadRowsInv ==
    ASSUME Inv, file' = file, pc \in {"stream", "prevStream"},
           IsSection(Here), at \in Offsets,
           NEW t, IsTable(t), NEW head \in Offsets, ReadRows(t, head)
    PROVE  Inv'
<1>1. CASE StreamFails /\ refused' = TRUE
  BY <1>1, StreamFailsInv
<1>2. CASE /\ \E mem \in Memory(NewSlots(t, RangeEnd(Here))),
                 buffer \in Memory(CutRows(Here)) :
                 stm' = Fill(Extended(t, RangeEnd(Here), mem), Here, at, buffer)
           /\ stmHead' = head
           /\ pc' = "streamPrev"
           /\ UNCHANGED <<at, table, trailer, hybrid, refused>>
  <2>1. IsTable(stm')
    <3>1. PICK mem \in Memory(NewSlots(t, RangeEnd(Here))),
               buffer \in Memory(CutRows(Here)) :
                 stm' = Fill(Extended(t, RangeEnd(Here), mem), Here, at, buffer)
      BY <1>2
    <3>2. RangeEnd(Here) \in Nat
      BY RangeEndTyped
    <3>3. IsTable(Extended(t, RangeEnd(Here), mem))
      BY <3>2, ExtendedTable
    <3> QED
      BY <3>1, <3>3, FillTable
  <2>2. StreamOK' /\ TablesOK' /\ StreamFaultsTolerated'
    BY <1>2, FileKept DEF Inv, StreamOK, TablesOK, StreamFaultsTolerated, Section
  <2> QED
    BY <1>2, <2>1, <2>2, Assemble DEF Inv, TypeOK, Labels
<1> QED
  BY <1>1, <1>2 DEF ReadRows, Allocate

LEMMA ReadStreamInv ==
    ASSUME Inv, ReadStream
    PROVE  Inv'
<1>1. file' = file /\ pc = "stream" /\ at \in Offsets
  BY DEF ReadStream, Inv, TypeOK
<1>2. Here.kind \in {"table", "stream", "junk", "eof"} /\ IsSection(Here)
  BY <1>1 DEF Inv, IsSection, SectionKinds, Here
<1>3. CASE Here.kind = "eof"
  <2>1. Panic /\ refused' = refused
    BY <1>3 DEF ReadStream, Panic
  <2>2. ~Covered
    BY <1>1, <1>3 DEF Covered, Here
  <2> QED
    BY <1>1, <2>1, <2>2, PanicInv
<1>4. CASE \/ Here.kind \in {"junk", "table"}
           \/ Here.kind = "stream" /\ Here.size = NoSize
  <2>1. StreamFails /\ refused' = refused
    BY <1>4 DEF ReadStream
  <2> QED
    BY <1>1, <2>1, StreamFailsInv DEF Inv, TypeOK
<1>5. CASE Here.kind = "stream" /\ Here.size # NoSize
  <2>1. Here.size \in Nat
    BY <1>2, <1>5 DEF IsSection
  <2>2. /\ EstimateCapacity(Here) \in Nat
        /\ ((Here.hasIndex => Here.size <= RangeEnd(Here)) =>
              Here.size <= EstimateCapacity(Here))
    BY <1>2, <2>1, CapacityTyped
  <2>3. CASE StreamFails /\ refused' = TRUE
    BY <1>1, <2>3, StreamFailsInv
  <2>4. CASE Here.size > EstimateCapacity(Here) /\ Panic /\ UNCHANGED refused
    <3>1. ~Covered
      BY <1>1, <1>5, <2>1, <2>2, <2>4 DEF Covered, Here
    <3> QED
      BY <1>1, <2>4, <3>1, PanicInv
  <2>5. CASE /\ Here.size <= EstimateCapacity(Here)
             /\ \E mem \in Memory(0 .. Here.size - 1) :
                   ReadRows([slot |-> mem, cap |-> EstimateCapacity(Here)], at)
    <3>1. PICK mem \in Memory(0 .. Here.size - 1) :
             ReadRows([slot |-> mem, cap |-> EstimateCapacity(Here)], at)
      BY <2>5
    <3>2. mem \in [0 .. Here.size - 1 -> Entries]
      BY MemoryEntries DEF Memory
    <3>3. IsTable([slot |-> mem, cap |-> EstimateCapacity(Here)])
      BY <2>1, <2>2, <2>5, <3>2, TableOf
    <3> QED
      BY <1>1, <1>2, <3>1, <3>3, ReadRowsInv
  <2> QED
    BY <1>5, <2>3, <2>4, <2>5 DEF ReadStream
<1> QED
  BY <1>2, <1>3, <1>4, <1>5

LEMMA FollowStreamPrevInv ==
    ASSUME Inv, FollowStreamPrev
    PROVE  Inv'
<1>1. /\ file' = file /\ refused' = refused /\ pc = "streamPrev"
      /\ at \in Offsets /\ stmHead \in Offsets
  BY DEF FollowStreamPrev, Inv, TypeOK, StreamOK
<1>2. Here.prev \in Offsets \cup {None, BadLink}
  BY <1>1 DEF Inv, IsSection, Links, Here
<1>3. Here.prev \in Offsets => Here.prev # BadLink /\ Here.prev # None
  BY XrefAssumption DEF BadLink, None
<1>4. CASE StreamFails
  BY <1>1, <1>4, StreamFailsInv DEF Inv, TypeOK
<1>5. CASE /\ pc' = "prevStream" /\ at' \in Offsets
           /\ UNCHANGED <<table, trailer, hybrid, stm, stmHead>>
  <2>1. StreamOK' /\ TablesOK' /\ StreamFaultsTolerated'
    BY <1>1, <1>5, FileKept DEF Inv, StreamOK, TablesOK, StreamFaultsTolerated, Section
  <2> QED
    BY <1>1, <1>5, <2>1, Assemble DEF Inv, TypeOK, Labels
<1>6. CASE /\ hybrid /\ pc' = "merge"
           /\ UNCHANGED <<at, table, trailer, hybrid, stm, stmHead>>
  <2>1. StreamOK' /\ TablesOK' /\ StreamFaultsTolerated'
    BY <1>1, <1>6, FileKept DEF Inv, StreamOK, TablesOK, StreamFaultsTolerated, Section
  <2> QED
    BY <1>1, <1>6, <2>1, Assemble DEF Inv, TypeOK, Labels
<1>7. CASE /\ ~hybrid /\ pc' = "done" /\ table' = stm /\ trailer' = stmHead
           /\ UNCHANGED <<at, hybrid, stm, stmHead>>
  <2>1. Section(file.start).kind # "table"
    BY <1>1, <1>7 DEF Inv, TablesOK
  <2>2. StreamOK' /\ TablesOK' /\ StreamFaultsTolerated'
    BY <1>1, <1>7, <2>1, FileKept DEF Inv, StreamOK, TablesOK, StreamFaultsTolerated, Section
  <2> QED
    BY <1>1, <1>7, <2>2, Assemble DEF Inv, TypeOK, Labels
<1> QED
  BY <1>2, <1>3, <1>4, <1>5, <1>6, <1>7 DEF FollowStreamPrev

LEMMA ReadPrevStreamInv ==
    ASSUME Inv, ReadPrevStream
    PROVE  Inv'
<1>1. /\ file' = file /\ pc = "prevStream" /\ at \in Offsets /\ stmHead \in Offsets
  BY DEF ReadPrevStream, Inv, TypeOK, StreamOK
<1>2. Here.kind \in {"table", "stream", "junk", "eof"} /\ IsSection(Here)
  BY <1>1 DEF Inv, IsSection, SectionKinds, Here
<1>3. CASE Here.kind = "eof"
  <2>1. Panic /\ refused' = refused
    BY <1>3 DEF ReadPrevStream, Panic
  <2>2. ~Covered
    BY <1>1, <1>3 DEF Covered, Here
  <2> QED
    BY <1>1, <2>1, <2>2, PanicInv
<1>4. CASE \/ Here.kind \in {"junk", "table"}
           \/ Here.kind = "stream" /\ Here.size > Section(stmHead).size
  <2>1. StreamFails /\ refused' = refused
    BY <1>4 DEF ReadPrevStream
  <2> QED
    BY <1>1, <2>1, StreamFailsInv DEF Inv, TypeOK
<1>5. CASE Here.kind = "stream" /\ ~(Here.size > Section(stmHead).size)
  <2>1. ReadRows(stm, stmHead)
    BY <1>5 DEF ReadPrevStream
  <2> QED
    BY <1>1, <1>2, <2>1, ReadRowsInv DEF Inv
<1> QED
  BY <1>2, <1>3, <1>4, <1>5

LEMMA RejectInv ==
    ASSUME Inv, Reject
    PROVE  Inv'
BY StreamFailsInv DEF Reject, Inv, TypeOK

LEMMA MergeInv ==
    ASSUME Inv, Merge
    PROVE  Inv'
<1>1. /\ pc = "merge" /\ pc' = "prev" /\ stm' = NoTable /\ hybrid' = FALSE
      /\ UNCHANGED <<file, at, trailer, stmHead>> /\ trailer \in Offsets
  BY DEF Merge, Inv, StreamOK
<1>2. /\ refused' \in BOOLEAN
      /\ \/ table' = table
         \/ \E mem \in Memory(NewSlots(table, Length(stm))) :
               table' = Merged(table, Repaired(stm), mem)
  BY DEF Merge, Allocate, Inv, TypeOK
<1>3. IsTable(table') /\ IsTable(stm')
  <2>1. IsTable(Repaired(stm)) /\ Length(Repaired(stm)) = Length(stm)
    BY RepairedTable DEF Inv
  <2>2. ASSUME NEW mem \in Memory(NewSlots(table, Length(stm))),
               table' = Merged(table, Repaired(stm), mem)
        PROVE  IsTable(table')
    BY <2>1, <2>2, MergedTable DEF Inv
  <2> QED
    BY <1>1, <1>2, <2>2, NoTableOK DEF Inv
<1>4. StreamOK' /\ TablesOK' /\ StreamFaultsTolerated'
  BY <1>1, FileKept DEF Inv, StreamOK, TablesOK, StreamFaultsTolerated, Section
<1> QED
  BY <1>1, <1>2, <1>3, <1>4, Assemble DEF Inv, TypeOK, Labels

LEMMA FollowPrevInv ==
    ASSUME Inv, FollowPrev
    PROVE  Inv'
<1>1. /\ pc = "prev" /\ pc' = "table" /\ at' = Section(trailer).prev /\ at' \in Offsets
      /\ UNCHANGED <<file, table, trailer, hybrid, stm, stmHead, refused>>
      /\ trailer \in Offsets
  BY DEF FollowPrev, Inv, TypeOK
<1>2. Section(file.start).kind = "table" => at' \in Revisions
  <2>1. trailer # None
    BY <1>1, XrefAssumption
  <2> QED
    BY <1>1, <2>1, RevisionsClosed DEF Inv, TablesOK
<1>3. StreamOK' /\ TablesOK' /\ StreamFaultsTolerated'
  BY <1>1, <1>2, FileKept DEF Inv, StreamOK, TablesOK, StreamFaultsTolerated, Section
<1> QED
  BY <1>1, <1>3, Assemble DEF Inv, TypeOK, Labels

LEMMA FinishInv ==
    ASSUME Inv, Finish
    PROVE  Inv'
<1> DEFINE s == Section(trailer)
<1>1. /\ pc = "prev" /\ s.prev \notin Offsets /\ trailer \in Offsets
      /\ UNCHANGED <<file, refused>>
  BY DEF Finish, Inv, TypeOK
<1>2. IsSection(s) /\ s.prev \in {None, BadLink}
  BY <1>1 DEF Inv, IsSection, Links
<1>3. CASE s.prev = BadLink \/ s.size = NoSize
  <2>1. pc' = "error" /\ UNCHANGED <<at, table, trailer, hybrid, stm, stmHead>>
    BY <1>3 DEF Finish, Fail
  <2>2. Section(file.start).kind = "table" => trailer \in Revisions
    <3>1. trailer # None
      BY <1>1, XrefAssumption
    <3> QED
      BY <3>1 DEF Inv, TablesOK
  <2>3. StreamFaultsTolerated'
    BY <1>1, <1>2, <1>3, <2>2, FileKept DEF StreamFaultsTolerated
  <2>4. StreamOK' /\ TablesOK'
    BY <1>1, <2>1, FileKept DEF Inv, StreamOK, TablesOK, Section
  <2> QED
    BY <1>1, <2>1, <2>3, <2>4, Assemble DEF Inv, TypeOK, Labels
<1>4. CASE s.prev # BadLink /\ s.size # NoSize
  <2> DEFINE f == [x \in {y \in DOMAIN table.slot : y < s.size} |-> table.slot[x]]
             n == IF s.size < Length(table) THEN s.size ELSE Length(table)
             c == table.cap
  <2>1. /\ pc' = "done" /\ table' = [table EXCEPT !.slot = f]
        /\ UNCHANGED <<at, trailer, hybrid, stm, stmHead>>
    BY <1>4 DEF Finish
  <2>2. IsTable(table')
    <3>1. /\ Length(table) \in Nat /\ table.cap \in Nat /\ Length(table) <= table.cap
          /\ DOMAIN table.slot = 0 .. Length(table) - 1
          /\ \A x \in DOMAIN table.slot : table.slot[x] \in Entries
          /\ table = [slot |-> table.slot, cap |-> table.cap]
      BY TableParts DEF Inv, IsTable
    <3>2. s.size \in Nat
      BY <1>2, <1>4 DEF IsSection
    <3>3. {y \in DOMAIN table.slot : y < s.size} = 0 .. n - 1
      BY <3>1, <3>2
    <3>4. n \in Nat /\ c \in Nat /\ n <= c
      BY <3>1, <3>2
    <3>5. f \in [0 .. n - 1 -> Entries]
      BY <3>1, <3>3
    <3>6. table' = [slot |-> f, cap |-> c]
      BY <2>1, <3>1
    <3> HIDE DEF f, n, c
    <3> QED
      BY <3>4, <3>5, <3>6, TableOf
  <2>3. StreamOK' /\ TablesOK' /\ StreamFaultsTolerated'
    BY <1>1, <2>1, FileKept DEF Inv, StreamOK, TablesOK, StreamFaultsTolerated, Section
  <2> QED
    BY <1>1, <2>1, <2>2, <2>3, Assemble DEF Inv, TypeOK, Labels
<1> QED
  BY <1>3, <1>4

LEMMA StepInv == Inv /\ [Next]_vars => Inv'
<1> SUFFICES ASSUME Inv, [Next]_vars PROVE Inv'
  OBVIOUS
<1>1. CASE UNCHANGED vars
  BY <1>1 DEF vars, Inv, TypeOK, StreamOK, TablesOK, StreamFaultsTolerated,
              NoPanicOnCoveredIndex, IsTable, Length, Section, Revisions, Chain, Older
<1>2. CASE Next
  BY <1>2, StartInv, ReadTableInv, TrailerInv, ReadStreamInv, FollowStreamPrevInv,
     ReadPrevStreamInv, RejectInv, MergeInv, FollowPrevInv, FinishInv DEF Next
<1> QED
  BY <1>1, <1>2

\* Every state of the reader keeps the invariant.
THEOREM Invariant == Spec => []Inv
BY InitInv, StepInv, PTL DEF Spec

\* Every variable has its type, whatever the file says: a table never has more slots
\* than its capacity (readXref, extendXrefTable).
THEOREM TypeCorrect == Spec => []TypeOK
<1>1. Inv => TypeOK
  BY DEF Inv
<1> QED
  BY <1>1, Invariant, PTL

\* A file that ends in a table is refused only for a fault of the tables that Prev
\* leads to or for want of memory, never for a fault of an XRefStm (readXrefTable,
\* resolvePrevXrefTables, handleTrailerXRefStm).
THEOREM StreamFaultsToleratedCorrect == Spec => []StreamFaultsTolerated
<1>1. Inv => StreamFaultsTolerated
  BY DEF Inv
<1> QED
  BY <1>1, Invariant, PTL

\* Reading does not panic when all links stay inside the file and no stream's Size is
\* above what its Index covers (readXrefStream, estimateXrefCapacity).
THEOREM NoPanicOnCoveredIndexCorrect == Spec => []NoPanicOnCoveredIndex
<1>1. Inv => NoPanicOnCoveredIndex
  BY DEF Inv
<1> QED
  BY <1>1, Invariant, PTL

-----------------------------------------------------------------------------
(***************************************************************************)
(* What the table holds.  The streams (tables) that have been read are a   *)
(* set V that the links leave only at the one read last, and that one is   *)
(* on the chain of each of them: a section that is read next is older than *)
(* all of V, and when there is no next one V is the whole chain.           *)
(***************************************************************************)

\* What the links and the rows of the file say does not change.
LEMMA ChainsKept ==
    ASSUME file' = file
    PROVE  \A o : /\ Section(o)' = Section(o)
                  /\ Older(o)' = Older(o)
                  /\ Chain(o)' = Chain(o)
                  /\ Streams(o)' = Streams(o)
BY DEF Section, Older, Chain, Streams

LEMMA NewestKept ==
    ASSUME file' = file
    PROVE  /\ \A V, x, types : Saying(V, x, types)' = Saying(V, x, types)
           /\ \A V, x, e : FromNewest(V, x, e)' <=> FromNewest(V, x, e)
           /\ \A t, head, V, last :
                 StreamsRead(t, head, V, last)' <=> StreamsRead(t, head, V, last)
<1>1. \A V, x, types : Saying(V, x, types)' = Saying(V, x, types)
  BY ChainsKept DEF Saying
<1>2. \A V, x, e : FromNewest(V, x, e)' <=> FromNewest(V, x, e)
  BY <1>1, ChainsKept DEF FromNewest, Gives
<1> QED
  BY <1>1, <1>2, ChainsKept DEF StreamsRead

LEMMA NewerKept ==
    ASSUME file' = file
    PROVE  /\ \A r : Newer(r)' = Newer(r)
           /\ \A r, x : Stands(r, x)' <=> Stands(r, x)
           /\ \A r, e : FromNewer(r, e)' <=> FromNewer(r, e)
           /\ \A t, V : HoldsRevisions(t, V)' <=> HoldsRevisions(t, V)
           /\ \A t, V, last : TablesRead(t, V, last)' <=> TablesRead(t, V, last)
<1>1. Revisions' = Revisions
  BY FileKept
<1>2. \A r : Newer(r)' = Newer(r)
  BY <1>1, ChainsKept DEF Newer
<1>3. \A r, x : Stands(r, x)' <=> Stands(r, x)
  BY <1>2, ChainsKept, NewestKept DEF Stands
<1>4. \A r, e : FromNewer(r, e)' <=> FromNewer(r, e)
  BY <1>2, ChainsKept DEF FromNewer
<1>5. \A V, x, e : FromRevisions(V, x, e)' <=> FromRevisions(V, x, e)
  BY ChainsKept, NewestKept DEF FromRevisions
<1>6. \A t, V : HoldsRevisions(t, V)' <=> HoldsRevisions(t, V)
  BY <1>3, <1>4, <1>5 DEF HoldsRevisions
<1>7. \A t, V, last : TablesRead(t, V, last)' <=> TablesRead(t, V, last)
  BY <1>1, <1>6, ChainsKept DEF TablesRead
<1> QED
  BY <1>2, <1>3, <1>4, <1>6, <1>7

\* Zeroed memory is not mistaken for what memory held before.
LEMMA EmptyIsNotStale ==
    /\ ~IsStale(Empty)
    /\ \A e \in {Empty} \cup Stale : e = Empty \/ IsStale(e)
<1>1. \A s \in Stale : s.sec = None /\ s # Empty /\ s \in Entries
  BY StaleAssumption
<1>2. \A s \in Entries : s.type = "empty" => s = Empty
  BY DEF Entries, Free
<1> QED
  BY <1>1, <1>2 DEF IsStale, Empty

\* A slot of a slice that has grown.
LEMMA ExtendedSlots ==
    ASSUME NEW t, IsTable(t), NEW n \in Nat, NEW mem \in Memory(NewSlots(t, n))
    PROVE  /\ DOMAIN Extended(t, n, mem).slot = DOMAIN t.slot \cup (0 .. n - 1)
           /\ \A x \in DOMAIN t.slot : Extended(t, n, mem).slot[x] = t.slot[x]
           /\ \A x \in DOMAIN Extended(t, n, mem).slot :
                 \/ x \in DOMAIN t.slot
                 \/ Extended(t, n, mem).slot[x] = Empty
                 \/ IsStale(Extended(t, n, mem).slot[x])
<1>1. CASE n <= Length(t)
  BY <1>1, TableParts DEF Extended
<1>2. CASE ~(n <= Length(t))
  <2> DEFINE f == [x \in 0 .. n - 1 |->
                      IF x \in DOMAIN t.slot THEN t.slot[x] ELSE mem[x]]
             u == Extended(t, n, mem)
  <2>1. u.slot = f /\ DOMAIN t.slot \subseteq 0 .. n - 1
    BY <1>2, TableParts DEF Extended
  <2>2. \A x \in (0 .. n - 1) \ DOMAIN t.slot : mem[x] \in {Empty} \cup Stale
    BY TableParts DEF Memory, NewSlots
  <2> HIDE DEF u
  <2>3. \A x \in (0 .. n - 1) \ DOMAIN t.slot : u.slot[x] = Empty \/ IsStale(u.slot[x])
    BY <2>1, <2>2, EmptyIsNotStale
  <2> QED
    BY <2>1, <2>3 DEF u
<1> QED
  BY <1>1, <1>2

\* A row of a section that is older than the streams V is put into an empty slot only
\* (processXrefChunk).
LEMMA RowKeepsNewest ==
    ASSUME NEW V \in SUBSET Offsets, NEW o \in Offsets, IsSection(Section(o)),
           Section(o).kind = "stream", \A p \in V : o \in Chain(p),
           NEW buffer \in Memory(CutRows(Section(o))),
           NEW x, NEW e, FromNewest(V, x, e),
           NEW new, new = IF e = Empty /\ x \in DOMAIN Section(o).rows
                          THEN RowEntry(Section(o), o, x, buffer) ELSE e
    PROVE  FromNewest(V \cup {o}, x, new)
<1> DEFINE types == {"used", "packed", "free", "cut"}
           says == Saying(V, x, types)
           now == Saying(V \cup {o}, x, types)
           m == Section(o).rows[x]
           told == x \in DOMAIN Section(o).rows /\ m.type \in types
<1>1. x \in DOMAIN Section(o).rows => m.type \in types \cup {"other"}
  BY DEF IsSection, Mention
<1>2. now = says \cup (IF told THEN {o} ELSE {})
  BY DEF Saying
<1>3. o \in Chain(o)
  BY ChainSelf
<1>4. says \subseteq V
  BY DEF Saying
<1>5. CASE IsStale(e)
  BY <1>5, EmptyIsNotStale DEF FromNewest
<1>6. CASE says = {} /\ e = Empty /\ ~told
  <2>1. x \in DOMAIN Section(o).rows => m.type = "other"
    BY <1>1, <1>6
  <2>2. new = Empty
    BY <1>6, <2>1 DEF RowEntry
  <2> QED
    BY <1>2, <1>6, <2>2 DEF FromNewest
<1>7. CASE says = {} /\ e = Empty /\ told
  <2>1. now = {o} /\ now \subseteq Chain(o)
    BY <1>2, <1>3, <1>7
  <2>2. new = RowEntry(Section(o), o, x, buffer)
    BY <1>7
  <2>3. CASE m.type = "cut"
    <3>1. x \in CutRows(Section(o)) /\ buffer[x] \in {Empty} \cup Stale
      BY <1>7, <2>3 DEF CutRows, Memory
    <3>2. new = Free \/ IsStale(new)
      BY <2>2, <2>3, <3>1, EmptyIsNotStale DEF RowEntry
    <3> QED
      BY <2>1, <2>3, <3>2 DEF FromNewest, Gives
  <2>4. CASE m.type = "free"
    <3>1. new = Free
      BY <2>2, <2>4 DEF RowEntry
    <3> QED
      BY <2>1, <2>4, <3>1 DEF FromNewest, Gives
  <2>5. CASE m.type \in {"used", "packed"}
    <3>1. new = Entry(o, m)
      BY <2>2, <2>5 DEF RowEntry
    <3> QED
      BY <2>1, <2>5, <3>1 DEF FromNewest, Gives
  <2> QED
    BY <1>1, <1>7, <2>3, <2>4, <2>5
<1>8. CASE \E p \in says : says \subseteq Chain(p) /\ Gives(p, x, e)
  <2>1. PICK p \in says : says \subseteq Chain(p) /\ Gives(p, x, e)
    BY <1>8
  <2>2. e # Empty
    BY <2>1 DEF Gives, Empty, Free, Entry, Saying, None
  <2>3. p \in now /\ now \subseteq Chain(p)
    BY <1>2, <1>4, <2>1
  <2> QED
    BY <2>1, <2>2, <2>3 DEF FromNewest
<1> QED
  BY <1>5, <1>6, <1>7, <1>8 DEF FromNewest

\* The rows of a stream that is older than the streams V are put in after theirs
\* (readXrefStreamData).
LEMMA RowsPutIn ==
    ASSUME NEW t, IsTable(t), NEW V \in SUBSET Offsets, NEW o \in Offsets,
           IsSection(Section(o)), Section(o).kind = "stream",
           \A p \in V : o \in Chain(p),
           \A p \in V : DOMAIN Section(p).rows \subseteq DOMAIN t.slot,
           \A x \in DOMAIN t.slot : FromNewest(V, x, t.slot[x]),
           NEW mem \in Memory(NewSlots(t, RangeEnd(Section(o)))),
           NEW buffer \in Memory(CutRows(Section(o))),
           NEW u, u = Fill(Extended(t, RangeEnd(Section(o)), mem),
                           Section(o), o, buffer)
    PROVE  /\ \A p \in V \cup {o} : DOMAIN Section(p).rows \subseteq DOMAIN u.slot
           /\ \A x \in DOMAIN u.slot : FromNewest(V \cup {o}, x, u.slot[x])
<1> DEFINE s == Section(o)
           w == Extended(t, RangeEnd(s), mem)
<1>1. RangeEnd(s) \in Nat /\ DOMAIN s.rows \subseteq 0 .. RangeEnd(s) - 1
  BY RangeEndTyped
<1>2. /\ DOMAIN w.slot = DOMAIN t.slot \cup (0 .. RangeEnd(s) - 1)
      /\ \A x \in DOMAIN t.slot : w.slot[x] = t.slot[x]
      /\ \A x \in DOMAIN w.slot :
            x \in DOMAIN t.slot \/ w.slot[x] = Empty \/ IsStale(w.slot[x])
  BY <1>1, ExtendedSlots
<1>3. IsTable(w)
  BY <1>1, ExtendedTable
<1>4. \A x \in DOMAIN w.slot : FromNewest(V, x, w.slot[x])
  <2> SUFFICES ASSUME NEW x \in DOMAIN w.slot PROVE FromNewest(V, x, w.slot[x])
    OBVIOUS
  <2> HIDE DEF w
  <2>1. CASE x \in DOMAIN t.slot
    BY <1>2, <2>1
  <2>2. CASE x \notin DOMAIN t.slot
    <3>1. Saying(V, x, {"used", "packed", "free", "cut"}) = {}
      BY <2>2 DEF Saying
    <3> QED
      BY <1>2, <2>2, <3>1 DEF FromNewest
  <2> QED
    BY <2>1, <2>2
<1>5. /\ DOMAIN u.slot = DOMAIN w.slot
      /\ \A x \in DOMAIN w.slot :
            u.slot[x] = IF w.slot[x] = Empty /\ x \in DOMAIN s.rows
                        THEN RowEntry(s, o, x, buffer) ELSE w.slot[x]
  <2>1. w = [slot |-> w.slot, cap |-> w.cap]
    BY <1>3 DEF IsTable
  <2> HIDE DEF w
  <2>2. u = [w EXCEPT !.slot =
               [x \in DOMAIN w.slot |->
                  IF w.slot[x] = Empty /\ x \in DOMAIN s.rows
                  THEN RowEntry(s, o, x, buffer) ELSE w.slot[x]]]
    BY DEF Fill, w
  <2> QED
    BY <2>1, <2>2
<1> HIDE DEF w
<1>6. \A x \in DOMAIN u.slot : FromNewest(V \cup {o}, x, u.slot[x])
  <2> SUFFICES ASSUME NEW x \in DOMAIN w.slot
               PROVE  FromNewest(V \cup {o}, x, u.slot[x])
    BY <1>5
  <2> QED
    BY <1>4, <1>5, RowKeepsNewest
<1> QED
  BY <1>1, <1>2, <1>5, <1>6

\* A stream gives up or is read after the streams V.
LEMMA ReadRowsStreams ==
    ASSUME Inv, StreamsSoFar, file' = file, pc \in {"stream", "prevStream"},
           at \in Offsets, Here.kind = "stream",
           NEW V \in SUBSET Offsets, NEW t, IsTable(t),
           ChainHead \in V \cup {at}, V \subseteq Chain(ChainHead),
           \A p \in V : at \in Chain(p) /\ Older(p) \in V \cup {at},
           \A p \in V : DOMAIN Section(p).rows \subseteq DOMAIN t.slot,
           \A x \in DOMAIN t.slot : FromNewest(V, x, t.slot[x]),
           ReadRows(t, ChainHead)
    PROVE  StreamsSoFar'
<1>1. CASE StreamFails
  BY <1>1, ChainsKept DEF StreamFails, StreamsSoFar
<1>2. CASE /\ \E mem \in Memory(NewSlots(t, RangeEnd(Here))),
                 buffer \in Memory(CutRows(Here)) :
                 stm' = Fill(Extended(t, RangeEnd(Here), mem), Here, at, buffer)
           /\ stmHead' = ChainHead
           /\ pc' = "streamPrev"
           /\ UNCHANGED <<at, table, trailer, hybrid>>
  <2>1. IsSection(Section(at)) /\ Section(at).kind = "stream" /\ Here = Section(at)
    BY DEF Inv, Here
  <2>2. /\ \A p \in V \cup {at} : DOMAIN Section(p).rows \subseteq DOMAIN stm'.slot
        /\ \A x \in DOMAIN stm'.slot : FromNewest(V \cup {at}, x, stm'.slot[x])
    BY <1>2, <2>1, RowsPutIn, ZenonT(60)
  <2>3. \A p \in V \cup {at} : at \in Chain(p)
    BY ChainSelf
  <2>4. V \cup {at} \subseteq Chain(ChainHead)
    BY <2>3
  <2>5. StreamsRead(stm', ChainHead, V \cup {at}, at)
    BY <2>2, <2>3, <2>4 DEF StreamsRead
  <2>6. StreamsRead(stm, stmHead, V \cup {at}, at)'
    BY <1>2, <2>5, NewestKept
  <2>7. ChainHead' = ChainHead
    BY <1>2, ChainsKept DEF ChainHead
  <2> QED
    BY <1>2, <2>6, <2>7, ChainsKept DEF StreamsSoFar
<1> QED
  BY <1>1, <1>2 DEF ReadRows, Allocate

\* Steps after which no stream is being read.
LEMMA StreamsIdle ==
    ASSUME StreamsSoFar, file' = file,
           pc' \in {"table", "trailer", "prev", "done", "error", "panic"},
           \/ Section(file.start).kind = "table"
           \/ pc' \in {"done", "error", "panic"} /\ hybrid' = hybrid
    PROVE  StreamsSoFar'
BY ChainsKept DEF StreamsSoFar

\* readXref begins.
LEMMA StartStreams ==
    ASSUME Inv, StreamsSoFar, Start
    PROVE  StreamsSoFar'
<1>1. file' = file /\ pc = "start" /\ at = file.start /\ Here = Section(file.start)
  BY DEF Start, Inv, Here
<1>2. Here.kind \in {"table", "stream", "junk", "eof"}
  BY <1>1 DEF Inv, IsSection, SectionKinds
<1>3. CASE Panic \/ Fail
  BY <1>1, <1>3, StreamsIdle DEF Panic, Fail
<1>4. CASE Here.kind = "stream" /\ ~(Panic \/ Fail)
  <2>1. pc' = "stream" /\ UNCHANGED <<at, table, trailer, hybrid, stm, stmHead>>
    BY <1>4 DEF Start
  <2>2. ChainHead' = file.start
    BY <1>1, <2>1 DEF StreamsSoFar, ChainHead
  <2> QED
    BY <1>1, <1>4, <2>1, <2>2, ChainsKept DEF StreamsSoFar
<1>5. CASE Here.kind = "table" /\ ~(Panic \/ Fail)
  <2>1. pc' = "table"
    BY <1>5 DEF Start, Allocate
  <2> QED
    BY <1>1, <1>5, <2>1, StreamsIdle
<1>6. CASE Here.kind \in {"junk", "eof"} /\ ~(Panic \/ Fail)
  BY <1>6 DEF Start
<1> QED
  BY <1>2, <1>3, <1>4, <1>5, <1>6

\* Only a file that ends in a table has tables read.
LEMMA TableFile ==
    ASSUME StreamsSoFar, pc \in {"table", "trailer", "merge", "prev"}
    PROVE  Section(file.start).kind = "table"
BY DEF StreamsSoFar

LEMMA ReadTableStreams ==
    ASSUME Inv, StreamsSoFar, ReadTable
    PROVE  StreamsSoFar'
<1>1. file' = file /\ pc = "table" /\ Here.kind \in {"table", "stream", "junk", "eof"}
  BY DEF ReadTable, Inv, TypeOK, IsSection, SectionKinds, Here
<1>2. pc' \in {"trailer", "error", "panic"}
  BY <1>1 DEF ReadTable, Allocate, Fail, Panic
<1> QED
  BY <1>1, <1>2, TableFile, StreamsIdle

\* handleTrailerXRefStm goes to the stream.
LEMMA TrailerStreams ==
    ASSUME Inv, StreamsSoFar, Trailer
    PROVE  StreamsSoFar'
<1>1. file' = file /\ Section(file.start).kind = "table"
  BY TableFile DEF Trailer
<1>2. CASE pc' = "prev"
  BY <1>1, <1>2, StreamsIdle
<1>3. CASE pc' # "prev"
  <2>1. /\ pc' = "stream" /\ at' = Section(trailer).xrefstm /\ hybrid' = TRUE
        /\ trailer' = trailer
    BY <1>3 DEF Trailer
  <2>2. ChainHead' = Section(trailer).xrefstm
    BY <1>1, <2>1, ChainsKept DEF ChainHead
  <2> QED
    BY <1>1, <2>1, <2>2, ChainsKept DEF StreamsSoFar
<1> QED
  BY <1>2, <1>3

\* readXrefStream: the first stream of a chain.
LEMMA ReadStreamStreams ==
    ASSUME Inv, StreamsSoFar, ReadStream
    PROVE  StreamsSoFar'
<1>1. /\ file' = file /\ pc = "stream" /\ at \in Offsets /\ at = ChainHead
      /\ Here.kind \in {"table", "stream", "junk", "eof"} /\ IsSection(Here)
  BY DEF ReadStream, StreamsSoFar, Inv, TypeOK, IsSection, SectionKinds, Here
<1>2. CASE Panic
  BY <1>1, <1>2, ChainsKept DEF Panic, StreamsSoFar
<1>3. CASE StreamFails
  BY <1>1, <1>3, ChainsKept DEF StreamFails, StreamsSoFar
<1>4. CASE /\ Here.kind = "stream" /\ Here.size # NoSize
           /\ Here.size <= EstimateCapacity(Here)
           /\ \E mem \in Memory(0 .. Here.size - 1) :
                 ReadRows([slot |-> mem, cap |-> EstimateCapacity(Here)], at)
  <2>1. PICK mem \in Memory(0 .. Here.size - 1) :
           ReadRows([slot |-> mem, cap |-> EstimateCapacity(Here)], at)
    BY <1>4
  <2> DEFINE size == Here.size
             cap == EstimateCapacity(Here)
             t == [slot |-> mem, cap |-> cap]
  <2>2. size \in Nat /\ cap \in Nat /\ size <= cap
    BY <1>1, <1>4, CapacityTyped DEF IsSection
  <2>3. mem \in [0 .. size - 1 -> Entries]
    BY MemoryEntries DEF Memory
  <2>4. \A x \in DOMAIN mem : mem[x] = Empty \/ IsStale(mem[x])
    BY EmptyIsNotStale DEF Memory
  <2>5. ReadRows(t, ChainHead)
    BY <1>1, <2>1
  <2> HIDE DEF size, cap
  <2>6. IsTable(t) /\ t.slot = mem
    BY <2>2, <2>3, TableOf
  <2>7. \A x \in DOMAIN t.slot : FromNewest({}, x, t.slot[x])
    BY <2>4, <2>6 DEF FromNewest, Saying
  <2> HIDE DEF t
  <2>8. {} \in SUBSET Offsets /\ ChainHead \in {} \cup {at} /\ {} \subseteq Chain(ChainHead)
    BY <1>1
  <2> QED
    BY <1>1, <1>4, <2>5, <2>6, <2>7, <2>8, ReadRowsStreams
<1> QED
  BY <1>1, <1>2, <1>3, <1>4 DEF ReadStream

\* The next link of the chain of streams, or its end.
LEMMA FollowStreamPrevStreams ==
    ASSUME Inv, StreamsSoFar, FollowStreamPrev
    PROVE  StreamsSoFar'
<1>1. /\ file' = file /\ pc = "streamPrev" /\ at \in Offsets
      /\ Here.prev \in Offsets \cup {None, BadLink}
  BY DEF FollowStreamPrev, Inv, TypeOK, IsSection, Links, Here
<1>2. Here.prev \in Offsets => Here.prev # BadLink /\ Here.prev # None
  BY XrefAssumption DEF BadLink, None
<1>3. stmHead = ChainHead
  BY <1>1 DEF StreamsSoFar
<1>4. PICK V \in SUBSET Offsets : StreamsRead(stm, stmHead, V, at)
  BY <1>1 DEF StreamsSoFar
<1>5. CASE Here.prev \in Offsets
  <2>1. /\ pc' = "prevStream" /\ at' = Here.prev
        /\ UNCHANGED <<table, trailer, hybrid, stm, stmHead>>
    BY <1>2, <1>5 DEF FollowStreamPrev
  <2>2. at' = Older(at)
    BY <1>1, <1>5, <2>1 DEF Older, Here
  <2>3. StreamsRead(stm, stmHead, V, at)'
            <=> StreamsRead(stm', stmHead', V, at')
    BY <1>1, NewestKept
  <2>4. StreamsRead(stm', stmHead', V, at)
    BY <1>4, <2>1
  <2>5. \E W \in SUBSET Offsets, o \in Offsets :
           StreamsRead(stm', stmHead', W, o) /\ at' = Older(o)
    BY <1>1, <2>2, <2>4
  <2>6. \E W \in SUBSET Offsets, o \in Offsets :
           (StreamsRead(stm, stmHead, W, o) /\ at = Older(o))'
    BY <1>1, <2>5, NewestKept, ChainsKept
  <2>7. ChainHead' = ChainHead
    BY <1>1, <2>1, ChainsKept DEF ChainHead
  <2> QED
    BY <1>1, <1>3, <2>1, <2>6, <2>7, ChainsKept DEF StreamsSoFar
<1>6. CASE Here.prev = BadLink
  <2>1. StreamFails
    BY <1>2, <1>6 DEF FollowStreamPrev, None, BadLink
  <2> QED
    BY <1>1, <2>1, ChainsKept DEF StreamFails, StreamsSoFar
<1>7. CASE Here.prev = None /\ hybrid
  <2>1. pc' = "merge" /\ UNCHANGED <<at, table, trailer, hybrid, stm, stmHead>>
    BY <1>2, <1>7 DEF FollowStreamPrev, None, BadLink
  <2>2. StreamsRead(stm, stmHead, V, at)'
    BY <1>1, <1>4, <2>1, NewestKept
  <2>3. ChainHead' = ChainHead
    BY <1>1, <2>1, ChainsKept DEF ChainHead
  <2> QED
    BY <1>1, <1>3, <1>7, <2>1, <2>2, <2>3, ChainsKept DEF StreamsSoFar
<1>8. CASE Here.prev = None /\ ~hybrid
  <2>1. pc' = "done" /\ hybrid' = hybrid
    BY <1>2, <1>8 DEF FollowStreamPrev, None, BadLink
  <2> QED
    BY <1>1, <2>1, StreamsIdle
<1> QED
  BY <1>1, <1>5, <1>6, <1>7, <1>8

\* mergePrevXrefStreams: a stream that is older than those in the table.
LEMMA ReadPrevStreamStreams ==
    ASSUME Inv, StreamsSoFar, ReadPrevStream
    PROVE  StreamsSoFar'
<1>1. /\ file' = file /\ pc = "prevStream" /\ at \in Offsets /\ stmHead = ChainHead
      /\ Here.kind \in {"table", "stream", "junk", "eof"} /\ IsTable(stm)
  BY DEF ReadPrevStream, StreamsSoFar, Inv, TypeOK, IsSection, SectionKinds, Here
<1>2. CASE Panic
  BY <1>1, <1>2, ChainsKept DEF Panic, StreamsSoFar
<1>3. CASE StreamFails
  BY <1>1, <1>3, ChainsKept DEF StreamFails, StreamsSoFar
<1>4. CASE Here.kind = "stream" /\ ReadRows(stm, stmHead)
  <2>1. PICK V \in SUBSET Offsets, o \in Offsets :
           StreamsRead(stm, stmHead, V, o) /\ at = Older(o)
    BY <1>1 DEF StreamsSoFar
  <2>2. /\ ChainHead \in V /\ V \subseteq Chain(ChainHead)
        /\ \A p \in V : o \in Chain(p) /\ (p = o \/ Older(p) \in V)
        /\ \A p \in V : DOMAIN Section(p).rows \subseteq DOMAIN stm.slot
        /\ \A x \in DOMAIN stm.slot : FromNewest(V, x, stm.slot[x])
    BY <1>1, <2>1 DEF StreamsRead
  <2>3. \A p \in V : at \in Chain(p) /\ Older(p) \in V \cup {at}
    BY <1>1, <2>1, <2>2, ChainStep
  <2> QED
    BY <1>1, <1>4, <2>2, <2>3, ReadRowsStreams
<1> QED
  BY <1>1, <1>2, <1>3, <1>4 DEF ReadPrevStream

\* The table of the streams is merged or dropped.
LEMMA MergeStreams ==
    ASSUME Inv, StreamsSoFar, Reject \/ Merge
    PROVE  StreamsSoFar'
<1>1. file' = file /\ pc = "merge" /\ hybrid /\ Section(file.start).kind = "table"
  BY TableFile DEF Reject, Merge, Inv, StreamOK
<1>2. pc' = "prev"
  BY <1>1 DEF Reject, Merge, StreamFails
<1> QED
  BY <1>1, <1>2, StreamsIdle

LEMMA ChainOfTablesStreams ==
    ASSUME Inv, StreamsSoFar, FollowPrev \/ Finish
    PROVE  StreamsSoFar'
<1>1. file' = file /\ pc = "prev" /\ Section(file.start).kind = "table"
  BY TableFile DEF FollowPrev, Finish
<1>2. pc' \in {"table", "done", "error"}
  BY DEF FollowPrev, Finish, Fail
<1> QED
  BY <1>1, <1>2, StreamsIdle

LEMMA StreamsStep ==
    ASSUME Inv, StreamsSoFar, [Next]_vars
    PROVE  StreamsSoFar'
<1>1. CASE UNCHANGED vars
  <2>1. \A V, o : StreamsRead(stm, stmHead, V, o)' <=> StreamsRead(stm, stmHead, V, o)
    BY <1>1, NewestKept DEF vars
  <2> QED
    BY <1>1, <2>1, ChainsKept DEF vars, StreamsSoFar, ChainHead
<1>2. CASE Next
  BY <1>2, StartStreams, ReadTableStreams, TrailerStreams, ReadStreamStreams,
     FollowStreamPrevStreams, ReadPrevStreamStreams, MergeStreams,
     ChainOfTablesStreams DEF Next
<1> QED
  BY <1>1, <1>2

\* The streams of a file are all read when the last one has no link: V is the chain.
LEMMA NewestStreamStep ==
    ASSUME Inv, StreamsSoFar, NewestStreamWins, [Next]_vars
    PROVE  NewestStreamWins'
<1> SUFFICES ASSUME file' = file, pc' = "done", Section(file.start).kind = "stream"
             PROVE  \A x \in DOMAIN table'.slot : FromNewest(Revisions, x, table'.slot[x])
  <2>1. file' = file
    BY DEF Next, vars, Start, ReadTable, Trailer, ReadStream, FollowStreamPrev,
           ReadPrevStream, Reject, Merge, FollowPrev, Finish
  <2>2. Revisions' = Revisions
    BY <2>1, FileKept
  <2> QED
    BY <2>1, <2>2, NewestKept, ChainsKept DEF NewestStreamWins
<1>1. CASE pc = "done"
  <2>1. UNCHANGED vars
    BY <1>1 DEF Next, Start, ReadTable, Trailer, ReadStream, FollowStreamPrev,
           ReadPrevStream, Reject, Merge, FollowPrev, Finish
  <2> QED
    BY <1>1, <2>1 DEF vars, NewestStreamWins
<1>2. CASE pc # "done"
  <2>1. ~hybrid /\ pc \notin {"table", "trailer", "merge", "prev"}
    BY DEF StreamsSoFar
  <2>2. FollowStreamPrev
    <3>1. Here.kind \in {"table", "stream", "junk", "eof"}
      BY DEF Inv, TypeOK, IsSection, SectionKinds, Here
    <3>2. ~Start
      BY <3>1 DEF Start, Allocate, Fail, Panic
    <3>3. ASSUME NEW t, NEW head, ReadRows(t, head) PROVE pc' # "done"
      BY <3>3 DEF ReadRows, Allocate, StreamFails
    <3>4. ~ReadStream
      BY <3>1, <3>3 DEF ReadStream, StreamFails, Panic
    <3>5. ~ReadPrevStream
      BY <3>1, <3>3 DEF ReadPrevStream, StreamFails, Panic
    <3>6. ~ReadTable /\ ~Trailer /\ ~Reject /\ ~Merge /\ ~FollowPrev /\ ~Finish
      BY <2>1 DEF ReadTable, Trailer, Reject, Merge, FollowPrev, Finish
    <3> QED
      BY <1>2, <3>2, <3>4, <3>5, <3>6 DEF Next, vars
  <2>3. /\ pc = "streamPrev" /\ at \in Offsets /\ stmHead = file.start
        /\ Here.prev \in Offsets \cup {None, BadLink}
    BY <2>1, <2>2 DEF FollowStreamPrev, StreamsSoFar, ChainHead, Inv, TypeOK,
                      IsSection, Links, Here
  <2>4. Here.prev = None /\ table' = stm
    BY <2>1, <2>2, <2>3, XrefAssumption DEF FollowStreamPrev, StreamFails, None, BadLink
  <2>5. PICK V \in SUBSET Offsets : StreamsRead(stm, file.start, V, at)
    BY <2>3 DEF StreamsSoFar
  <2>6. V = Revisions
    <3>1. Older(at) = None
      BY <2>4, XrefAssumption DEF Older, Here
    <3>2. \A q \in V : Older(q) \in V \cup {None}
      BY <2>5, <3>1 DEF StreamsRead
    <3> QED
      BY <2>5, <3>2, ChainInClosed DEF StreamsRead, Revisions
  <2> QED
    BY <2>4, <2>5, <2>6 DEF StreamsRead
<1> QED
  BY <1>1, <1>2

-----------------------------------------------------------------------------
(* The chain of tables. *)

\* An empty slot holds nothing that stands.
LEMMA EmptyIsNotNewer == \A r : ~FromNewer(r, Empty)
<1>1. \A p \in Revisions : None \notin {p} \cup Streams(p)
  BY XrefAssumption DEF Revisions, Streams, Chain
<1> QED
  BY <1>1, EmptyIsNotStale DEF FromNewer, Newer, Empty

\* What is known to come from the revisions V comes from more of them.
LEMMA FromMoreRevisions ==
    ASSUME NEW V, NEW W, V \subseteq W, NEW x, NEW e, FromRevisions(V, x, e)
    PROVE  FromRevisions(W, x, e)
BY DEF FromRevisions

\* The rows of a table that is older than the tables V are put in after theirs, and
\* what stands in one of them stays (setIfEmpty).
LEMMA TablePutIn ==
    ASSUME NEW t, IsTable(t), NEW V \in SUBSET Revisions, NEW o \in Revisions,
           IsSection(Section(o)), Section(o).kind = "table",
           \A p \in V : o \in Chain(p),
           HoldsRevisions(t, V),
           NEW mem \in Memory(NewSlots(t, RangeEnd(Section(o)))),
           NEW buffer,
           NEW u, u = Fill(Extended(t, RangeEnd(Section(o)), mem), Section(o), o, buffer)
    PROVE  HoldsRevisions(u, V \cup {o})
<1> DEFINE s == Section(o)
           w == Extended(t, RangeEnd(s), mem)
<1>1. RangeEnd(s) \in Nat /\ DOMAIN s.rows \subseteq 0 .. RangeEnd(s) - 1
  BY RangeEndTyped
<1>2. /\ DOMAIN w.slot = DOMAIN t.slot \cup (0 .. RangeEnd(s) - 1)
      /\ \A x \in DOMAIN t.slot : w.slot[x] = t.slot[x]
      /\ \A x \in DOMAIN w.slot :
            x \in DOMAIN t.slot \/ w.slot[x] = Empty \/ IsStale(w.slot[x])
  BY <1>1, ExtendedSlots
<1>3. IsTable(w)
  BY <1>1, ExtendedTable
<1>4. /\ DOMAIN u.slot = DOMAIN w.slot
      /\ \A x \in DOMAIN w.slot :
            u.slot[x] = IF w.slot[x] = Empty /\ x \in DOMAIN s.rows
                        THEN RowEntry(s, o, x, buffer) ELSE w.slot[x]
  <2>1. w = [slot |-> w.slot, cap |-> w.cap]
    BY <1>3 DEF IsTable
  <2> HIDE DEF w
  <2>2. u = [w EXCEPT !.slot =
               [x \in DOMAIN w.slot |->
                  IF w.slot[x] = Empty /\ x \in DOMAIN s.rows
                  THEN RowEntry(s, o, x, buffer) ELSE w.slot[x]]]
    BY DEF Fill, w
  <2> QED
    BY <2>1, <2>2
<1> HIDE DEF w
<1>5. \A x \in DOMAIN w.slot : FromRevisions(V, x, w.slot[x])
  BY <1>2 DEF HoldsRevisions, FromRevisions
<1>6. \A x \in DOMAIN s.rows :
         \/ s.rows[x].type = "used" /\ RowEntry(s, o, x, buffer) = Entry(o, s.rows[x])
         \/ s.rows[x].type = "free" /\ RowEntry(s, o, x, buffer) = Empty
  BY DEF IsSection, RowEntry
<1>7. \A x \in DOMAIN u.slot : FromRevisions(V \cup {o}, x, u.slot[x])
  <2> SUFFICES ASSUME NEW x \in DOMAIN w.slot
               PROVE  FromRevisions(V \cup {o}, x, u.slot[x])
    BY <1>4
  <2>1. CASE w.slot[x] = Empty /\ x \in DOMAIN s.rows
    <3>1. u.slot[x] = Empty \/ u.slot[x].sec = o
      BY <1>4, <1>6, <2>1 DEF Entry
    <3> QED
      BY <3>1 DEF FromRevisions
  <2>2. CASE ~(w.slot[x] = Empty /\ x \in DOMAIN s.rows)
    BY <1>4, <1>5, <2>2, FromMoreRevisions
  <2> QED
    BY <2>1, <2>2
<1>8. ASSUME NEW r \in V, NEW x \in Objects, Stands(r, x)
      PROVE  x \in DOMAIN u.slot /\ FromNewer(r, u.slot[x])
  <2>1. x \in DOMAIN t.slot /\ FromNewer(r, t.slot[x]) /\ t.slot[x] # Empty
    BY <1>8, EmptyIsNotNewer DEF HoldsRevisions
  <2> QED
    BY <1>2, <1>4, <2>1
<1>9. ASSUME NEW x \in Objects, Stands(o, x), o \notin V
      PROVE  x \in DOMAIN u.slot /\ FromNewer(o, u.slot[x])
  <2>1. x \in DOMAIN s.rows /\ s.rows[x].type = "used"
    BY <1>9 DEF Stands, Saying
  <2>2. x \in DOMAIN u.slot /\ x \in DOMAIN w.slot
    BY <1>1, <1>2, <1>4, <2>1
  <2>3. o \in Newer(o) /\ V \subseteq Newer(o) \ {o}
    <3>1. o \in Chain(o)
      BY ChainSelf DEF Revisions, Chain
    <3> QED
      BY <1>9, <3>1 DEF Newer
  <2>4. CASE w.slot[x] = Empty
    <3>1. u.slot[x].sec = o
      BY <1>4, <1>6, <2>1, <2>2, <2>4 DEF Entry
    <3> QED
      BY <2>2, <2>3, <3>1 DEF FromNewer
  <2>5. CASE w.slot[x] # Empty
    <3>1. u.slot[x] = w.slot[x] /\ FromRevisions(V, x, w.slot[x])
      BY <1>4, <1>5, <2>2, <2>5
    <3>2. \A p \in V : Saying(Streams(p), x, {"free", "cut"}) = {}
      BY <1>9, <2>3 DEF Stands
    <3> QED
      BY <2>2, <2>3, <2>5, <3>1, <3>2 DEF FromRevisions, FromNewer
  <2> QED
    BY <2>4, <2>5
<1> QED
  BY <1>7, <1>8, <1>9 DEF HoldsRevisions

\* What the chain of streams of an XRefStm has put into a slot, repaired or not.
LEMMA FromStreams ==
    ASSUME NEW V, NEW h, V \subseteq Chain(h), NEW x, NEW e, e # Empty,
           FromNewest(V, x, e),
           \A o \in V : x \in DOMAIN Section(o).rows => Section(o).rows[x] \in Mention
    PROVE  \/ IsStale(e)
           \/ e = Free /\ Saying(Chain(h), x, {"free", "cut"}) # {}
           \/ e.sec \in Chain(h) /\ Saying(Chain(h), x, {"used", "packed", "cut"}) # {}
<1> SUFFICES ASSUME ~IsStale(e)
             PROVE  \/ e = Free /\ Saying(Chain(h), x, {"free", "cut"}) # {}
                    \/ /\ e.sec \in Chain(h)
                       /\ Saying(Chain(h), x, {"used", "packed", "cut"}) # {}
  OBVIOUS
<1>1. PICK o \in Saying(V, x, {"used", "packed", "free", "cut"}) : Gives(o, x, e)
  BY DEF FromNewest
<1>2. /\ o \in Chain(h) /\ x \in DOMAIN Section(o).rows
      /\ Section(o).rows[x].type \in {"used", "packed", "free", "cut"}
  BY DEF Saying
<1>3. CASE Section(o).rows[x].type \in {"free", "cut"}
  <2>1. e = Free /\ o \in Saying(Chain(h), x, {"free", "cut"})
    BY <1>1, <1>2, <1>3 DEF Gives, Saying
  <2> QED
    BY <2>1
<1>4. CASE Section(o).rows[x].type \in {"used", "packed"}
  <2>1. e.sec = o /\ o \in Saying(Chain(h), x, {"used", "packed", "cut"})
    BY <1>1, <1>2, <1>4 DEF Gives, Entry, Saying
  <2> QED
    BY <1>2, <2>1
<1> QED
  BY <1>2, <1>3, <1>4

\* A repair changes what is found at an entry's number and nothing else.
LEMMA RepairedSlots ==
    ASSUME NEW t, IsTable(t)
    PROVE  /\ DOMAIN Repaired(t).slot = DOMAIN t.slot
           /\ \A x \in DOMAIN t.slot :
                 /\ Repaired(t).slot[x].sec = t.slot[x].sec
                 /\ Repaired(t).slot[x].type = t.slot[x].type
                 /\ t.slot[x] \in {Empty, Free} => Repaired(t).slot[x] = t.slot[x]
<1> DEFINE mended(e) == IF e.check = "near"
                        THEN [e EXCEPT !.check = IF e.type = "used" THEN "good"
                                                 ELSE "moved"]
                        ELSE e
<1>1. t = [slot |-> t.slot, cap |-> t.cap]
  BY DEF IsTable
<1>2. Repaired(t).slot = [x \in DOMAIN t.slot |-> mended(t.slot[x])]
  BY <1>1 DEF Repaired
<1>3. ASSUME NEW e \in Entries
      PROVE  /\ mended(e).sec = e.sec /\ mended(e).type = e.type
             /\ e \in {Empty, Free} => mended(e) = e
  <2>1. CASE e.check = "near"
    <3>1. e \in [sec : Offsets \cup {None}, type : {"used", "packed"},
                 check : {"none", "good", "near", "lost", "moved"}]
      BY <2>1 DEF Entries, Empty, Free
    <3>2. mended(e).sec = e.sec /\ mended(e).type = e.type
      BY <2>1, <3>1
    <3> QED
      BY <2>1, <3>2 DEF Empty, Free
  <2>2. CASE e.check # "near"
    BY <2>2
  <2> QED
    BY <2>1, <2>2
<1>4. \A x \in DOMAIN t.slot : t.slot[x] \in Entries
  BY TableParts
<1> HIDE DEF mended
<1> QED
  BY <1>2, <1>3, <1>4

\* The streams W of the XRefStm of o, the table read last, are merged after the tables
\* V, and what stands in one of those stays (mergeXrefTables).
LEMMA StreamsMerged ==
    ASSUME NEW t, IsTable(t), NEW src, IsTable(src),
           NEW V \in SUBSET Revisions, NEW o \in V, \A p \in V : o \in Chain(p),
           NEW W, W \subseteq Streams(o),
           \A p \in Offsets : IsSection(Section(p)),
           \A x \in DOMAIN src.slot : FromNewest(W, x, src.slot[x]),
           HoldsRevisions(t, V),
           NEW mem \in Memory(NewSlots(t, Length(src))),
           NEW u, u = Merged(t, Repaired(src), mem)
    PROVE  HoldsRevisions(u, V)
<1> DEFINE n == Length(src)
           w == Extended(t, n, mem)
           s == Repaired(src)
           Taken(x) == /\ x \in Present(s)
                       /\ w.slot[x] = Empty \/ (w.slot[x] # Free /\ s.slot[x] # Free)
<1>1. n \in Nat /\ Length(s) = n
  BY TableParts, RepairedTable
<1>2. /\ IsTable(w)
      /\ DOMAIN t.slot \subseteq DOMAIN w.slot
      /\ \A x \in DOMAIN t.slot : w.slot[x] = t.slot[x]
      /\ \A x \in DOMAIN w.slot :
            x \in DOMAIN t.slot \/ w.slot[x] = Empty \/ IsStale(w.slot[x])
  BY <1>1, ExtendedTable, ExtendedSlots
<1>3. /\ DOMAIN u.slot = DOMAIN w.slot
      /\ \A x \in DOMAIN w.slot :
            u.slot[x] = IF Taken(x) THEN s.slot[x] ELSE w.slot[x]
  <2>1. w = [slot |-> w.slot, cap |-> w.cap]
    BY <1>2 DEF IsTable
  <2>2. u = [w EXCEPT !.slot =
               [x \in DOMAIN w.slot |-> IF Taken(x) THEN s.slot[x] ELSE w.slot[x]]]
    BY <1>1 DEF Merged
  <2> HIDE DEF w, s
  <2> QED
    BY <2>1, <2>2
<1>4. \A x \in DOMAIN w.slot : FromRevisions(V, x, w.slot[x])
  BY <1>2 DEF HoldsRevisions, FromRevisions
<1> HIDE DEF w
<1>5. ASSUME NEW x, Taken(x)
      PROVE  \/ IsStale(s.slot[x])
             \/ s.slot[x] = Free /\ Saying(Streams(o), x, {"free", "cut"}) # {}
             \/ /\ s.slot[x].sec \in Streams(o)
                /\ Saying(Streams(o), x, {"used", "packed", "cut"}) # {}
  <2>1. x \in DOMAIN src.slot /\ s.slot[x] # Empty
    BY <1>5, RepairedSlots DEF Present
  <2> DEFINE e == src.slot[x]
  <2>2. /\ s.slot[x].sec = e.sec /\ s.slot[x].type = e.type
        /\ e = Free => s.slot[x] = Free
    BY <2>1, RepairedSlots
  <2>3. e # Empty
    BY <2>1, RepairedSlots
  <2>4. FromNewest(W, x, e)
    BY <2>1
  <2>5. Section(o).xrefstm \in Offsets \/ W = {}
    BY DEF Streams
  <2>6. CASE W = {}
    <3>1. IsStale(e)
      BY <2>3, <2>4, <2>6 DEF FromNewest, Saying
    <3> QED
      BY <2>2, <3>1 DEF IsStale
  <2>7. CASE Section(o).xrefstm \in Offsets
    <3> DEFINE h == Section(o).xrefstm
    <3>1. Streams(o) = Chain(h)
      BY <2>7 DEF Streams
    <3>2. \A p \in W : x \in DOMAIN Section(p).rows => Section(p).rows[x] \in Mention
      BY <3>1 DEF Chain, IsSection
    <3> HIDE DEF h
    <3>3. \/ IsStale(e)
          \/ e = Free /\ Saying(Chain(h), x, {"free", "cut"}) # {}
          \/ e.sec \in Chain(h) /\ Saying(Chain(h), x, {"used", "packed", "cut"}) # {}
      BY <2>3, <2>4, <3>1, <3>2, FromStreams
    <3> QED
      BY <2>2, <3>1, <3>3 DEF IsStale
  <2> QED
    BY <2>5, <2>6, <2>7
<1> HIDE DEF s
<1>6. \A x \in DOMAIN u.slot : FromRevisions(V, x, u.slot[x])
  <2> SUFFICES ASSUME NEW x \in DOMAIN w.slot
               PROVE  FromRevisions(V, x, u.slot[x])
    BY <1>3
  <2>1. CASE Taken(x)
    BY <1>3, <1>5, <2>1 DEF FromRevisions
  <2>2. CASE ~Taken(x)
    BY <1>3, <1>4, <2>2
  <2> QED
    BY <2>1, <2>2
<1>7. ASSUME NEW r \in V, NEW x \in Objects, Stands(r, x)
      PROVE  x \in DOMAIN u.slot /\ FromNewer(r, u.slot[x])
  <2>1. x \in DOMAIN w.slot /\ FromNewer(r, w.slot[x]) /\ w.slot[x] # Empty
    BY <1>2, <1>7, EmptyIsNotNewer DEF HoldsRevisions
  <2>2. CASE Taken(x)
    <3>1. s.slot[x] # Free
      BY <2>1, <2>2
    <3>2. Saying(Streams(o), x, {"used", "packed", "cut"}) = {}
      BY <1>7 DEF Stands
    <3>3. IsStale(s.slot[x])
      BY <1>5, <2>2, <3>1, <3>2
    <3> QED
      BY <1>3, <2>1, <2>2, <3>3 DEF FromNewer
  <2>3. CASE ~Taken(x)
    BY <1>3, <2>1, <2>3
  <2> QED
    BY <2>2, <2>3
<1> QED
  BY <1>6, <1>7 DEF HoldsRevisions

Reading == {"trailer", "stream", "streamPrev", "prevStream", "merge", "prev"}

\* Steps that leave the table and its trailer alone.
LEMMA TablesIdle ==
    ASSUME TablesSoFar, file' = file,
           \/ pc' \in {"done", "error", "panic"}
           \/ pc \in Reading /\ pc' \in Reading /\ UNCHANGED <<table, trailer>>
    PROVE  TablesSoFar'
<1>1. \A V : TablesRead(table, V, trailer)' <=> TablesRead(table', V, trailer')
  BY NewerKept
<1> QED
  BY <1>1, ChainsKept DEF TablesSoFar, Reading

\* The first table of a file.
LEMMA StartTables ==
    ASSUME Inv, TablesSoFar, Start
    PROVE  TablesSoFar'
<1>1. file' = file /\ at = file.start /\ Here = Section(file.start)
  BY DEF Start, Inv, Here
<1>2. CASE Here.kind = "table" /\ ~Fail
  <2>1. /\ pc' = "table" /\ at' = at
        /\ table' = [NoTable EXCEPT !.cap = InitialCapacity]
    BY <1>2 DEF Start, Allocate
  <2>2. DOMAIN table'.slot = {}
    BY <2>1 DEF NoTable
  <2> QED
    BY <1>1, <2>1, <2>2, ChainsKept DEF TablesSoFar
<1>3. CASE Here.kind # "table"
  BY <1>1, <1>3, ChainsKept DEF TablesSoFar
<1>4. CASE Fail
  BY <1>1, <1>4, TablesIdle DEF Fail
<1> QED
  BY <1>2, <1>3, <1>4

\* parseXrefTableAndTrailer: a table that is older than those read.
LEMMA ReadTableTables ==
    ASSUME Inv, TablesSoFar, StreamsSoFar, ReadTable
    PROVE  TablesSoFar'
<1>1. /\ file' = file /\ pc = "table" /\ at \in Offsets /\ IsTable(table)
      /\ Here.kind \in {"table", "stream", "junk", "eof"}
      /\ Section(file.start).kind = "table" /\ IsSection(Here) /\ Here = Section(at)
      /\ file.start \in Offsets
  BY TableFile DEF ReadTable, Inv, TypeOK, IsSection, SectionKinds, Here
<1>2. at \in Revisions
  BY <1>1 DEF Inv, TablesOK
<1>3. CASE Panic \/ Fail
  BY <1>1, <1>3, TablesIdle DEF Panic, Fail
<1>4. CASE Here.kind = "table" /\ ~Fail
  <2>1. /\ \E mem \in Memory(NewSlots(table, RangeEnd(Here))) :
              table' = Fill(Extended(table, RangeEnd(Here), mem), Here, at, << >>)
        /\ trailer' = at /\ pc' = "trailer" /\ at' = at
    BY <1>4 DEF ReadTable, Allocate
  <2>2. PICK V \in SUBSET Revisions :
           /\ file.start \in V \cup {at}
           /\ \A p \in V : at \in Chain(p) /\ Older(p) \in V \cup {at}
           /\ HoldsRevisions(table, V)
    <3>1. CASE at = file.start /\ DOMAIN table.slot = {}
      <4> WITNESS {} \in SUBSET Revisions
      <4> QED
        BY <3>1 DEF HoldsRevisions
    <3>2. CASE /\ \E V \in SUBSET Offsets : TablesRead(table, V, trailer)
               /\ at = Older(trailer)
      <4>1. PICK V \in SUBSET Offsets : TablesRead(table, V, trailer)
        BY <3>2
      <4>2. \A p \in V : at \in Chain(p) /\ Older(p) \in V \cup {at}
        BY <1>1, <3>2, <4>1, ChainStep DEF TablesRead
      <4> QED
        BY <4>1, <4>2 DEF TablesRead
    <3> QED
      BY <1>1, <3>1, <3>2 DEF TablesSoFar
  <2>3. HoldsRevisions(table', V \cup {at})
    <3>1. PICK mem \in Memory(NewSlots(table, RangeEnd(Section(at)))) :
             \E buffer : table' = Fill(Extended(table, RangeEnd(Section(at)), mem),
                                       Section(at), at, buffer)
      BY <1>1, <2>1
    <3>2. PICK buffer :
             table' = Fill(Extended(table, RangeEnd(Section(at)), mem),
                           Section(at), at, buffer)
      BY <3>1
    <3>3. IsSection(Section(at)) /\ Section(at).kind = "table"
      BY <1>1, <1>4
    <3> QED
      BY <1>1, <1>2, <2>2, <3>2, <3>3, TablePutIn
  <2>4. \A p \in V \cup {at} : at \in Chain(p)
    BY <1>1, <2>2, ChainSelf
  <2>5. TablesRead(table', V \cup {at}, at)
    BY <1>2, <2>2, <2>3, <2>4 DEF TablesRead
  <2>6. V \cup {at} \in SUBSET Offsets
    BY <1>1 DEF Revisions, Chain
  <2>7. TablesRead(table, V \cup {at}, trailer)'
    BY <1>1, <2>1, <2>5, NewerKept
  <2> QED
    BY <2>1, <2>6, <2>7 DEF TablesSoFar
<1> QED
  BY <1>1, <1>3, <1>4 DEF ReadTable

\* A stream is read into a table of its own.
LEMMA StreamTables ==
    ASSUME Inv, TablesSoFar,
           Trailer \/ ReadStream \/ FollowStreamPrev \/ ReadPrevStream \/ Reject
    PROVE  TablesSoFar'
<1>1. /\ file' = file /\ Here.kind \in {"table", "stream", "junk", "eof"}
      /\ Here.prev \in Offsets \cup {None, BadLink} /\ pc \in Reading
  BY DEF Trailer, ReadStream, FollowStreamPrev, ReadPrevStream, Reject, Inv, TypeOK,
         IsSection, SectionKinds, Links, Here, Reading
<1>2. CASE Section(file.start).kind # "table"
  BY <1>1, <1>2, ChainsKept DEF TablesSoFar
<1>3. CASE Panic
  BY <1>1, <1>3, TablesIdle DEF Panic
<1>4. CASE StreamFails
  BY <1>1, <1>4, TablesIdle DEF StreamFails, Reading
<1>5. ASSUME NEW t, NEW head, ReadRows(t, head) PROVE TablesSoFar'
  BY <1>1, <1>4, <1>5, TablesIdle DEF ReadRows, Allocate, Reading
<1>6. CASE Trailer
  BY <1>1, <1>6, TablesIdle DEF Trailer, Reading
<1>7. CASE FollowStreamPrev
  <2>1. \/ StreamFails
        \/ pc' = "done"
        \/ pc' \in {"prevStream", "merge"} /\ UNCHANGED <<table, trailer>>
    BY <1>1, <1>7, XrefAssumption DEF FollowStreamPrev, None, BadLink
  <2> QED
    BY <1>1, <1>4, <2>1, TablesIdle DEF Reading
<1>8. CASE ReadStream
  BY <1>1, <1>3, <1>4, <1>5, <1>8 DEF ReadStream
<1>9. CASE ReadPrevStream
  BY <1>1, <1>3, <1>4, <1>5, <1>9 DEF ReadPrevStream
<1> QED
  BY <1>4, <1>6, <1>7, <1>8, <1>9 DEF Reject

\* handleTrailerXRefStm: the streams of the trailer read last.
LEMMA MergeTables ==
    ASSUME Inv, TablesSoFar, StreamsSoFar, Merge
    PROVE  TablesSoFar'
<1>1. /\ file' = file /\ pc = "merge" /\ pc' = "prev" /\ trailer' = trailer
      /\ hybrid /\ stmHead \in Offsets /\ Section(file.start).kind = "table"
      /\ IsTable(table) /\ IsTable(stm)
  BY TableFile DEF Merge, Inv, StreamOK
<1>2. CASE table' = table
  BY <1>1, <1>2, TablesIdle DEF Reading
<1>3. CASE \E mem \in Memory(NewSlots(table, Length(stm))) :
              table' = Merged(table, Repaired(stm), mem)
  <2>1. PICK mem \in Memory(NewSlots(table, Length(stm))) :
           table' = Merged(table, Repaired(stm), mem)
    BY <1>3
  <2>2. PICK V \in SUBSET Offsets : TablesRead(table, V, trailer)
    BY <1>1 DEF TablesSoFar
  <2>3. PICK W \in SUBSET Offsets : StreamsRead(stm, stmHead, W, at)
    BY <1>1 DEF StreamsSoFar
  <2>4. stmHead = Section(trailer).xrefstm
    BY <1>1 DEF StreamsSoFar, ChainHead
  <2>5. W \subseteq Streams(trailer)
    BY <1>1, <2>3, <2>4 DEF StreamsRead, Streams
  <2>6. /\ V \in SUBSET Revisions /\ trailer \in V /\ HoldsRevisions(table, V)
        /\ \A p \in V : trailer \in Chain(p)
    BY <2>2 DEF TablesRead
  <2>7. \A x \in DOMAIN stm.slot : FromNewest(W, x, stm.slot[x])
    BY <2>3 DEF StreamsRead
  <2>8. \A p \in Offsets : IsSection(Section(p))
    BY DEF Inv
  <2>9. HoldsRevisions(table', V)
    BY <1>1, <2>1, <2>5, <2>6, <2>7, <2>8, StreamsMerged
  <2>10. TablesRead(table', V, trailer)
    BY <2>2, <2>9 DEF TablesRead
  <2>11. TablesRead(table, V, trailer)'
    BY <1>1, <2>10, NewerKept
  <2> QED
    BY <1>1, <2>11 DEF TablesSoFar
<1> QED
  BY <1>2, <1>3 DEF Merge, Allocate

\* resolvePrevXrefTables goes to the next table, or the reading ends.
LEMMA ChainOfTablesTables ==
    ASSUME Inv, TablesSoFar, FollowPrev \/ Finish
    PROVE  TablesSoFar'
<1>1. file' = file /\ pc = "prev" /\ trailer \in Offsets
  BY DEF FollowPrev, Finish, Inv, TypeOK
<1>2. CASE FollowPrev
  <2>1. /\ pc' = "table" /\ at' = Older(trailer) /\ UNCHANGED <<table, trailer>>
    BY <1>1, <1>2 DEF FollowPrev, Older
  <2>2. \A V : TablesRead(table, V, trailer)' <=> TablesRead(table, V, trailer)
    BY <1>1, <2>1, NewerKept
  <2>3. at' = Older(trailer)'
    BY <1>1, <2>1, ChainsKept
  <2> QED
    BY <1>1, <2>1, <2>2, <2>3, ChainsKept DEF TablesSoFar
<1>3. CASE Finish
  <2>1. pc' \in {"done", "error"}
    BY <1>3 DEF Finish, Fail
  <2> QED
    BY <1>1, <2>1, TablesIdle
<1> QED
  BY <1>2, <1>3

LEMMA TablesStep ==
    ASSUME Inv, StreamsSoFar, TablesSoFar, [Next]_vars
    PROVE  TablesSoFar'
<1>1. CASE UNCHANGED vars
  <2>1. \A V : TablesRead(table, V, trailer)' <=> TablesRead(table, V, trailer)
    BY <1>1, NewerKept DEF vars
  <2> QED
    BY <1>1, <2>1, ChainsKept DEF vars, TablesSoFar
<1>2. CASE Next
  BY <1>2, StartTables, ReadTableTables, StreamTables, MergeTables,
     ChainOfTablesTables DEF Next
<1> QED
  BY <1>1, <1>2

\* The tables of a file are all read when the last trailer has no link: V is the chain.
LEMMA NewestRevisionStep ==
    ASSUME Inv, TablesSoFar, NewestRevisionWins, [Next]_vars
    PROVE  NewestRevisionWins'
<1>1. file' = file
  BY DEF Next, vars, Start, ReadTable, Trailer, ReadStream, FollowStreamPrev,
         ReadPrevStream, Reject, Merge, FollowPrev, Finish
<1> SUFFICES ASSUME pc' = "done", Section(file.start).kind = "table",
                    NEW r \in Revisions, NEW x \in Objects,
                    x < Section(trailer').size, Stands(r, x)
             PROVE  x \in DOMAIN table'.slot /\ FromNewer(r, table'.slot[x])
  BY <1>1, FileKept, ChainsKept, NewerKept DEF NewestRevisionWins
<1>2. CASE pc = "done"
  <2>1. UNCHANGED vars
    BY <1>2 DEF Next, Start, ReadTable, Trailer, ReadStream, FollowStreamPrev,
           ReadPrevStream, Reject, Merge, FollowPrev, Finish
  <2> QED
    BY <1>2, <2>1 DEF vars, NewestRevisionWins
<1>3. CASE pc # "done"
  <2>1. Here.kind \in {"table", "stream", "junk", "eof"} /\ Here.prev \in Links
    BY DEF Inv, TypeOK, IsSection, SectionKinds, Here
  <2>2. pc \in {"stream", "streamPrev", "prevStream", "merge"} => hybrid
    BY DEF Inv, TablesOK
  <2>3. Finish
    <3>1. ~Start
      BY <2>1 DEF Start, Allocate, Fail, Panic
    <3>2. StreamFails => pc' # "done"
      BY DEF StreamFails
    <3>3. ASSUME NEW t, NEW head, ReadRows(t, head) PROVE pc' # "done"
      BY <3>2, <3>3 DEF ReadRows, Allocate
    <3>4. ~ReadStream /\ ~ReadPrevStream
      BY <2>1, <3>2, <3>3 DEF ReadStream, ReadPrevStream, Panic
    <3>5. ~FollowStreamPrev
      BY <2>1, <2>2, <3>2, XrefAssumption DEF FollowStreamPrev, Links, None, BadLink
    <3>6. ~ReadTable
      BY <2>1 DEF ReadTable, Allocate, Fail, Panic
    <3>7. ~Trailer /\ ~Reject /\ ~Merge /\ ~FollowPrev
      BY <3>2 DEF Trailer, Reject, Merge, FollowPrev
    <3> QED
      BY <1>3, <3>1, <3>4, <3>5, <3>6, <3>7 DEF Next, vars
  <2>4. /\ pc = "prev" /\ trailer' = trailer /\ Section(trailer).prev \notin Offsets
        /\ table' = [table EXCEPT !.slot =
                       [y \in {z \in DOMAIN table.slot : z < Section(trailer).size} |->
                          table.slot[y]]]
    BY <2>3 DEF Finish, Fail
  <2>5. PICK V \in SUBSET Offsets : TablesRead(table, V, trailer)
    BY <2>4 DEF TablesSoFar
  <2>6. V = Revisions
    <3>1. Older(trailer) = None
      BY <2>4 DEF Older
    <3>2. \A q \in V : Older(q) \in V \cup {None}
      BY <2>5, <3>1 DEF TablesRead
    <3> QED
      BY <2>5, <3>2, ChainInClosed DEF TablesRead, Revisions
  <2>7. x \in DOMAIN table.slot /\ FromNewer(r, table.slot[x])
    BY <2>5, <2>6 DEF TablesRead, HoldsRevisions
  <2>8. x \in DOMAIN table'.slot /\ table'.slot[x] = table.slot[x]
    <3>1. table = [slot |-> table.slot, cap |-> table.cap]
      BY DEF Inv, IsTable
    <3> QED
      BY <2>4, <2>7, <3>1
  <2> QED
    BY <2>7, <2>8
<1> QED
  BY <1>2, <1>3

LEMMA ContentInit == Init => ContentInv
BY DEF Init, ContentInv, StreamsSoFar, TablesSoFar, NewestStreamWins, NewestRevisionWins

\* What the table holds is known in every state of the reader.
THEOREM ContentInvariant == Spec => []ContentInv
<1>1. Inv /\ ContentInv /\ [Next]_vars => ContentInv'
  BY StreamsStep, TablesStep, NewestStreamStep, NewestRevisionStep DEF ContentInv
<1> QED
  BY <1>1, ContentInit, Invariant, PTL DEF Spec

\* In a file that ends in a stream every object is what the newest stream that mentions
\* it says, and nothing else is there, except for what unzeroed memory held
\* (mergePrevXrefStreams, processXrefChunk).
THEOREM NewestStreamWinsCorrect == Spec => []NewestStreamWins
<1>1. ContentInv => NewestStreamWins
  BY DEF ContentInv
<1> QED
  BY <1>1, ContentInvariant, PTL

\* In a file that ends in a table an object that stands in a revision comes from it or
\* from a newer one, however many revisions there are and whichever XRefStm fails
\* (readXrefTable, resolvePrevXrefTables, handleTrailerXRefStm, mergeXrefTables).
THEOREM NewestRevisionWinsCorrect == Spec => []NewestRevisionWins
<1>1. ContentInv => NewestRevisionWins
  BY DEF ContentInv
<1> QED
  BY <1>1, ContentInvariant, PTL

-----------------------------------------------------------------------------
(* The parser, which reads what the tables lead to: its invariant. *)

CONSTANTS Inputs, Capacity, MaxElements

VARIABLES input, buf, scan, unread, frames, value, objptr, phase, call, results

Parse == INSTANCE Parser

\* Sequences of anything.
LEMMA IsSeqOf ==
    ASSUME NEW s, Parse!IsSeq(s)
    PROVE  s \in Seq({s[i] : i \in 1..Len(s)}) /\ Len(s) \in Nat
<1> DEFINE n == Len(s)
           T == {s[i] : i \in 1..n}
<1>1. s = [i \in 1..n |-> s[i]] /\ n \in Nat
  BY DEF Parse!IsSeq
<1>2. \A i \in 1..n : s[i] \in T
  OBVIOUS
<1> HIDE DEF T
<1>3. s \in [1..n -> T]
  BY <1>1, <1>2
<1> QED
  BY <1>1, <1>3, SeqDef DEF T

LEMMA IsSeqFrom ==
    ASSUME NEW T, NEW s \in Seq(T)
    PROVE  Parse!IsSeq(s)
BY LenProperties DEF Parse!IsSeq

LEMMA SeqAppended ==
    ASSUME NEW s, Parse!IsSeq(s), NEW x, NEW t, t = Append(s, x)
    PROVE  /\ Parse!IsSeq(t) /\ Len(t) = Len(s) + 1 /\ t # << >>
           /\ Parse!Last(t) = x
<1> DEFINE T == {s[i] : i \in 1..Len(s)} \cup {x}
<1>1. s \in Seq({s[i] : i \in 1..Len(s)}) /\ Len(s) \in Nat
  BY IsSeqOf
<1>2. {s[i] : i \in 1..Len(s)} \subseteq T /\ x \in T
  OBVIOUS
<1> HIDE DEF T
<1>3. s \in Seq(T)
  BY <1>1, <1>2, SeqMonotonic
<1>4. t \in Seq(T) /\ Len(t) = Len(s) + 1 /\ t[Len(s) + 1] = x
  BY <1>2, <1>3, AppendProperties
<1>5. Parse!IsSeq(t)
  BY <1>4, IsSeqFrom
<1>6. t # << >>
  BY <1>1, <1>4
<1> QED
  BY <1>4, <1>5, <1>6 DEF Parse!Last

LEMMA SeqShorter ==
    ASSUME NEW T, NEW s \in Seq(T), s # << >>
    PROVE  /\ Parse!Front(s) \in Seq(T)
           /\ Len(Parse!Front(s)) = Len(s) - 1
<1>1. Len(s) \in Nat /\ Len(s) # 0
  BY EmptySeq
<1>2. Parse!Front(s) \in Seq(T)
  BY <1>1 DEF Parse!Front
<1>3. Len(Parse!Front(s)) = Len(s) - 1
  <2>1. Parse!Front(s) = [i \in 1..Len(s) - 1 |-> s[i]]
    BY <1>1 DEF Parse!Front
  <2>2. Len(s) - 1 \in Nat
    BY <1>1
  <2>3. DOMAIN Parse!Front(s) = 1..Len(s) - 1
    BY <2>1
  <2> QED
    BY <1>2, <2>2, <2>3, LenProperties
<1> QED
  BY <1>2, <1>3

LEMMA SeqFront ==
    ASSUME NEW s, Parse!IsSeq(s), s # << >>
    PROVE  Parse!IsSeq(Parse!Front(s)) /\ Len(Parse!Front(s)) = Len(s) - 1
BY IsSeqOf, SeqShorter, IsSeqFrom

\* Two more elements.
TwoMore(s, x, y, t) == t = s \o <<x, y>>

LEMMA SeqTwo ==
    ASSUME NEW s, Parse!IsSeq(s), NEW x, NEW y, NEW t, TwoMore(s, x, y, t)
    PROVE  /\ Parse!IsSeq(t) /\ Len(t) = Len(s) + 2 /\ t # << >>
           /\ Parse!Last(t) = y
<1> DEFINE T == {s[i] : i \in 1..Len(s)} \cup {x, y}
<1>1. s \in Seq({s[i] : i \in 1..Len(s)}) /\ Len(s) \in Nat
  BY IsSeqOf
<1>2. {s[i] : i \in 1..Len(s)} \subseteq T /\ x \in T /\ y \in T
  OBVIOUS
<1> HIDE DEF T
<1>3. s \in Seq(T)
  BY <1>1, <1>2, SeqMonotonic
<1>4. <<x, y>> \in Seq(T) /\ Len(<<x, y>>) = 2 /\ <<x, y>>[2] = y
  BY <1>2
<1>5. t \in Seq(T) /\ Len(t) = Len(s) + 2 /\ t[Len(s) + 2] = y
  BY <1>1, <1>3, <1>4, ConcatProperties DEF TwoMore
<1>6. Parse!IsSeq(t)
  BY <1>5, IsSeqFrom
<1>7. t # << >>
  BY <1>1, <1>5
<1> QED
  BY <1>5, <1>6, <1>7 DEF Parse!Last

\* How many tokens may be left behind the one that a frame gets.
Behind(fs) ==
    IF fs = << >> THEN 2
    ELSE CASE Parse!Last(fs).wait \in {"third", "second", "end", "stream"} -> 0
           [] Parse!Last(fs).wait = "data" -> 2
           [] OTHER -> 1

RoomOf(fs) ==
    IF fs = << >> THEN 2
    ELSE CASE Parse!Last(fs).wait = "third" -> 0
           [] Parse!Last(fs).wait \in {"second", "end", "stream"} -> 1
           [] OTHER -> 2

\* LookAheadOK of a phase, tokens given back and frames.
Ahead(ph, u, fs) ==
    /\ ph = "token" => Len(u) <= RoomOf(fs)
    /\ ph = "line end" => fs # << >> /\ Parse!Last(fs).wait = "data"
    /\ ph = "scan" => u = << >> \/ (fs # << >> /\ Parse!Last(fs).wait = "data")

LEMMA LookAheadIs ==
    /\ Parse!LookAheadOK <=> Ahead(phase, unread, frames)
    /\ Parse!LookAheadOK' <=> Ahead(phase', unread', frames')
BY DEF Parse!LookAheadOK, Parse!AwaitsData, Parse!Room, Parse!Top, Ahead, RoomOf

\* What a token does to the stacks of the parser.
Moved(u, fs, ph) ==
    /\ Parse!IsSeq(u) /\ Parse!IsSeq(fs) /\ Len(u) <= 2
    /\ ph \in {"value", "token", "line end", "panicked"}
    /\ Ahead(ph, u, fs)

LEMMA ReturnMoves ==
    ASSUME NEW v, Parse!Return(v), Parse!IsSeq(frames), frames # << >>,
           Parse!IsSeq(unread'), Len(unread') <= 2
    PROVE  Moved(unread', frames', phase')
<1>1. frames' = Parse!Front(frames) /\ phase' = "value"
  BY DEF Parse!Return, Parse!Under
<1> QED
  BY <1>1, SeqFront DEF Moved, Ahead

LEMMA BecomeMoves ==
    ASSUME NEW f, Parse!Become(f), Parse!IsSeq(frames), frames # << >>,
           Parse!IsSeq(unread'), Len(unread') <= 2,
           f.wait = "third" => Len(unread') <= 0,
           f.wait \in {"second", "end", "stream"} => Len(unread') <= 1
    PROVE  Moved(unread', frames', phase')
<1>1. frames' = Append(Parse!Front(frames), f) /\ phase' = "token"
  BY DEF Parse!Become, Parse!Under
<1>2. Parse!IsSeq(frames') /\ frames' # << >> /\ Parse!Last(frames') = f
  BY <1>1, SeqFront, SeqAppended
<1>3. Len(unread') <= RoomOf(frames')
  BY <1>2 DEF RoomOf
<1> QED
  BY <1>1, <1>2, <1>3 DEF Moved, Ahead

LEMMA ReadObjectMoves ==
    ASSUME NEW f, Parse!ReadObject(f), Parse!IsSeq(frames), frames # << >>,
           Parse!IsSeq(unread'), Len(unread') <= 2
    PROVE  Moved(unread', frames', phase')
<1>1. TwoMore(Parse!Front(frames), f, [wait |-> "object"], frames') /\ phase' = "token"
  BY DEF Parse!ReadObject, Parse!Under, TwoMore
<1>2. Parse!IsSeq(frames') /\ frames' # << >> /\ Parse!Last(frames') = [wait |-> "object"]
  BY <1>1, SeqFront, SeqTwo
<1>3. Len(unread') <= RoomOf(frames')
  BY <1>2 DEF RoomOf
<1> QED
  BY <1>1, <1>2, <1>3 DEF Moved, Ahead

LEMMA FailMoves ==
    ASSUME Parse!Fail, Parse!IsSeq(frames), Parse!IsSeq(unread'), Len(unread') <= 2
    PROVE  Moved(unread', frames', phase')
BY DEF Parse!Fail, Moved, Ahead

\* A token for the top frame, or for the caller.
LEMMA DeliverMoves ==
    ASSUME NEW t, NEW rest, NEW b, Parse!Deliver(t, rest, b),
           Parse!IsSeq(frames), Parse!IsSeq(rest), Len(rest) <= Behind(frames)
    PROVE  Moved(unread', frames', phase')
<1>1. Len(rest) \in Nat
  BY DEF Parse!IsSeq
<1>2. CASE frames = << >>
  <2>1. unread' = rest /\ frames' = frames /\ phase' = "value"
    BY <1>2 DEF Parse!Deliver
  <2> QED
    BY <1>2, <2>1 DEF Moved, Ahead, Behind
<1>3. CASE frames # << >>
  <2> DEFINE wait == Parse!Top.wait
  <2>1. /\ Len(rest) <= 2
        /\ wait # "data" => Len(rest) <= 1
        /\ wait \in {"third", "second", "end", "stream"} => Len(rest) = 0
    BY <1>1, <1>3 DEF Behind, Parse!Top
  <2>2. \A x : Parse!IsSeq(Append(rest, x)) /\ Len(Append(rest, x)) = Len(rest) + 1
    BY SeqAppended
  <2>3. \A v : Parse!Kept(v) => unread' = v
    BY DEF Parse!Kept
  <2>4. CASE Parse!ObjectToken(t, rest)
    <3>1. wait = "object" /\ unread' = rest
      BY <2>3, <2>4 DEF Parse!ObjectToken
    <3>2. \/ \E v : Parse!Return(v)
          \/ Parse!Become([wait |-> "key", map |-> << >>])
          \/ Parse!Become([wait |-> "element", elems |-> << >>])
          \/ Parse!Become([wait |-> "second", int |-> t])
          \/ Parse!Fail
      BY <2>4 DEF Parse!ObjectToken
    <3> QED
      BY <1>3, <2>1, <3>1, <3>2, ReturnMoves, BecomeMoves, FailMoves
  <2>5. CASE Parse!SecondToken(t, rest)
    <3>1. wait = "second"
      BY <2>5 DEF Parse!SecondToken
    <3>2. CASE Parse!IsGen(t)
      <4>1. unread' = rest
        BY <2>3, <2>5, <3>2 DEF Parse!SecondToken
      <4>2. Parse!Become([wait |-> "third", int |-> Parse!Top.int, next |-> t])
        BY <2>5, <3>2 DEF Parse!SecondToken
      <4> QED
        BY <1>3, <2>1, <3>1, <4>1, <4>2, BecomeMoves
    <3>3. CASE ~Parse!IsGen(t)
      <4>1. unread' = Append(rest, t) /\ Parse!Return(Parse!Top.int)
        BY <2>3, <2>5, <3>3 DEF Parse!SecondToken
      <4>2. Parse!IsSeq(unread') /\ Len(unread') <= 2
        BY <2>1, <2>2, <3>1, <4>1
      <4> QED
        BY <1>3, <4>1, <4>2, ReturnMoves
    <3> QED
      BY <3>2, <3>3
  <2>6. CASE Parse!ThirdToken(t, rest)
    <3>1. wait = "third"
      BY <2>6 DEF Parse!ThirdToken
    <3>2. CASE Parse!IsWord(t, "R")
      BY <1>3, <2>1, <2>3, <2>6, <3>1, <3>2, ReturnMoves DEF Parse!ThirdToken
    <3>3. CASE ~Parse!IsWord(t, "R") /\ Parse!IsWord(t, "obj")
      BY <1>3, <2>1, <2>6, <3>1, <3>3, ReadObjectMoves DEF Parse!ThirdToken
    <3>4. CASE ~Parse!IsWord(t, "R") /\ ~Parse!IsWord(t, "obj")
      <4>1. TwoMore(rest, t, Parse!Top.next, unread') /\ Parse!Return(Parse!Top.int)
        BY <2>3, <2>6, <3>4 DEF Parse!ThirdToken, TwoMore
      <4>2. Parse!IsSeq(unread') /\ Len(unread') <= 2
        BY <2>1, <3>1, <4>1, SeqTwo
      <4> QED
        BY <1>3, <4>1, <4>2, ReturnMoves
    <3> QED
      BY <3>2, <3>3, <3>4
  <2>7. CASE Parse!EndobjToken(t, rest)
    <3>1. wait = "endobj" /\ unread' = rest /\ ((\E v : Parse!Return(v)) \/ Parse!Fail)
      BY <2>7 DEF Parse!EndobjToken
    <3> QED
      BY <1>3, <2>1, <3>1, ReturnMoves, FailMoves
  <2>8. CASE Parse!ElementToken(t, rest)
    <3>1. wait = "element"
      BY <2>8 DEF Parse!ElementToken
    <3>2. CASE Parse!IsWord(t, "]")
      BY <1>3, <2>1, <2>3, <2>8, <3>1, <3>2, ReturnMoves DEF Parse!ElementToken
    <3>3. CASE ~Parse!IsWord(t, "]")
      <4>1. unread' = Append(rest, t) /\ Parse!ReadObject(Parse!Top)
        BY <2>3, <2>8, <3>3 DEF Parse!ElementToken
      <4>2. Parse!IsSeq(unread') /\ Len(unread') <= 2
        BY <1>1, <2>1, <2>2, <3>1, <4>1
      <4> QED
        BY <1>3, <4>1, <4>2, ReadObjectMoves
    <3> QED
      BY <3>2, <3>3
  <2>9. \A map : Parse!EndDict(map) =>
           \/ Parse!Become([wait |-> "stream", map |-> map])
           \/ \E v : Parse!Return(v)
    BY DEF Parse!EndDict
  <2>10. CASE Parse!KeyToken(t, rest)
    <3>1. wait = "key" /\ unread' = rest
      BY <2>3, <2>10 DEF Parse!KeyToken
    <3>2. \/ Parse!EndDict(Parse!Top.map)
          \/ Parse!Become([wait |-> "end", map |-> Parse!Top.map])
          \/ Parse!ReadObject([wait |-> "entry", map |-> Parse!Top.map, key |-> t.name])
          \/ Parse!Fail
      BY <2>10 DEF Parse!KeyToken
    <3> QED
      BY <1>3, <2>1, <2>9, <3>1, <3>2, ReturnMoves, BecomeMoves, ReadObjectMoves, FailMoves
  <2>11. CASE Parse!EndToken(t, rest)
    <3>1. wait = "end" /\ unread' = rest /\ Parse!EndDict(Parse!Top.map)
      BY <2>3, <2>11 DEF Parse!EndToken
    <3> QED
      BY <1>3, <2>1, <2>9, <3>1, ReturnMoves, BecomeMoves
  <2>12. CASE Parse!StreamToken(t, rest)
    <3>1. wait = "stream"
      BY <2>12 DEF Parse!StreamToken
    <3>2. CASE Parse!IsWord(t, "stream")
      <4> DEFINE f == [wait |-> "data", map |-> Parse!Top.map]
      <4>1. unread' = rest /\ phase' = "line end" /\ frames' = Append(Parse!Front(frames), f)
        BY <2>3, <2>12, <3>2 DEF Parse!StreamToken, Parse!Under
      <4>2. f.wait = "data"
        OBVIOUS
      <4> HIDE DEF f
      <4>3. Parse!IsSeq(frames') /\ frames' # << >> /\ Parse!Last(frames') = f
        BY <1>3, <4>1, SeqFront, SeqAppended
      <4> QED
        BY <2>1, <4>1, <4>2, <4>3 DEF Moved, Ahead
    <3>3. CASE ~Parse!IsWord(t, "stream")
      <4>1. unread' = Append(rest, t) /\ \E v : Parse!Return(v)
        BY <2>3, <2>12, <3>3 DEF Parse!StreamToken
      <4>2. Parse!IsSeq(unread') /\ Len(unread') <= 2
        BY <2>1, <2>2, <3>1, <4>1
      <4> QED
        BY <1>3, <4>1, <4>2, ReturnMoves
    <3> QED
      BY <3>2, <3>3
  <2>13. CASE Parse!DataToken(t, rest, b)
    BY <1>3, <2>1, <2>3, <2>13, ReturnMoves DEF Parse!DataToken
  <2> QED
    BY <1>3, <2>4, <2>5, <2>6, <2>7, <2>8, <2>10, <2>11, <2>12, <2>13 DEF Parse!Deliver
<1> QED
  BY <1>2, <1>3

\* The bytes of the buffer are bytes of the text, and the index is in it but for a
\* seek to a place before.
GoodBuffer(b, i) ==
    /\ b \in [start : Nat, len : Nat, pos : Int, eof : BOOLEAN]
    /\ b.start + b.len <= Len(i.text) /\ b.pos <= b.len
    /\ b.pos < 0 => \E c \in Parse!ToSet(i.calls) : c.op = "seek" /\ c.to < b.start
    /\ b.eof => b.start = Len(i.text)

\* CallOK of a phase and a call.
InCall(ph, k, i) ==
    /\ ph \notin {"call", "done", "panicked"} => k \in DOMAIN i.calls
    /\ ph = "seek" => i.calls[k].op = "seek"

\* The invariant of the parser, its parts apart.
Parts(i, b, u, fs, ph, k, res) ==
    /\ i \in Inputs /\ ph \in Parse!Phases
    /\ GoodBuffer(b, i)
    /\ Parse!IsSeq(u) /\ Parse!IsSeq(fs) /\ Parse!IsSeq(res)
    /\ Len(u) <= 2 /\ Ahead(ph, u, fs)
    /\ k \in 1..Len(i.calls) + 1 /\ Len(res) < k /\ InCall(ph, k, i)

LEMMA ParserInvIs ==
    /\ Parse!Inv <=> Parts(input, buf, unread, frames, phase, call, results)
    /\ Parse!Inv' <=> Parts(input', buf', unread', frames', phase', call', results')
<1>1. Parse!Inv <=> Parts(input, buf, unread, frames, phase, call, results)
  BY LookAheadIs DEF Parse!Inv, Parse!TypeOK, Parse!ShapeOK, Parse!CallOK, Parts,
     GoodBuffer, InCall
<1>2. Parse!Inv' <=> Parts(input', buf', unread', frames', phase', call', results')
  BY LookAheadIs DEF Parse!Inv, Parse!TypeOK, Parse!ShapeOK, Parse!CallOK, Parts,
     GoodBuffer, InCall
<1> QED
  BY <1>1, <1>2

LEMMA InputTyped ==
    ASSUME Parse!ParserAssumption, NEW i \in Inputs
    PROVE  /\ i.text \in Seq(STRING) /\ Len(i.text) \in Nat
           /\ Len(i.calls) \in Nat /\ DOMAIN i.calls = 1..Len(i.calls)
           /\ \A k \in DOMAIN i.calls :
                 i.calls[k].op \in {"token", "object", "seek"}
                 /\ (i.calls[k].op = "seek" => i.calls[k].to \in Nat)
                 /\ i.calls[k] \in Parse!ToSet(i.calls)
           /\ Capacity \in Nat \ {0}
<1>1. i.text \in Seq(STRING) /\ i.calls \in Seq(Parse!Calls) /\ Capacity \in Nat \ {0}
  BY DEF Parse!ParserAssumption
<1>2. \A c \in Parse!Calls : c.op \in {"token", "object", "seek"}
                             /\ (c.op = "seek" => c.to \in Nat)
  BY DEF Parse!Calls
<1> QED
  BY <1>1, <1>2, LenProperties DEF Parse!ToSet

\* A byte given back.
LEMMA UnreadGood ==
    ASSUME NEW i, NEW b, GoodBuffer(b, i), Len(i.text) \in Nat
    PROVE  GoodBuffer(Parse!UnreadByte(b), i)
<1>1. CASE b.pos > 0
  <2> DEFINE c == [b EXCEPT !.pos = @ - 1]
  <2>1. /\ c \in [start : Nat, len : Nat, pos : Int, eof : BOOLEAN]
        /\ c.start = b.start /\ c.len = b.len /\ c.eof = b.eof
        /\ c.pos = b.pos - 1 /\ b.pos \in Int /\ b.len \in Nat
    BY DEF GoodBuffer
  <2>2. Parse!UnreadByte(b) = c
    BY <1>1 DEF Parse!UnreadByte
  <2> HIDE DEF c
  <2>3. c.pos >= 0 /\ c.pos <= c.len
    BY <1>1, <2>1 DEF GoodBuffer
  <2> QED
    BY <2>1, <2>2, <2>3 DEF GoodBuffer
<1>2. CASE ~(b.pos > 0)
  BY <1>2 DEF Parse!UnreadByte
<1> QED
  BY <1>1, <1>2

\* A buffer that is filled again, and the one behind the end.
LEMMA ReloadedGood ==
    ASSUME Parse!ParserAssumption, NEW i \in Inputs, NEW b, GoodBuffer(b, i),
           NEW n \in Parse!Reloads(b, i.text, Capacity)
    PROVE  LET r == Parse!Reloaded(b, n)
           IN /\ GoodBuffer(r, i) /\ r.len >= 1 /\ r.pos = 0
              /\ GoodBuffer([r EXCEPT !.pos = 1], i)
<1> DEFINE r == Parse!Reloaded(b, n)
           s == [r EXCEPT !.pos = 1]
<1>1. b.start \in Nat /\ b.len \in Nat /\ b.eof \in BOOLEAN /\ Len(i.text) \in Nat
      /\ (b.eof => b.start = Len(i.text))
  BY InputTyped DEF GoodBuffer
<1>2. n \in Int /\ n >= 1 /\ b.start + b.len + n <= Len(i.text)
  <2>1. (b.start + b.len) % Capacity \in Nat
    BY <1>1, InputTyped
  <2> QED
    BY <1>1, <2>1, InputTyped DEF Parse!Reloads, Parse!ReaderOffset
<1>3. r = [start |-> b.start + b.len, len |-> n, pos |-> 0, eof |-> b.eof]
  BY DEF Parse!Reloaded, Parse!ReaderOffset
<1>4. ~b.eof
  BY <1>1, <1>2
<1>5. s = [start |-> b.start + b.len, len |-> n, pos |-> 1, eof |-> b.eof]
  BY <1>3
<1> HIDE DEF r, s
<1>6. GoodBuffer(r, i)
  BY <1>1, <1>2, <1>3, <1>4 DEF GoodBuffer
<1>7. GoodBuffer(s, i)
  BY <1>1, <1>2, <1>4, <1>5 DEF GoodBuffer
<1> QED
  BY <1>2, <1>3, <1>6, <1>7 DEF r, s

LEMMA AtEndGood ==
    ASSUME NEW i, NEW b, GoodBuffer(b, i), Parse!ReaderOffset(b) = Len(i.text)
    PROVE  GoodBuffer(Parse!AtEnd(b), i)
<1> DEFINE e == Parse!AtEnd(b)
<1>1. e = [start |-> b.start + b.len, len |-> 0, pos |-> 0, eof |-> TRUE]
  BY DEF Parse!AtEnd, Parse!ReaderOffset
<1>2. b.start \in Nat /\ b.len \in Nat /\ b.start + b.len = Len(i.text)
  BY DEF GoodBuffer, Parse!ReaderOffset
<1> HIDE DEF e
<1>3. GoodBuffer(e, i)
  BY <1>1, <1>2 DEF GoodBuffer
<1> QED
  BY <1>3 DEF e

\* A byte for the scanner.
LEMMA FeedMoves ==
    ASSUME NEW c, NEW b, Parse!Feed(c, b), phase = "scan",
           GoodBuffer(b, input), Len(input.text) \in Nat,
           Parse!IsSeq(frames), Parse!IsSeq(unread), Len(unread) <= 2,
           Ahead(phase, unread, frames)
    PROVE  /\ GoodBuffer(buf', input)
           /\ \/ Moved(unread', frames', phase')
              \/ unread' = unread /\ frames' = frames /\ phase' = phase
<1> DEFINE r == Parse!Scan(scan, c, b.eof)
           after == IF r.back THEN Parse!UnreadByte(b) ELSE b
<1>1. buf' = after
  BY DEF Parse!Feed
<1>2. after = Parse!UnreadByte(b) \/ after = b
  OBVIOUS
<1>3. GoodBuffer(buf', input)
  BY <1>1, <1>2, UnreadGood
<1>4. \/ unread' = unread /\ frames' = frames /\ phase' = phase
      \/ Parse!Fail /\ unread' = unread
      \/ Parse!Deliver(r.tok, unread, after)
  BY DEF Parse!Feed
<1>5. Len(unread) <= Behind(frames)
  <2>1. unread = << >> \/ (frames # << >> /\ Parse!Last(frames).wait = "data")
    BY DEF Ahead
  <2>2. Len(<< >>) = 0
    OBVIOUS
  <2>3. Behind(frames) \in Nat
    BY DEF Behind
  <2> QED
    BY <2>1, <2>2, <2>3 DEF Behind
<1> HIDE DEF r, after
<1>6. Parse!Fail /\ unread' = unread => Moved(unread', frames', phase')
  BY FailMoves
<1>7. Parse!Deliver(r.tok, unread, after) => Moved(unread', frames', phase')
  BY <1>5, DeliverMoves
<1> QED
  BY <1>3, <1>4, <1>6, <1>7

LEMMA ParserInit ==
    ASSUME Parse!ParserAssumption, Parse!Init
    PROVE  Parse!Inv
<1>1. /\ input \in Inputs /\ buf = Parse!EmptyBuffer /\ unread = << >> /\ frames = << >>
      /\ phase = "call" /\ call = 1 /\ results = << >>
  BY DEF Parse!Init
<1>2. Len(input.text) \in Nat /\ Len(input.calls) \in Nat
  BY <1>1, InputTyped
<1>3. GoodBuffer(buf, input)
  BY <1>1, <1>2 DEF GoodBuffer, Parse!EmptyBuffer
<1>4. Parse!IsSeq(<< >>) /\ Len(<< >>) = 0
  BY EmptySeq, IsSeqFrom
<1>5. "call" \in Parse!Phases
  BY DEF Parse!Phases
<1>6. Ahead(phase, unread, frames) /\ InCall(phase, call, input)
  BY <1>1 DEF Ahead, InCall
<1>7. call \in 1..Len(input.calls) + 1 /\ Len(results) < call /\ Len(unread) <= 2
  BY <1>1, <1>2, <1>4
<1> QED
  BY <1>1, <1>3, <1>4, <1>5, <1>6, <1>7, ParserInvIs DEF Parts

\* The call under way goes on: its token has moved the stacks, or nothing has.
LEMMA MovedKeeps ==
    ASSUME Parts(input, buf, unread, frames, phase, call, results),
           phase \in {"token", "scan", "value"},
           UNCHANGED <<input, call, results>>, GoodBuffer(buf', input),
           \/ Moved(unread', frames', phase')
           \/ unread' = unread /\ frames' = frames /\ phase' = phase
    PROVE  Parts(input', buf', unread', frames', phase', call', results')
<1>1. /\ Parse!IsSeq(unread') /\ Parse!IsSeq(frames') /\ Len(unread') <= 2
      /\ Ahead(phase', unread', frames')
      /\ phase' \in Parse!Phases /\ phase' # "seek"
  BY DEF Moved, Parts, Parse!Phases
<1>2. InCall(phase', call', input)
  BY <1>1 DEF InCall, Parts
<1> QED
  BY <1>1, <1>2 DEF Parts

LEMMA ParserCall ==
    ASSUME Parse!ParserAssumption, Parse!Call,
           Parts(input, buf, unread, frames, phase, call, results)
    PROVE  Parts(input', buf', unread', frames', phase', call', results')
<1> DEFINE f == [wait |-> "object"]
<1>1. /\ call \in DOMAIN input.calls
      /\ phase' = IF input.calls[call].op = "seek" THEN "seek" ELSE "token"
      /\ frames' = << >> \/ frames' = Append(<< >>, f)
      /\ input' = input /\ buf' = buf /\ unread' = unread /\ call' = call
      /\ results' = results
  BY DEF Parse!Call, Parse!bytes
<1>2. Parse!IsSeq(<< >>)
  BY EmptySeq, IsSeqFrom
<1>3. Parse!IsSeq(frames') /\ RoomOf(frames') = 2
  <2>1. CASE frames' = << >>
    BY <1>2, <2>1 DEF RoomOf
  <2>2. CASE frames' = Append(<< >>, f)
    <3>1. f.wait = "object"
      OBVIOUS
    <3> HIDE DEF f
    <3>2. Parse!IsSeq(frames') /\ frames' # << >> /\ Parse!Last(frames') = f
      BY <1>2, <2>2, SeqAppended
    <3> QED
      BY <3>1, <3>2 DEF RoomOf
  <2> QED
    BY <1>1, <2>1, <2>2
<1>4. Ahead(phase', unread', frames')
  BY <1>1, <1>3 DEF Ahead, Parts
<1>5. phase' \in Parse!Phases /\ InCall(phase', call', input')
  BY <1>1 DEF Parse!Phases, InCall
<1> QED
  BY <1>1, <1>3, <1>4, <1>5 DEF Parts

LEMMA ParserSeek ==
    ASSUME Parse!ParserAssumption, Parse!Seek,
           Parts(input, buf, unread, frames, phase, call, results)
    PROVE  Parts(input', buf', unread', frames', phase', call', results')
<1> DEFINE to == input.calls[call].to
<1>1. /\ phase = "seek" /\ input' = input /\ unread' = unread /\ frames' = frames
      /\ results' = results
  BY DEF Parse!Seek
<1>2. /\ call \in DOMAIN input.calls /\ input.calls[call].op = "seek"
      /\ input \in Inputs /\ GoodBuffer(buf, input)
      /\ Parse!IsSeq(results) /\ Len(results) < call
  BY <1>1 DEF Parts, InCall
<1>3. /\ to \in Nat /\ Len(input.text) \in Nat /\ Len(input.calls) \in Nat
      /\ DOMAIN input.calls = 1..Len(input.calls)
      /\ input.calls[call] \in Parse!ToSet(input.calls)
  BY <1>2, InputTyped
<1>4. Len(results) \in Nat
  BY <1>2 DEF Parse!IsSeq
<1>5. ASSUME phase' \in {"call", "seek", "panicked"}, GoodBuffer(buf', input),
             \/ call' = call
             \/ call' = call + 1 /\ phase' = "call"
      PROVE  Parts(input', buf', unread', frames', phase', call', results')
  <2>1. call' \in 1..Len(input.calls) + 1 /\ Len(results) < call'
    BY <1>2, <1>3, <1>4, <1>5
  <2>2. InCall(phase', call', input)
    BY <1>2, <1>5 DEF InCall
  <2>3. phase' \in Parse!Phases /\ Ahead(phase', unread', frames')
    BY <1>5 DEF Parse!Phases, Ahead
  <2> QED
    BY <1>1, <1>5, <2>1, <2>2, <2>3 DEF Parts
<1>6. CASE Parse!ReaderOffset(buf) < to
  <2>1. \/ /\ \E n \in Parse!Reloads(buf, input.text, Capacity) : buf' = Parse!Reloaded(buf, n)
           /\ phase' = phase /\ call' = call
        \/ /\ Parse!ReaderOffset(buf) = Len(input.text)
           /\ buf' = Parse!AtEnd(buf)
           /\ \/ phase' = "call" /\ call' = call + 1
              \/ phase' = "panicked" /\ call' = call
    BY <1>6 DEF Parse!Seek
  <2>2. GoodBuffer(buf', input)
    <3>1. CASE \E n \in Parse!Reloads(buf, input.text, Capacity) :
                  buf' = Parse!Reloaded(buf, n)
      BY <1>2, <3>1, ReloadedGood
    <3>2. CASE Parse!ReaderOffset(buf) = Len(input.text) /\ buf' = Parse!AtEnd(buf)
      BY <1>2, <3>2, AtEndGood
    <3> QED
      BY <2>1, <3>1, <3>2
  <2> QED
    BY <1>1, <1>5, <2>1, <2>2
<1>7. CASE ~(Parse!ReaderOffset(buf) < to)
  <2> DEFINE pos == buf.len - (Parse!ReaderOffset(buf) - to)
  <2>1. buf' = [buf EXCEPT !.pos = pos] /\ phase' = "call" /\ call' = call + 1
    BY <1>7 DEF Parse!Seek
  <2>2. buf.start \in Nat /\ buf.len \in Nat /\ pos = to - buf.start /\ pos <= buf.len
    BY <1>2, <1>3, <1>7 DEF GoodBuffer, Parse!ReaderOffset
  <2>3. /\ buf' \in [start : Nat, len : Nat, pos : Int, eof : BOOLEAN]
        /\ buf'.start = buf.start /\ buf'.len = buf.len /\ buf'.eof = buf.eof
        /\ buf'.pos = pos
    <3>1. pos \in Int
      BY <1>3, <2>2
    <3> HIDE DEF pos
    <3> QED
      BY <1>2, <2>1, <3>1 DEF GoodBuffer
  <2> HIDE DEF pos
  <2>4. pos < 0 => to < buf.start
    BY <1>3, <2>2
  <2>5. GoodBuffer(buf', input)
    <3> HIDE DEF to
    <3>1. pos < 0 => \E c \in Parse!ToSet(input.calls) : c.op = "seek" /\ c.to < buf.start
      BY <1>2, <1>3, <2>4 DEF to
    <3> QED
      BY <1>2, <2>2, <2>3, <3>1 DEF GoodBuffer
  <2> QED
    BY <1>5, <2>1, <2>5
<1> QED
  BY <1>6, <1>7

LEMMA ParserGive ==
    ASSUME Parse!ParserAssumption, Parse!Give,
           Parts(input, buf, unread, frames, phase, call, results)
    PROVE  Parts(input', buf', unread', frames', phase', call', results')
<1>1. /\ phase = "value" /\ input' = input /\ buf' = buf /\ unread' = unread
  BY DEF Parse!Give, Parse!bytes
<1>2. /\ GoodBuffer(buf, input) /\ Parse!IsSeq(frames) /\ Parse!IsSeq(unread)
      /\ Parse!IsSeq(results) /\ Len(unread) <= 2
  BY DEF Parts
<1>3. CASE Parse!GiveResult
  <2>1. /\ results' = Append(results, value) /\ call' = call + 1 /\ phase' = "call"
        /\ frames' = frames
    BY <1>3 DEF Parse!GiveResult
  <2>2. /\ Parse!IsSeq(results') /\ Len(results') = Len(results) + 1
        /\ Len(results) \in Nat
    <3>1. Parse!IsSeq(results') /\ Len(results') = Len(results) + 1
      BY <1>2, <2>1, SeqAppended
    <3>2. Len(results) \in Nat
      BY <1>2 DEF Parse!IsSeq
    <3> QED
      BY <3>1, <3>2
  <2>3. call \in DOMAIN input.calls /\ input \in Inputs /\ Len(results) < call
    BY <1>1 DEF Parts, InCall
  <2>4. call' \in 1..Len(input.calls) + 1 /\ Len(results') < call'
    BY <2>1, <2>2, <2>3, InputTyped
  <2>5. "call" \in Parse!Phases /\ Ahead("call", unread, frames)
        /\ InCall("call", call', input)
    BY DEF Parse!Phases, Ahead, InCall
  <2> QED
    BY <1>1, <2>1, <2>2, <2>4, <2>5 DEF Parts
<1>4. ASSUME frames # << >>, call' = call, results' = results,
             \/ \E v : Parse!Return(v)
             \/ \E f : Parse!Become(f) /\ f.wait \in {"element", "key", "endobj"}
      PROVE  Parts(input', buf', unread', frames', phase', call', results')
  <2>1. Moved(unread', frames', phase')
    BY <1>1, <1>2, <1>4, ReturnMoves, BecomeMoves
  <2> QED
    BY <1>1, <1>2, <1>4, <2>1, MovedKeeps
<1>5. CASE Parse!GiveElement
  BY <1>4, <1>5 DEF Parse!GiveElement
<1>6. CASE Parse!GiveEntry
  <2>1. \E g : Parse!Become(g) /\ g.wait = "key"
    BY <1>6 DEF Parse!GiveEntry
  <2> QED
    BY <1>4, <1>6, <2>1 DEF Parse!GiveEntry
<1>7. CASE Parse!GiveDefinition
  <2>1. \/ \E v : Parse!Return(v)
        \/ Parse!Become([wait |-> "endobj", old |-> Parse!Top.old, obj |-> value])
    BY <1>7 DEF Parse!GiveDefinition
  <2> QED
    BY <1>4, <1>7, <2>1 DEF Parse!GiveDefinition
<1> QED
  BY <1>3, <1>5, <1>6, <1>7 DEF Parse!Give

LEMMA ParserStep ==
    ASSUME Parse!ParserAssumption, Parse!Inv, [Parse!Next]_(Parse!vars)
    PROVE  Parse!Inv'
<1>1. Parts(input, buf, unread, frames, phase, call, results)
  BY ParserInvIs
<1>2. SUFFICES Parts(input', buf', unread', frames', phase', call', results')
  BY ParserInvIs
<1>3. /\ GoodBuffer(buf, input) /\ Parse!IsSeq(frames) /\ Parse!IsSeq(unread)
      /\ Len(unread) <= 2 /\ Len(unread) \in Nat
      /\ Ahead(phase, unread, frames) /\ input \in Inputs /\ Len(input.text) \in Nat
  BY <1>1, InputTyped DEF Parts, Parse!IsSeq
<1>4. CASE Parse!Done
  <2>1. /\ phase' = "done" /\ input' = input /\ buf' = buf /\ unread' = unread
        /\ frames' = frames /\ call' = call /\ results' = results
    BY <1>4 DEF Parse!Done, Parse!bytes
  <2>2. "done" \in Parse!Phases /\ Ahead("done", unread, frames)
        /\ InCall("done", call, input)
    BY DEF Parse!Phases, Ahead, InCall
  <2> QED
    BY <1>1, <2>1, <2>2 DEF Parts
<1>5. CASE Parse!TakeUnread
  <2>1. /\ phase = "token" /\ unread # << >>
        /\ Parse!Deliver(Parse!Last(unread), Parse!Front(unread), buf)
        /\ input' = input /\ buf' = buf /\ call' = call /\ results' = results
    BY <1>5 DEF Parse!TakeUnread, Parse!bytes
  <2>2. Parse!IsSeq(Parse!Front(unread)) /\ Len(Parse!Front(unread)) = Len(unread) - 1
    BY <1>3, <2>1, SeqFront
  <2>3. Len(unread) <= RoomOf(frames)
    BY <1>3, <2>1 DEF Ahead
  <2>4. Len(Parse!Front(unread)) \in Nat
    BY <2>2 DEF Parse!IsSeq
  <2>5. Len(Parse!Front(unread)) <= Behind(frames)
    BY <1>3, <2>2, <2>3, <2>4 DEF RoomOf, Behind
  <2>6. Moved(unread', frames', phase')
    BY <1>3, <2>1, <2>2, <2>5, DeliverMoves
  <2> QED
    BY <1>1, <1>3, <2>1, <2>6, MovedKeeps
<1>6. CASE Parse!StartScan
  <2>1. /\ (phase = "token" /\ unread = << >>) \/ phase = "line end"
        /\ phase' = "scan" /\ input' = input /\ buf' = buf /\ unread' = unread
        /\ frames' = frames /\ call' = call /\ results' = results
    BY <1>6 DEF Parse!StartScan
  <2>2. "scan" \in Parse!Phases /\ Ahead("scan", unread, frames)
        /\ InCall("scan", call, input)
    BY <1>1, <1>3, <2>1 DEF Parse!Phases, Ahead, InCall, Parts
  <2> QED
    BY <1>1, <2>1, <2>2 DEF Parts
<1>7. ASSUME NEW c, NEW b, Parse!Feed(c, b), GoodBuffer(b, input), phase = "scan",
             input' = input, call' = call, results' = results
      PROVE  Parts(input', buf', unread', frames', phase', call', results')
  <2>1. /\ GoodBuffer(buf', input)
        /\ \/ Moved(unread', frames', phase')
           \/ unread' = unread /\ frames' = frames /\ phase' = phase
    BY <1>3, <1>7, FeedMoves
  <2> QED
    BY <1>1, <1>7, <2>1, MovedKeeps
<1>8. CASE Parse!ReadByte
  <2> DEFINE b == [buf EXCEPT !.pos = @ + 1]
  <2>1. /\ phase = "scan" /\ buf.pos \in 0..buf.len - 1
        /\ Parse!Feed(input.text[Parse!ReadOffset(buf) + 1], b)
        /\ input' = input /\ call' = call /\ results' = results
    BY <1>8 DEF Parse!ReadByte
  <2>2. /\ b \in [start : Nat, len : Nat, pos : Int, eof : BOOLEAN]
        /\ b.start = buf.start /\ b.len = buf.len /\ b.eof = buf.eof
        /\ b.pos = buf.pos + 1 /\ buf.pos \in Int /\ buf.len \in Nat
    BY <1>3, SMTT(30) DEF GoodBuffer
  <2> HIDE DEF b
  <2>3. b.pos >= 0 /\ b.pos <= b.len
    BY <2>1, <2>2
  <2>4. GoodBuffer(b, input)
    BY <1>3, <2>2, <2>3 DEF GoodBuffer
  <2> QED
    BY <1>7, <2>1, <2>4
<1>9. CASE Parse!Reload
  <2>1. phase = "scan" /\ input' = input /\ call' = call /\ results' = results
    BY <1>9 DEF Parse!Reload
  <2>2. PICK n \in Parse!Reloads(buf, input.text, Capacity) :
           Parse!Feed(input.text[Parse!ReaderOffset(buf) + 1],
                      [Parse!Reloaded(buf, n) EXCEPT !.pos = 1])
    BY <1>9 DEF Parse!Reload
  <2>3. GoodBuffer([Parse!Reloaded(buf, n) EXCEPT !.pos = 1], input)
    BY <1>3, ReloadedGood
  <2> QED
    BY <1>7, <2>1, <2>2, <2>3
<1>10. CASE Parse!ReadEnd
  <2>1. /\ phase = "scan" /\ Parse!ReaderOffset(buf) = Len(input.text)
        /\ input' = input /\ call' = call /\ results' = results
    BY <1>10 DEF Parse!ReadEnd
  <2>2. CASE Parse!EndAllowed
    <3>1. Parse!Feed("\n", Parse!AtEnd(buf))
      BY <1>10, <2>2 DEF Parse!ReadEnd
    <3>2. GoodBuffer(Parse!AtEnd(buf), input)
      BY <1>3, <2>1, AtEndGood
    <3> QED
      BY <1>7, <2>1, <3>1, <3>2
  <2>3. CASE ~Parse!EndAllowed
    <3>1. Parse!Fail /\ buf' = buf /\ unread' = unread
      BY <1>10, <2>3 DEF Parse!ReadEnd, Parse!bytes
    <3>2. Moved(unread', frames', phase')
      BY <1>3, <3>1, FailMoves
    <3> QED
      BY <1>1, <1>3, <2>1, <3>1, <3>2, MovedKeeps
  <2> QED
    BY <2>2, <2>3
<1>11. CASE Parse!ReadBefore
  <2>1. /\ phase = "scan" /\ Parse!Fail /\ buf' = buf /\ unread' = unread
        /\ input' = input /\ call' = call /\ results' = results
    BY <1>11 DEF Parse!ReadBefore, Parse!bytes
  <2>2. Moved(unread', frames', phase')
    BY <1>3, <2>1, FailMoves
  <2> QED
    BY <1>1, <1>3, <2>1, <2>2, MovedKeeps
<1>12. CASE UNCHANGED Parse!vars
  BY <1>1, <1>12 DEF Parse!vars
<1> QED
  BY <1>1, <1>4, <1>5, <1>6, <1>8, <1>9, <1>10, <1>11, <1>12,
     ParserCall, ParserSeek, ParserGive DEF Parse!Next

\* The parser stays within its buffer, whatever the text is, in whatever pieces it
\* comes and whatever calls are made: the index leaves the buffer only after a seek to
\* a place before it, and never more than the two tokens of look-ahead wait.
THEOREM ParserTypeCorrect ==
    ASSUME Parse!ParserAssumption
    PROVE  Parse!Spec => []Parse!TypeOK
<1>1. Parse!Init => Parse!Inv
  BY ParserInit
<1>2. Parse!Inv /\ [Parse!Next]_(Parse!vars) => Parse!Inv'
  BY ParserStep
<1>3. Parse!Inv => Parse!TypeOK
  BY DEF Parse!Inv
<1> QED
  BY <1>1, <1>2, <1>3, PTL DEF Parse!Spec

-----------------------------------------------------------------------------
(* The parser reads as if the whole text were in the buffer (WholeText). *)

\* A buffer with all of the text, at the place where b is.
AsWhole(b, i) ==
    IF b.eof THEN b
    ELSE [start |-> 0, len |-> Len(i.text), pos |-> Parse!ReadOffset(b), eof |-> FALSE]

\* Where a seek goes; the pieces that are loaded on the way are not seen.
SeekPlace(i, k) ==
    IF i.calls[k].to <= Len(i.text) THEN i.calls[k].to ELSE Len(i.text)

\* The refinement mapping.
WholeBuf ==
    IF phase = "seek" /\ ~buf.eof
    THEN [start |-> 0, len |-> Len(input.text), pos |-> SeekPlace(input, call), eof |-> FALSE]
    ELSE AsWhole(buf, input)

Whole == INSTANCE WholeText WITH buf <- WholeBuf

LEMMA SameTokens ==
    /\ Whole!NoToken = Parse!NoToken /\ Whole!Failed = Parse!Failed
    /\ Whole!EOF = Parse!EOF /\ Whole!LineEnd = Parse!LineEnd
    /\ Whole!Between = Parse!Between /\ Whole!Nil = Parse!Nil
    /\ Whole!NoObject = Parse!NoObject
    /\ Whole!Spaces = Parse!Spaces /\ Whole!Delims = Parse!Delims
    /\ Whole!Digits = Parse!Digits /\ Whole!HexDigits = Parse!HexDigits
    /\ Whole!Keywords = Parse!Keywords
BY DEF Parse!NoToken, Whole!NoToken, Parse!Failed, Whole!Failed, Parse!EOF, Whole!EOF,
   Parse!LineEnd, Whole!LineEnd, Parse!Between, Whole!Between, Parse!Nil, Whole!Nil,
   Parse!NoObject, Whole!NoObject, Parse!Spaces, Whole!Spaces, Parse!Delims, Whole!Delims,
   Parse!Digits, Whole!Digits, Parse!HexDigits, Whole!HexDigits,
   Parse!Keywords, Whole!Keywords

LEMMA SameEnds ==
    ASSUME NEW x
    PROVE  /\ Whole!GoOn(x) = Parse!GoOn(x) /\ Whole!GoBack(x) = Parse!GoBack(x)
           /\ Whole!Token(x) = Parse!Token(x) /\ Whole!TokenBack(x) = Parse!TokenBack(x)
           /\ Whole!In(x) = Parse!In(x) /\ Whole!Panic = Parse!Panic
           /\ Whole!Keyword(x) = Parse!Keyword(x) /\ Whole!String(x) = Parse!String(x)
           /\ Whole!ToSet(x) = Parse!ToSet(x)
BY SameTokens DEF Parse!GoOn, Whole!GoOn, Parse!GoBack, Whole!GoBack, Parse!Token, Whole!Token,
   Parse!TokenBack, Whole!TokenBack, Parse!In, Whole!In, Parse!Panic, Whole!Panic,
   Parse!Keyword, Whole!Keyword, Parse!String, Whole!String, Parse!ToSet, Whole!ToSet

LEMMA SameAdded ==
    ASSUME NEW s, NEW c
    PROVE  Whole!Added(s, c) = Parse!Added(s, c)
BY DEF Parse!Added, Whole!Added

LEMMA SameNextChar ==
    ASSUME NEW s, NEW eof
    PROVE  Whole!NextChar(s, eof) = Parse!NextChar(s, eof)
BY SameEnds DEF Parse!NextChar, Whole!NextChar

LEMMA SameWord ==
    ASSUME NEW tmp
    PROVE  Whole!Word(tmp) = Parse!Word(tmp)
BY SameTokens, SameEnds DEF Parse!Word, Whole!Word

\* The scanners of both are the same.
LEMMA SameScan ==
    ASSUME NEW s, NEW c, NEW eof
    PROVE  Whole!Scan(s, c, eof) = Parse!Scan(s, c, eof)
<1>1. Whole!ScanBetween(s, c, eof) = Parse!ScanBetween(s, c, eof)
  BY SameTokens, SameEnds DEF Parse!ScanBetween, Whole!ScanBetween,
     Parse!ScanSpace, Whole!ScanSpace
<1>2. Whole!ScanComment(s, c, eof) = Parse!ScanComment(s, c, eof)
  BY SameTokens, SameEnds DEF Parse!ScanComment, Whole!ScanComment,
     Parse!ScanSpace, Whole!ScanSpace
<1>3. Whole!ScanAngle(s, c) = Parse!ScanAngle(s, c)
  BY SameEnds DEF Parse!ScanAngle, Whole!ScanAngle
<1>4. Whole!ScanHex(s, c) = Parse!ScanHex(s, c)
  BY SameTokens, SameEnds, SameAdded DEF Parse!ScanHex, Whole!ScanHex
<1>5. Whole!ScanString(s, c, eof) = Parse!ScanString(s, c, eof)
  BY SameEnds, SameAdded, SameNextChar DEF Parse!ScanString, Whole!ScanString
<1>6. Whole!ScanEscape(s, c, eof) = Parse!ScanEscape(s, c, eof)
  BY SameTokens, SameEnds, SameAdded, SameNextChar
     DEF Parse!ScanEscape, Whole!ScanEscape, Parse!Escapes, Whole!Escapes
<1>7. Whole!ScanReturn(s, c, eof) = Parse!ScanReturn(s, c, eof)
  BY SameNextChar DEF Parse!ScanReturn, Whole!ScanReturn
<1>8. Whole!ScanOctal(s, c, eof) = Parse!ScanOctal(s, c, eof)
  BY SameTokens, SameEnds, SameAdded, SameNextChar DEF Parse!ScanOctal, Whole!ScanOctal
<1>9. Whole!ScanName(s, c) = Parse!ScanName(s, c)
  BY SameTokens, SameEnds, SameAdded DEF Parse!ScanName, Whole!ScanName
<1>10. Whole!ScanWord(s, c) = Parse!ScanWord(s, c)
  BY SameTokens, SameEnds, SameWord DEF Parse!ScanWord, Whole!ScanWord
<1>11. Whole!ScanLineEnd(s, c) = Parse!ScanLineEnd(s, c)
  BY SameTokens, SameEnds DEF Parse!ScanLineEnd, Whole!ScanLineEnd
<1> QED
  BY <1>1, <1>2, <1>3, <1>4, <1>5, <1>6, <1>7, <1>8, <1>9, <1>10, <1>11
     DEF Parse!Scan, Whole!Scan

LEMMA SameMoves ==
    /\ \A v : Whole!Return(v) <=> Parse!Return(v)
    /\ \A f : Whole!Become(f) <=> Parse!Become(f)
    /\ \A f : Whole!ReadObject(f) <=> Parse!ReadObject(f)
    /\ Whole!Fail <=> Parse!Fail
    /\ \A u : Whole!Kept(u) <=> Parse!Kept(u)
    /\ \A t, kw : Whole!IsWord(t, kw) <=> Parse!IsWord(t, kw)
    /\ Whole!Top = Parse!Top /\ Whole!Under = Parse!Under
    /\ \A map : Whole!EndDict(map) <=> Parse!EndDict(map)
    /\ \A t : Whole!IsId(t) <=> Parse!IsId(t)
    /\ \A t : Whole!IsGen(t) <=> Parse!IsGen(t)
    /\ Whole!EndAllowed <=> Parse!EndAllowed
    /\ \A a, b : Whole!Pointer(a, b) = Parse!Pointer(a, b)
    /\ \A v : Whole!Definition(v) = Parse!Definition(v)
<1>1. Whole!Top = Parse!Top /\ Whole!Under = Parse!Under
  BY DEF Parse!Top, Whole!Top, Parse!Under, Whole!Under, Parse!Last, Whole!Last,
     Parse!Front, Whole!Front
<1>2. /\ \A v : Whole!Return(v) <=> Parse!Return(v)
      /\ \A f : Whole!Become(f) <=> Parse!Become(f)
      /\ \A f : Whole!ReadObject(f) <=> Parse!ReadObject(f)
  BY <1>1 DEF Parse!Return, Whole!Return, Parse!Become, Whole!Become,
     Parse!ReadObject, Whole!ReadObject
<1>3. Whole!Fail <=> Parse!Fail
  BY DEF Parse!Fail, Whole!Fail
<1>4. /\ \A u : Whole!Kept(u) <=> Parse!Kept(u)
      /\ \A t, kw : Whole!IsWord(t, kw) <=> Parse!IsWord(t, kw)
  BY DEF Parse!Kept, Whole!Kept, Parse!IsWord, Whole!IsWord
<1>5. \A map : Whole!EndDict(map) <=> Parse!EndDict(map)
  BY <1>2 DEF Parse!EndDict, Whole!EndDict
<1>6. /\ \A a, b : Whole!Pointer(a, b) = Parse!Pointer(a, b)
      /\ \A v : Whole!Definition(v) = Parse!Definition(v)
  BY DEF Parse!Pointer, Whole!Pointer, Parse!Definition, Whole!Definition
<1>7. /\ \A t : Whole!IsId(t) <=> Parse!IsId(t)
      /\ \A t : Whole!IsGen(t) <=> Parse!IsGen(t)
  BY DEF Parse!IsId, Whole!IsId, Parse!IsGen, Whole!IsGen
<1>8. Whole!EndAllowed <=> Parse!EndAllowed
  BY DEF Parse!EndAllowed, Whole!EndAllowed
<1> QED
  BY <1>1, <1>2, <1>3, <1>4, <1>5, <1>6, <1>7, <1>8

\* A token does the same in both, where the buffers are at the same place.
LEMMA SameDeliver ==
    ASSUME NEW t, NEW rest, NEW b, NEW w, Parse!Deliver(t, rest, b),
           Whole!ReadOffset(w) = Parse!ReadOffset(b)
    PROVE  Whole!Deliver(t, rest, w)
<1>1. Parse!ObjectToken(t, rest) => Whole!ObjectToken(t, rest)
  BY SameMoves, SameTokens DEF Parse!ObjectToken, Whole!ObjectToken
<1>2. Parse!SecondToken(t, rest) => Whole!SecondToken(t, rest)
  BY SameMoves DEF Parse!SecondToken, Whole!SecondToken
<1>3. Parse!ThirdToken(t, rest) => Whole!ThirdToken(t, rest)
  BY SameMoves DEF Parse!ThirdToken, Whole!ThirdToken
<1>4. Parse!EndobjToken(t, rest) => Whole!EndobjToken(t, rest)
  BY SameMoves DEF Parse!EndobjToken, Whole!EndobjToken
<1>5. Parse!ElementToken(t, rest) => Whole!ElementToken(t, rest)
  BY SameMoves DEF Parse!ElementToken, Whole!ElementToken
<1>6. Parse!KeyToken(t, rest) => Whole!KeyToken(t, rest)
  BY SameMoves DEF Parse!KeyToken, Whole!KeyToken
<1>7. Parse!EndToken(t, rest) => Whole!EndToken(t, rest)
  BY SameMoves DEF Parse!EndToken, Whole!EndToken
<1>8. Parse!StreamToken(t, rest) => Whole!StreamToken(t, rest)
  BY SameMoves DEF Parse!StreamToken, Whole!StreamToken
<1>9. Parse!DataToken(t, rest, b) => Whole!DataToken(t, rest, w)
  BY SameMoves DEF Parse!DataToken, Whole!DataToken
<1> QED
  BY <1>1, <1>2, <1>3, <1>4, <1>5, <1>6, <1>7, <1>8, <1>9
     DEF Parse!Deliver, Whole!Deliver

LEMMA WholeBufIs ==
    /\ phase # "seek" => WholeBuf = AsWhole(buf, input)
    /\ phase' # "seek" => WholeBuf' = AsWhole(buf', input')
    /\ buf.eof => WholeBuf = buf
    /\ buf'.eof => WholeBuf' = buf'
BY DEF WholeBuf, AsWhole

\* A step forward and a step back in a buffer.
LEMMA Stepped ==
    ASSUME NEW w \in [start : Nat, len : Nat, pos : Int, eof : BOOLEAN]
    PROVE  /\ [w EXCEPT !.pos = @ + 1] =
                 [start |-> w.start, len |-> w.len, pos |-> w.pos + 1, eof |-> w.eof]
           /\ [w EXCEPT !.pos = @ - 1] =
                 [start |-> w.start, len |-> w.len, pos |-> w.pos - 1, eof |-> w.eof]
<1> DEFINE v == [w EXCEPT !.pos = @ + 1]
           u == [w EXCEPT !.pos = @ - 1]
<1>1. v \in [start : Nat, len : Nat, pos : Int, eof : BOOLEAN]
      /\ u \in [start : Nat, len : Nat, pos : Int, eof : BOOLEAN]
  OBVIOUS
<1>2. /\ v.start = w.start /\ v.len = w.len /\ v.pos = w.pos + 1 /\ v.eof = w.eof
      /\ u.start = w.start /\ u.len = w.len /\ u.pos = w.pos - 1 /\ u.eof = w.eof
  OBVIOUS
<1> HIDE DEF u, v
<1>3. /\ v = [start |-> w.start, len |-> w.len, pos |-> w.pos + 1, eof |-> w.eof]
      /\ u = [start |-> w.start, len |-> w.len, pos |-> w.pos - 1, eof |-> w.eof]
  BY <1>1, <1>2
<1> QED
  BY <1>3 DEF u, v

\* The fields of a buffer with all of a text.
LEMMA AllFields ==
    ASSUME NEW l \in Nat, NEW p \in Int, NEW w,
           w = [start |-> 0, len |-> l, pos |-> p, eof |-> FALSE]
    PROVE  /\ w.start = 0 /\ w.len = l /\ w.pos = p /\ w.eof = FALSE
           /\ w \in [start : Nat, len : Nat, pos : Int, eof : BOOLEAN]
OBVIOUS

\* Where the whole text is read, and that it ends where the pieces do.
LEMMA AsWholeIs ==
    ASSUME NEW i, NEW b, GoodBuffer(b, i), Len(i.text) \in Nat
    PROVE  LET w == AsWhole(b, i)
           IN /\ Whole!ReadOffset(w) = Parse!ReadOffset(b)
              /\ Whole!ReaderOffset(w) = Len(i.text)
              /\ w.eof = b.eof
              /\ Whole!AtEnd(w) = AsWhole(Parse!AtEnd(b), i)
                    \/ Parse!ReaderOffset(b) # Len(i.text)
              /\ b.eof => b.len = 0
<1>1. /\ b.start \in Nat /\ b.len \in Nat /\ b.pos \in Int /\ b.eof \in BOOLEAN
      /\ b.start + b.len <= Len(i.text) /\ (b.eof => b.start = Len(i.text))
  BY DEF GoodBuffer
<1>2. b.eof => b.len = 0
  BY <1>1
<1>3. CASE b.eof
  <2>1. AsWhole(b, i) = b /\ AsWhole(Parse!AtEnd(b), i) = Parse!AtEnd(b)
    BY <1>3 DEF AsWhole, Parse!AtEnd
  <2>2. Whole!AtEnd(b) = Parse!AtEnd(b)
    BY DEF Whole!AtEnd, Parse!AtEnd, Whole!ReaderOffset, Parse!ReaderOffset
  <2>3. b.start + b.len = Len(i.text)
    BY <1>1, <1>2, <1>3
  <2> QED
    BY <1>2, <2>1, <2>2, <2>3 DEF Whole!ReadOffset, Parse!ReadOffset, Whole!ReaderOffset
<1>4. CASE ~b.eof
  <2> DEFINE w == AsWhole(b, i)
  <2>1. w = [start |-> 0, len |-> Len(i.text), pos |-> b.start + b.pos, eof |-> FALSE]
    BY <1>4 DEF AsWhole, Parse!ReadOffset
  <2>2. Whole!ReadOffset(w) = Parse!ReadOffset(b) /\ Whole!ReaderOffset(w) = Len(i.text)
    BY <1>1, <2>1 DEF Whole!ReadOffset, Parse!ReadOffset, Whole!ReaderOffset
  <2>3. AsWhole(Parse!AtEnd(b), i) = Parse!AtEnd(b)
    BY DEF AsWhole, Parse!AtEnd
  <2>4. Whole!AtEnd(w) = Parse!AtEnd(b) \/ Parse!ReaderOffset(b) # Len(i.text)
    BY <2>2 DEF Whole!AtEnd, Parse!AtEnd
  <2>5. w.eof = FALSE
    <3>1. b.start + b.pos \in Int
      BY <1>1
    <3> QED
      BY <2>1, <3>1, AllFields
  <2>6. b.eof = FALSE
    BY <1>1, <1>4, Zenon
  <2> QED
    BY <2>2, <2>3, <2>4, <2>5, <2>6
<1> QED
  BY <1>3, <1>4

\* A byte given back is given back in the whole text, or none is in either.
LEMMA AsWholeUnread ==
    ASSUME NEW i, NEW b, GoodBuffer(b, i), Len(i.text) \in Nat, b.pos > 0 \/ b.eof
    PROVE  Whole!UnreadByte(AsWhole(b, i)) = AsWhole(Parse!UnreadByte(b), i)
<1>1. b.start \in Nat /\ b.pos \in Int /\ b.eof \in BOOLEAN
  BY DEF GoodBuffer
<1>2. CASE b.eof
  <2>1. Parse!UnreadByte(b).eof
    <3>1. [b EXCEPT !.pos = @ - 1].eof = b.eof
      BY DEF GoodBuffer
    <3> QED
      BY <1>2, <3>1 DEF Parse!UnreadByte
  <2>2. Whole!UnreadByte(b) = Parse!UnreadByte(b)
    BY DEF Whole!UnreadByte, Parse!UnreadByte
  <2> QED
    BY <1>2, <2>1, <2>2 DEF AsWhole
<1>3. CASE ~b.eof
  <2> DEFINE w == AsWhole(b, i)
             c == [b EXCEPT !.pos = @ - 1]
  <2>1. w = [start |-> 0, len |-> Len(i.text), pos |-> b.start + b.pos, eof |-> FALSE]
    BY <1>3 DEF AsWhole, Parse!ReadOffset
  <2>2. Parse!UnreadByte(b) = c
    BY <1>3 DEF Parse!UnreadByte
  <2>3. c.eof = b.eof /\ c.start = b.start /\ c.pos = b.pos - 1
    BY DEF GoodBuffer
  <2>4. AsWhole(c, i) = [start |-> 0, len |-> Len(i.text), pos |-> b.start + (b.pos - 1),
                         eof |-> FALSE]
    BY <1>3, <2>3 DEF AsWhole, Parse!ReadOffset
  <2> HIDE DEF c
  <2>5. b.start + b.pos > 0 /\ b.start + (b.pos - 1) = (b.start + b.pos) - 1
    BY <1>1, <1>3
  <2>6. Whole!UnreadByte(w) = [w EXCEPT !.pos = @ - 1]
    BY <2>1, <2>5 DEF Whole!UnreadByte
  <2>7. [w EXCEPT !.pos = @ - 1] =
           [start |-> 0, len |-> Len(i.text), pos |-> (b.start + b.pos) - 1, eof |-> FALSE]
    <3>1. b.start + b.pos \in Int
      BY <1>1
    <3>2. /\ w.start = 0 /\ w.len = Len(i.text) /\ w.pos = b.start + b.pos /\ w.eof = FALSE
          /\ w \in [start : Nat, len : Nat, pos : Int, eof : BOOLEAN]
      BY <2>1, <3>1, AllFields
    <3>3. [w EXCEPT !.pos = @ - 1] =
             [start |-> w.start, len |-> w.len, pos |-> w.pos - 1, eof |-> w.eof]
      BY <3>2, Stepped, Zenon
    <3> QED
      BY <3>2, <3>3, Zenon
  <2> QED
    BY <2>2, <2>4, <2>5, <2>6, <2>7
<1> QED
  BY <1>1, <1>2, <1>3

\* A byte does the same in the whole text.
LEMMA WholeFeed ==
    ASSUME NEW c, NEW b, Parse!Feed(c, b), phase = "scan", input' = input,
           Parts(input, buf, unread, frames, phase, call, results),
           Len(input.text) \in Nat,
           GoodBuffer(b, input), b.pos > 0 \/ b.eof
    PROVE  Whole!Feed(c, AsWhole(b, input))
<1> DEFINE w == AsWhole(b, input)
           r == Parse!Scan(scan, c, b.eof)
           after == IF r.back THEN Parse!UnreadByte(b) ELSE b
           wafter == IF r.back THEN Whole!UnreadByte(w) ELSE w
<1>1. Whole!Scan(scan, c, w.eof) = r
  <2>1. w.eof = b.eof
    BY AsWholeIs
  <2> QED
    BY <2>1, SameScan
<1>2. GoodBuffer(after, input) /\ AsWhole(after, input) = wafter
  BY UnreadGood, AsWholeUnread
<1>3. buf' = after /\ scan' = r.scan
  BY DEF Parse!Feed
<1>4. phase' # "seek"
  <2>1. Parse!IsSeq(frames) /\ Parse!IsSeq(unread) /\ Len(unread) <= 2
        /\ Ahead(phase, unread, frames)
    BY DEF Parts
  <2>2. Moved(unread', frames', phase') \/ phase' = phase
    BY <2>1, FeedMoves
  <2> QED
    BY <2>2 DEF Moved
<1>5. WholeBuf' = wafter
  BY <1>2, <1>3, <1>4, WholeBufIs
<1>6. Whole!ReadOffset(wafter) = Parse!ReadOffset(after)
  BY <1>2, AsWholeIs
<1>7. (CASE r.tok = Parse!NoToken
           -> UNCHANGED <<unread, frames, value, objptr, phase>>
        [] r.tok = Parse!Failed -> Parse!Fail /\ UNCHANGED <<unread, objptr>>
        [] OTHER -> Parse!Deliver(r.tok, unread, after))
  BY DEF Parse!Feed
<1>8. Parse!Deliver(r.tok, unread, after) => Whole!Deliver(r.tok, unread, wafter)
  BY <1>6, SameDeliver
<1>9. (CASE r.tok = Whole!NoToken
           -> UNCHANGED <<unread, frames, value, objptr, phase>>
        [] r.tok = Whole!Failed -> Whole!Fail /\ UNCHANGED <<unread, objptr>>
        [] OTHER -> Whole!Deliver(r.tok, unread, wafter))
  <2> HIDE DEF r, after, wafter
  <2> QED
    BY <1>7, <1>8, SameTokens, SameMoves
<1>10. WholeBuf' = wafter /\ scan' = r.scan
  BY <1>3, <1>5
<1> QED
  BY <1>1, <1>9, <1>10 DEF Whole!Feed

\* A step in the buffer is a step in the whole text.
LEMMA AsWholeStep ==
    ASSUME NEW i, NEW b, GoodBuffer(b, i), Len(i.text) \in Nat, ~b.eof
    PROVE  [AsWhole(b, i) EXCEPT !.pos = @ + 1] =
              [start |-> 0, len |-> Len(i.text), pos |-> Parse!ReadOffset(b) + 1, eof |-> FALSE]
<1> DEFINE w == AsWhole(b, i)
           p == Parse!ReadOffset(b)
<1>1. w = [start |-> 0, len |-> Len(i.text), pos |-> p, eof |-> FALSE]
  BY DEF AsWhole
<1>2. p \in Int
  BY DEF GoodBuffer, Parse!ReadOffset
<1>3. /\ w.start = 0 /\ w.len = Len(i.text) /\ w.pos = p /\ w.eof = FALSE
      /\ w \in [start : Nat, len : Nat, pos : Int, eof : BOOLEAN]
  BY <1>1, <1>2, AllFields
<1>4. [w EXCEPT !.pos = @ + 1] =
         [start |-> w.start, len |-> w.len, pos |-> w.pos + 1, eof |-> w.eof]
  BY <1>3, Stepped, Zenon
<1> QED
  BY <1>3, <1>4, Zenon

LEMMA WholeCalls ==
    ASSUME Parse!Call, GoodBuffer(buf, input), Len(input.text) \in Nat
    PROVE  Whole!WholeCall
<1>1. /\ phase = "call" /\ input' = input /\ buf' = buf /\ call' = call
      /\ phase' = IF input.calls[call].op = "seek" THEN "seek" ELSE "token"
  BY DEF Parse!Call, Parse!bytes
<1>2. WholeBuf = AsWhole(buf, input) /\ WholeBuf.eof = buf.eof
  <2>1. WholeBuf = AsWhole(buf, input)
    BY <1>1, WholeBufIs
  <2> QED
    BY <2>1, AsWholeIs
<1>3. WholeBuf' = IF input.calls[call].op = "seek" /\ ~buf.eof
                  THEN Whole!AllAt(Whole!Place(input.calls[call].to)) ELSE WholeBuf
  <2>1. CASE input.calls[call].op = "seek" /\ ~buf.eof
    BY <1>1, <2>1 DEF WholeBuf, SeekPlace, Whole!AllAt, Whole!Place
  <2>2. CASE ~(input.calls[call].op = "seek" /\ ~buf.eof)
    BY <1>1, <1>2, <2>2 DEF WholeBuf
  <2> QED
    BY <2>1, <2>2
<1> QED
  BY <1>2, <1>3 DEF Parse!Call, Parse!bytes, Whole!WholeCall

LEMMA WholeSeeks ==
    ASSUME Parse!ParserAssumption, Parse!Seek,
           Parts(input, buf, unread, frames, phase, call, results)
    PROVE  Whole!Seek \/ UNCHANGED Whole!vars
<1> DEFINE to == input.calls[call].to
           n == Len(input.text)
<1>1. /\ phase = "seek" /\ input' = input /\ unread' = unread /\ frames' = frames
      /\ results' = results /\ scan' = scan /\ value' = value /\ objptr' = objptr
  BY DEF Parse!Seek
<1>2. GoodBuffer(buf, input) /\ n \in Nat /\ to \in Nat
  <2>1. /\ call \in DOMAIN input.calls /\ input.calls[call].op = "seek"
        /\ input \in Inputs /\ GoodBuffer(buf, input)
    BY <1>1 DEF Parts, InCall
  <2> QED
    BY <2>1, InputTyped
<1>3. /\ buf.start \in Nat /\ buf.len \in Nat /\ buf.pos \in Int /\ buf.eof \in BOOLEAN
      /\ buf.start + buf.len <= n /\ (buf.eof => buf.start = n /\ buf.len = 0)
  BY <1>2, AsWholeIs DEF GoodBuffer
<1>4. CASE buf.eof
  <2>1. WholeBuf = buf /\ buf'.eof
    <3>1. Parse!Reloads(buf, input.text, Capacity) = {}
      BY <1>2, <1>3, <1>4, InputTyped DEF Parse!Reloads, Parse!ReaderOffset, Parts
    <3>2. \/ buf' = Parse!AtEnd(buf)
          \/ buf' = [buf EXCEPT !.pos = buf.len - (Parse!ReaderOffset(buf) - to)]
      BY <3>1 DEF Parse!Seek
    <3>3. \A x : [buf EXCEPT !.pos = x].eof = buf.eof
      BY <1>2 DEF GoodBuffer
    <3>4. buf'.eof
      <4>1. CASE buf' = Parse!AtEnd(buf)
        BY <4>1 DEF Parse!AtEnd
      <4>2. CASE buf' = [buf EXCEPT !.pos = buf.len - (Parse!ReaderOffset(buf) - to)]
        <5>1. buf'.eof = buf.eof
          BY <3>3, <4>2, Zenon
        <5> QED
          BY <1>4, <5>1
      <4> QED
        BY <3>2, <4>1, <4>2
    <3> QED
      BY <1>4, <3>4, WholeBufIs
  <2>2. WholeBuf' = buf'
    BY <2>1, WholeBufIs
  <2>3. Whole!Seek
    BY <2>1, <2>2 DEF Parse!Seek, Whole!Seek, Parse!ReaderOffset, Whole!ReaderOffset,
       Parse!Reloads, Whole!Reloads, Parse!Reloaded, Whole!Reloaded,
       Parse!AtEnd, Whole!AtEnd, Parse!EndAllowed, Whole!EndAllowed
  <2> QED
    BY <2>3
<1>5. CASE ~buf.eof
  <2>1. WholeBuf = [start |-> 0, len |-> n, pos |-> SeekPlace(input, call), eof |-> FALSE]
    BY <1>1, <1>5 DEF WholeBuf
  <2>2. Whole!ReaderOffset(WholeBuf) = n
    BY <1>2, <2>1 DEF Whole!ReaderOffset
  <2>3. CASE Parse!ReaderOffset(buf) < to
    <3>1. CASE \E k \in Parse!Reloads(buf, input.text, Capacity) :
                  /\ buf' = Parse!Reloaded(buf, k) /\ phase' = phase /\ call' = call
      <4>1. PICK k \in Parse!Reloads(buf, input.text, Capacity) :
                    /\ buf' = Parse!Reloaded(buf, k) /\ phase' = phase /\ call' = call
        BY <3>1
      <4>2. buf'.eof = buf.eof
        BY <4>1 DEF Parse!Reloaded
      <4>3. WholeBuf' = WholeBuf
        BY <1>1, <1>5, <4>1, <4>2 DEF WholeBuf
      <4> QED
        BY <1>1, <4>1, <4>3 DEF Whole!vars
    <3>2. CASE /\ Parse!ReaderOffset(buf) = n /\ buf' = Parse!AtEnd(buf)
               /\ IF Parse!EndAllowed THEN phase' = "call" /\ call' = call + 1
                  ELSE phase' = "panicked" /\ call' = call
      <4>1. buf'.eof /\ Whole!AtEnd(WholeBuf) = buf'
        BY <2>2, <3>2 DEF Parse!AtEnd, Whole!AtEnd
      <4>2. WholeBuf' = Whole!AtEnd(WholeBuf)
        BY <4>1, WholeBufIs
      <4> QED
        BY <1>1, <2>2, <2>3, <3>2, <4>2, SameMoves DEF Whole!Seek
    <3> QED
      BY <2>3, <3>1, <3>2 DEF Parse!Seek
  <2>4. CASE ~(Parse!ReaderOffset(buf) < to)
    <3> DEFINE pos == buf.len - (Parse!ReaderOffset(buf) - to)
               w == WholeBuf
    <3>1. buf' = [buf EXCEPT !.pos = pos] /\ phase' = "call" /\ call' = call + 1
      BY <2>4 DEF Parse!Seek
    <3>2. to <= n /\ buf.start + pos = to /\ n - (n - to) = to /\ ~(n < to)
      BY <1>2, <1>3, <2>4 DEF Parse!ReaderOffset
    <3>3. buf'.start = buf.start /\ buf'.eof = buf.eof /\ buf'.pos = pos
      <4> HIDE DEF pos
      <4> QED
        BY <1>2, <3>1 DEF GoodBuffer
    <3>4. WholeBuf' = AsWhole(buf', input')
      BY <3>1, WholeBufIs
    <3>5. WholeBuf' = [start |-> 0, len |-> n, pos |-> to, eof |-> FALSE]
      <4> HIDE DEF pos, to
      <4> QED
        BY <1>1, <1>5, <3>2, <3>3, <3>4 DEF AsWhole, Parse!ReadOffset
    <3>6. w = [start |-> 0, len |-> n, pos |-> to, eof |-> FALSE]
      BY <2>1, <3>2 DEF SeekPlace
    <3>7. w.len = n /\ w.len - (Whole!ReaderOffset(w) - to) = to
      BY <1>2, <2>2, <3>2, <3>6
    <3>8. [w EXCEPT !.pos = to] = w
      <4>1. /\ w \in [start : Nat, len : Nat, pos : Int, eof : BOOLEAN]
            /\ w.pos = to
        BY <1>2, <3>6, AllFields
      <4> HIDE DEF w, to
      <4> QED
        BY <4>1
    <3>9. WholeBuf' = [w EXCEPT !.pos = w.len - (Whole!ReaderOffset(w) - to)]
      BY <3>5, <3>6, <3>7, <3>8, Zenon
    <3> QED
      BY <1>1, <2>2, <3>1, <3>2, <3>9 DEF Whole!Seek
  <2> QED
    BY <2>3, <2>4
<1> QED
  BY <1>3, <1>4, <1>5

LEMMA WholeReads ==
    ASSUME Parse!ParserAssumption, Parse!ReadByte \/ Parse!Reload,
           Parts(input, buf, unread, frames, phase, call, results)
    PROVE  Whole!ReadByte
<1> DEFINE w == WholeBuf
           p == Parse!ReadOffset(buf)
           n == Len(input.text)
<1>1. /\ phase = "scan" /\ input' = input /\ call' = call /\ results' = results
      /\ GoodBuffer(buf, input) /\ input \in Inputs
  BY DEF Parse!ReadByte, Parse!Reload, Parts
<1>2. n \in Nat /\ w = AsWhole(buf, input)
  BY <1>1, InputTyped, WholeBufIs
<1>3. /\ buf.start \in Nat /\ buf.len \in Nat /\ buf.pos \in Int
      /\ buf.start + buf.len <= n /\ buf.pos <= buf.len /\ p = buf.start + buf.pos
  BY <1>1 DEF GoodBuffer, Parse!ReadOffset
<1>4. PICK b : /\ GoodBuffer(b, input) /\ ~b.eof /\ b.pos > 0
               /\ Parse!Feed(input.text[p + 1], b)
               /\ Parse!ReadOffset(b) = p + 1
               /\ p \in 0..n - 1 /\ ~buf.eof
  <2>1. CASE Parse!ReadByte
    <3> DEFINE b == [buf EXCEPT !.pos = @ + 1]
    <3>1. buf.pos \in 0..buf.len - 1 /\ Parse!Feed(input.text[p + 1], b)
      BY <2>1 DEF Parse!ReadByte
    <3>2. ~buf.eof
      BY <1>1, <1>2, <1>3, <3>1, AsWholeIs
    <3>3. /\ b \in [start : Nat, len : Nat, pos : Int, eof : BOOLEAN]
          /\ b.start = buf.start /\ b.len = buf.len /\ b.pos = buf.pos + 1
          /\ b.eof = buf.eof
      BY <1>1 DEF GoodBuffer
    <3> HIDE DEF b
    <3>4. GoodBuffer(b, input) /\ b.pos > 0
      BY <1>3, <3>1, <3>2, <3>3 DEF GoodBuffer
    <3>5. Parse!ReadOffset(b) = p + 1 /\ p \in 0..n - 1
      <4>1. buf.pos \in 0..buf.len - 1 /\ b.start = buf.start /\ b.pos = buf.pos + 1
        BY <3>1, <3>3
      <4>2. Parse!ReadOffset(b) = p + 1
        BY <1>3, <4>1 DEF Parse!ReadOffset
      <4>3. p \in 0..n - 1
        <5> HIDE DEF p, n
        <5> QED
          BY <1>2, <1>3, <4>1
      <4> QED
        BY <4>2, <4>3
    <3> QED
      BY <3>1, <3>2, <3>3, <3>4, <3>5
  <2>2. CASE Parse!Reload
    <3>1. PICK k \in Parse!Reloads(buf, input.text, Capacity) :
             /\ buf.pos >= buf.len
             /\ Parse!Feed(input.text[Parse!ReaderOffset(buf) + 1],
                           [Parse!Reloaded(buf, k) EXCEPT !.pos = 1])
      BY <2>2 DEF Parse!Reload
    <3> DEFINE r == Parse!Reloaded(buf, k)
               b == [r EXCEPT !.pos = 1]
    <3>2. GoodBuffer(r, input) /\ r.len >= 1 /\ r.pos = 0 /\ GoodBuffer(b, input)
      BY <1>1, ReloadedGood
    <3>3. Parse!ReaderOffset(buf) = p
      BY <1>3, <3>1 DEF Parse!ReaderOffset
    <3>4. r.start = p /\ r.eof = buf.eof
      BY <3>3 DEF Parse!Reloaded
    <3>5. b.start = r.start /\ b.len = r.len /\ b.eof = r.eof /\ b.pos = 1
      BY DEF Parse!Reloaded
    <3> HIDE DEF r, b
    <3>6. r.start \in Nat /\ r.len \in Nat /\ r.start + r.len <= n /\ (r.eof => r.start = n)
      BY <3>2 DEF GoodBuffer
    <3>7. ~buf.eof /\ p \in 0..n - 1
      BY <1>2, <3>2, <3>4, <3>6
    <3>8. ~b.eof /\ b.pos > 0 /\ Parse!ReadOffset(b) = p + 1
      BY <3>4, <3>5, <3>7 DEF Parse!ReadOffset
    <3>9. Parse!Feed(input.text[p + 1], b)
      BY <3>1, <3>3 DEF b, r
    <3> QED
      BY <3>2, <3>7, <3>8, <3>9
  <2> QED
    BY <2>1, <2>2
<1>5. Whole!Feed(input.text[p + 1], AsWhole(b, input))
  BY <1>1, <1>2, <1>4, WholeFeed
<1>6. AsWhole(b, input) = [w EXCEPT !.pos = @ + 1]
  <2>1. AsWhole(b, input) = [start |-> 0, len |-> n, pos |-> p + 1, eof |-> FALSE]
    BY <1>4 DEF AsWhole
  <2>2. [w EXCEPT !.pos = @ + 1] = [start |-> 0, len |-> n, pos |-> p + 1, eof |-> FALSE]
    BY <1>1, <1>2, <1>4, AsWholeStep, Zenon
  <2> QED
    BY <2>1, <2>2, Zenon
<1>7. Whole!ReadOffset(w) = p
  BY <1>1, <1>2, AsWholeIs
<1>8. w.pos \in 0..w.len - 1
  <2>1. w = [start |-> 0, len |-> n, pos |-> p, eof |-> FALSE]
    BY <1>2, <1>4 DEF AsWhole
  <2>2. w.len = n /\ w.pos = p
    BY <2>1
  <2> QED
    BY <1>4, <2>2
<1>9. Whole!Feed(input.text[Whole!ReadOffset(w) + 1], [w EXCEPT !.pos = @ + 1])
  BY <1>5, <1>6, <1>7, Zenon
<1> QED
  BY <1>1, <1>8, <1>9 DEF Whole!ReadByte

LEMMA WholeReadsEnd ==
    ASSUME Parse!ParserAssumption, Parse!ReadEnd,
           Parts(input, buf, unread, frames, phase, call, results)
    PROVE  Whole!ReadEnd
<1> DEFINE w == WholeBuf
           n == Len(input.text)
<1>1. /\ phase = "scan" /\ input' = input /\ call' = call /\ results' = results
      /\ GoodBuffer(buf, input) /\ input \in Inputs
      /\ buf.pos >= buf.len /\ Parse!ReaderOffset(buf) = n
  BY DEF Parse!ReadEnd, Parts
<1>2. n \in Nat /\ w = AsWhole(buf, input)
  BY <1>1, InputTyped, WholeBufIs
<1>3. /\ Whole!ReaderOffset(w) = n /\ Whole!AtEnd(w) = AsWhole(Parse!AtEnd(buf), input)
  BY <1>1, <1>2, AsWholeIs
<1>4. w.pos >= w.len
  <2>1. CASE buf.eof
    BY <1>1, <1>2, <2>1 DEF AsWhole
  <2>2. CASE ~buf.eof
    <3>1. /\ w.pos = buf.start + buf.pos /\ w.len = n
      BY <1>2, <2>2 DEF AsWhole, Parse!ReadOffset
    <3> QED
      BY <1>1, <1>2, <3>1 DEF GoodBuffer, Parse!ReaderOffset
  <2> QED
    BY <2>1, <2>2
<1>5. CASE Parse!EndAllowed
  <2>1. Parse!Feed("\n", Parse!AtEnd(buf))
    BY <1>5 DEF Parse!ReadEnd
  <2>2. GoodBuffer(Parse!AtEnd(buf), input) /\ Parse!AtEnd(buf).eof
    <3>1. GoodBuffer(Parse!AtEnd(buf), input)
      BY <1>1, AtEndGood
    <3> QED
      BY <3>1 DEF Parse!AtEnd
  <2>3. Whole!Feed("\n", AsWhole(Parse!AtEnd(buf), input))
    BY <1>1, <1>2, <2>1, <2>2, WholeFeed
  <2>4. Whole!Feed("\n", Whole!AtEnd(w))
    BY <1>3, <2>3, Zenon
  <2> QED
    BY <1>1, <1>3, <1>4, <1>5, <2>4, SameMoves DEF Whole!ReadEnd
<1>6. CASE ~Parse!EndAllowed
  <2>1. /\ Parse!Fail /\ buf' = buf /\ scan' = scan /\ unread' = unread /\ objptr' = objptr
    BY <1>6 DEF Parse!ReadEnd, Parse!bytes
  <2>2. WholeBuf' = WholeBuf
    BY <1>1, <1>2, <2>1, WholeBufIs DEF Parse!Fail
  <2> QED
    BY <1>1, <1>3, <1>4, <1>6, <2>1, <2>2, SameMoves DEF Whole!ReadEnd, Whole!bytes
<1> QED
  BY <1>5, <1>6

\* A place before the bytes in the buffer is one that a call has sought.
SoughtOK(b, i, k) ==
    b.pos < 0 => \E j \in 1..k - 1 :
                    i.calls[j].op = "seek" /\ i.calls[j].to = Parse!ReadOffset(b)

LEMMA WholeReadsBefore ==
    ASSUME Parse!ParserAssumption, Parse!ReadBefore,
           Parts(input, buf, unread, frames, phase, call, results),
           SoughtOK(buf, input, call)
    PROVE  Whole!ReadSought
<1>1. /\ phase = "scan" /\ buf.pos < 0 /\ Parse!Fail /\ phase' = "panicked"
      /\ input' = input /\ buf' = buf /\ scan' = scan /\ unread' = unread
      /\ objptr' = objptr /\ call' = call /\ results' = results
  BY DEF Parse!ReadBefore, Parse!bytes, Parse!Fail
<1>2. WholeBuf = AsWhole(buf, input) /\ WholeBuf' = WholeBuf
  BY <1>1, WholeBufIs
<1>3. GoodBuffer(buf, input) /\ Len(input.text) \in Nat
  BY InputTyped DEF Parts
<1>4. Whole!ReadOffset(WholeBuf) = Parse!ReadOffset(buf)
  BY <1>2, <1>3, AsWholeIs
<1>5. \E j \in 1..call - 1 : /\ input.calls[j].op = "seek"
                             /\ input.calls[j].to = Whole!ReadOffset(WholeBuf)
  BY <1>1, <1>4 DEF SoughtOK
<1> QED
  BY <1>1, <1>2, <1>5, SameMoves DEF Whole!ReadSought, Whole!bytes

\* Every step of the parser is one on the whole text, or none.
LEMMA WholeStep ==
    ASSUME Parse!ParserAssumption, [Parse!Next]_(Parse!vars),
           Parts(input, buf, unread, frames, phase, call, results),
           SoughtOK(buf, input, call)
    PROVE  [Whole!WholeNext]_(Whole!vars)
<1>1. GoodBuffer(buf, input) /\ input \in Inputs /\ Len(input.text) \in Nat
  BY InputTyped DEF Parts
<1>2. ASSUME phase # "seek", phase' # "seek", buf' = buf, input' = input
      PROVE  WholeBuf' = WholeBuf
  BY <1>2, WholeBufIs
<1>3. CASE Parse!Call
  BY <1>1, <1>3, WholeCalls DEF Whole!WholeNext
<1>4. CASE Parse!Done
  <2>1. WholeBuf' = WholeBuf
    BY <1>2, <1>4 DEF Parse!Done, Parse!bytes
  <2> QED
    BY <1>4, <2>1 DEF Parse!Done, Parse!bytes, Whole!Done, Whole!bytes, Whole!WholeNext
<1>5. CASE Parse!Seek
  BY <1>5, WholeSeeks DEF Whole!WholeNext
<1>6. CASE Parse!TakeUnread
  <2>1. /\ phase = "token" /\ unread # << >>
        /\ Parse!Deliver(Parse!Last(unread), Parse!Front(unread), buf)
        /\ input' = input /\ buf' = buf /\ scan' = scan /\ call' = call
        /\ results' = results
    BY <1>6 DEF Parse!TakeUnread, Parse!bytes
  <2>2. WholeBuf = AsWhole(buf, input)
    BY <2>1, WholeBufIs
  <2>3. Whole!ReadOffset(WholeBuf) = Parse!ReadOffset(buf)
    BY <1>1, <2>2, AsWholeIs
  <2>4. Whole!Last(unread) = Parse!Last(unread) /\ Whole!Front(unread) = Parse!Front(unread)
    BY DEF Whole!Last, Parse!Last, Whole!Front, Parse!Front
  <2>5. Whole!Deliver(Whole!Last(unread), Whole!Front(unread), WholeBuf)
    BY <2>1, <2>3, <2>4, SameDeliver
  <2>6. phase' # "seek"
    <3>1. /\ Parse!IsSeq(frames) /\ Parse!IsSeq(unread) /\ Len(unread) <= RoomOf(frames)
          /\ Len(unread) \in Nat
      BY <2>1 DEF Parts, Ahead, Parse!IsSeq
    <3>2. Parse!IsSeq(Parse!Front(unread)) /\ Len(Parse!Front(unread)) = Len(unread) - 1
      BY <2>1, <3>1, SeqFront
    <3>3. Len(Parse!Front(unread)) \in Nat
      BY <3>2 DEF Parse!IsSeq
    <3>4. Len(Parse!Front(unread)) <= Behind(frames)
      BY <3>1, <3>2, <3>3 DEF RoomOf, Behind
    <3>5. Moved(unread', frames', phase')
      BY <2>1, <3>1, <3>2, <3>4, DeliverMoves
    <3> QED
      BY <3>5 DEF Moved
  <2>7. WholeBuf' = WholeBuf
    BY <1>2, <2>1, <2>6
  <2> QED
    BY <2>1, <2>5, <2>7 DEF Whole!TakeUnread, Whole!bytes, Whole!WholeNext
<1>7. CASE Parse!StartScan
  <2>1. WholeBuf' = WholeBuf
    BY <1>2, <1>7 DEF Parse!StartScan
  <2>2. Whole!Between = Parse!Between /\ \A x : Whole!In(x) = Parse!In(x)
    BY SameTokens, SameEnds
  <2> QED
    BY <1>7, <2>1, <2>2 DEF Parse!StartScan, Whole!StartScan, Whole!WholeNext
<1>8. CASE Parse!ReadByte \/ Parse!Reload
  BY <1>8, WholeReads DEF Whole!WholeNext
<1>9. CASE Parse!ReadEnd
  BY <1>9, WholeReadsEnd DEF Whole!WholeNext
<1>10. CASE Parse!ReadBefore
  BY <1>10, WholeReadsBefore DEF Whole!WholeNext
<1>11. CASE Parse!Give
  <2>1. /\ phase = "value" /\ input' = input /\ buf' = buf /\ scan' = scan /\ unread' = unread
        /\ Parse!GiveResult \/ Parse!GiveElement \/ Parse!GiveEntry \/ Parse!GiveDefinition
    BY <1>11 DEF Parse!Give, Parse!bytes
  <2>2. phase' # "seek"
    BY <2>1 DEF Parse!GiveResult, Parse!GiveElement, Parse!GiveEntry, Parse!GiveDefinition,
       Parse!Become, Parse!Return
  <2>3. WholeBuf' = WholeBuf
    BY <1>2, <2>1, <2>2
  <2>4. Parse!GiveResult => Whole!GiveResult
    BY DEF Parse!GiveResult, Whole!GiveResult
  <2>5. Parse!GiveElement => Whole!GiveElement
    BY SameMoves DEF Parse!GiveElement, Whole!GiveElement
  <2>6. Parse!GiveEntry => Whole!GiveEntry
    BY SameMoves DEF Parse!GiveEntry, Whole!GiveEntry
  <2>7. Parse!GiveDefinition => Whole!GiveDefinition
    BY SameMoves DEF Parse!GiveDefinition, Whole!GiveDefinition
  <2> QED
    BY <2>1, <2>3, <2>4, <2>5, <2>6, <2>7 DEF Whole!Give, Whole!bytes, Whole!WholeNext
<1>12. CASE UNCHANGED Parse!vars
  <2>1. WholeBuf' = WholeBuf
    BY <1>12 DEF Parse!vars, WholeBuf
  <2> QED
    BY <1>12, <2>1 DEF Parse!vars, Whole!vars
<1> QED
  BY <1>3, <1>4, <1>5, <1>6, <1>7, <1>8, <1>9, <1>10, <1>11, <1>12 DEF Parse!Next

LEMMA SoughtStep ==
    ASSUME Parse!ParserAssumption, [Parse!Next]_(Parse!vars),
           Parts(input, buf, unread, frames, phase, call, results),
           SoughtOK(buf, input, call)
    PROVE  SoughtOK(buf', input', call')
<1>1. /\ GoodBuffer(buf, input) /\ input \in Inputs /\ Len(input.text) \in Nat
      /\ call \in Int
  BY InputTyped DEF Parts
<1>2. input' = input
  BY DEF Parse!Next, Parse!vars, Parse!Call, Parse!Done, Parse!Seek, Parse!TakeUnread,
     Parse!StartScan, Parse!ReadByte, Parse!Reload, Parse!ReadEnd, Parse!ReadBefore, Parse!Give
<1>3. CASE buf' = buf /\ (call' = call \/ call' = call + 1)
  <2>1. 1..call - 1 \subseteq 1..call' - 1
    BY <1>1, <1>3
  <2> QED
    BY <1>2, <1>3, <2>1 DEF SoughtOK
<1>4. ASSUME NEW c, NEW b, Parse!Feed(c, b), b.pos \in Nat,
             b \in [start : Nat, len : Nat, pos : Int, eof : BOOLEAN]
      PROVE  ~(buf'.pos < 0)
  <2> DEFINE e == [b EXCEPT !.pos = @ - 1]
  <2>1. buf' = b \/ (b.pos > 0 /\ buf' = e)
    BY <1>4 DEF Parse!Feed, Parse!UnreadByte
  <2>2. e.pos = b.pos - 1
    BY <1>4
  <2> HIDE DEF e
  <2> QED
    BY <1>4, <2>1, <2>2
<1>5. CASE Parse!Seek
  <2> DEFINE to == input.calls[call].to
  <2>1. /\ phase = "seek" /\ call \in DOMAIN input.calls /\ input.calls[call].op = "seek"
        /\ to \in Nat /\ call \in Nat \ {0}
    <3>1. phase = "seek"
      BY <1>5 DEF Parse!Seek
    <3>2. call \in DOMAIN input.calls /\ input.calls[call].op = "seek"
      BY <3>1 DEF Parts, InCall
    <3> QED
      BY <1>1, <3>1, <3>2, InputTyped
  <2>2. CASE Parse!ReaderOffset(buf) < to
    <3>1. buf'.pos = 0
      BY <1>5, <2>2 DEF Parse!Seek, Parse!Reloaded, Parse!AtEnd
    <3> QED
      BY <3>1 DEF SoughtOK
  <2>3. CASE ~(Parse!ReaderOffset(buf) < to)
    <3> DEFINE pos == buf.len - (Parse!ReaderOffset(buf) - to)
    <3>1. buf' = [buf EXCEPT !.pos = pos] /\ call' = call + 1
      BY <1>5, <2>3 DEF Parse!Seek
    <3>2. buf'.start = buf.start /\ buf'.pos = pos
      <4> HIDE DEF pos
      <4> QED
        BY <1>1, <3>1 DEF GoodBuffer
    <3>3. buf.start + pos = to
      BY <1>1, <2>1 DEF GoodBuffer, Parse!ReaderOffset
    <3>4. Parse!ReadOffset(buf') = to
      BY <3>2, <3>3 DEF Parse!ReadOffset
    <3>5. call \in 1..call' - 1
      BY <2>1, <3>1
    <3> QED
      BY <1>2, <2>1, <3>4, <3>5 DEF SoughtOK
  <2> QED
    BY <2>2, <2>3
<1>6. CASE Parse!ReadByte
  <2>1. PICK c, b : /\ Parse!Feed(c, b) /\ b.pos = buf.pos + 1
                    /\ b \in [start : Nat, len : Nat, pos : Int, eof : BOOLEAN]
                    /\ buf.pos \in 0..buf.len - 1
    <3>1. /\ [buf EXCEPT !.pos = @ + 1].pos = buf.pos + 1
          /\ [buf EXCEPT !.pos = @ + 1] \in [start : Nat, len : Nat, pos : Int, eof : BOOLEAN]
      BY <1>1 DEF GoodBuffer
    <3> QED
      BY <1>6, <3>1, Zenon DEF Parse!ReadByte
  <2>2. b.pos \in Nat
    BY <1>1, <2>1 DEF GoodBuffer
  <2> QED
    BY <1>4, <2>1, <2>2 DEF SoughtOK
<1>7. CASE Parse!Reload
  <2>1. PICK n \in Parse!Reloads(buf, input.text, Capacity) :
           Parse!Feed(input.text[Parse!ReaderOffset(buf) + 1],
                      [Parse!Reloaded(buf, n) EXCEPT !.pos = 1])
    BY <1>7 DEF Parse!Reload
  <2> DEFINE b == [Parse!Reloaded(buf, n) EXCEPT !.pos = 1]
  <2>2. b.pos = 1
    BY DEF Parse!Reloaded
  <2>3. b \in [start : Nat, len : Nat, pos : Int, eof : BOOLEAN]
    BY <1>1, ReloadedGood DEF GoodBuffer
  <2> HIDE DEF b
  <2>4. ~(buf'.pos < 0)
    BY <1>4, <2>1, <2>2, <2>3 DEF b
  <2> QED
    BY <2>4 DEF SoughtOK
<1>8. CASE Parse!ReadEnd
  <2>1. CASE Parse!EndAllowed
    <3>1. Parse!Feed("\n", Parse!AtEnd(buf)) /\ Parse!AtEnd(buf).pos = 0
      BY <1>8, <2>1 DEF Parse!ReadEnd, Parse!AtEnd
    <3>2. Parse!AtEnd(buf) \in [start : Nat, len : Nat, pos : Int, eof : BOOLEAN]
      BY <1>1, <1>8, AtEndGood DEF Parse!ReadEnd, GoodBuffer
    <3> QED
      BY <1>4, <3>1, <3>2 DEF SoughtOK
  <2>2. CASE ~Parse!EndAllowed
    BY <1>3, <1>8, <2>2 DEF Parse!ReadEnd, Parse!bytes
  <2> QED
    BY <2>1, <2>2
<1>9. CASE Parse!Call \/ Parse!Done \/ Parse!TakeUnread \/ Parse!StartScan \/ Parse!ReadBefore
           \/ UNCHANGED Parse!vars
  BY <1>3, <1>9 DEF Parse!Call, Parse!Done, Parse!TakeUnread, Parse!StartScan,
     Parse!ReadBefore, Parse!vars, Parse!bytes
<1>10. CASE Parse!Give
  BY <1>3, <1>10 DEF Parse!Give, Parse!GiveResult, Parse!GiveElement, Parse!GiveEntry,
     Parse!GiveDefinition, Parse!bytes
<1> QED
  BY <1>5, <1>6, <1>7, <1>8, <1>9, <1>10 DEF Parse!Next

\* The parser reads as if the whole text were in its buffer: whatever pieces the reader
\* gives the bytes in, and wherever they end in a token, it makes the same tokens and
\* values of them, and a stream's data begin at the same place (reload, readByte,
\* unreadByte, seekForward).  Only a read right behind a seek may fail.
THEOREM ReadsAsIfWhole ==
    ASSUME Parse!ParserAssumption
    PROVE  Parse!Spec => Whole!WholeSpec
<1> DEFINE I == Parse!Inv /\ SoughtOK(buf, input, call)
<1>1. Parse!Init => I /\ Whole!WholeInit
  <2> SUFFICES ASSUME Parse!Init PROVE I /\ Whole!WholeInit
    OBVIOUS
  <2>1. Parse!Inv
    BY ParserInit
  <2>2. /\ buf = [start |-> 0, len |-> 0, pos |-> 0, eof |-> FALSE] /\ phase = "call"
    BY DEF Parse!Init, Parse!EmptyBuffer
  <2>3. buf.pos = 0 /\ ~buf.eof /\ Parse!ReadOffset(buf) = 0
    BY <2>2 DEF Parse!ReadOffset
  <2>4. WholeBuf = Whole!AllAt(0)
    BY <2>2, <2>3 DEF WholeBuf, AsWhole, Whole!AllAt
  <2>5. SoughtOK(buf, input, call)
    BY <2>3 DEF SoughtOK
  <2> QED
    BY <2>1, <2>4, <2>5, SameTokens DEF Parse!Init, Whole!WholeInit
<1>2. I /\ [Parse!Next]_(Parse!vars) => I' /\ [Whole!WholeNext]_(Whole!vars)
  <2> SUFFICES ASSUME I, [Parse!Next]_(Parse!vars)
               PROVE  I' /\ [Whole!WholeNext]_(Whole!vars)
    OBVIOUS
  <2>1. Parts(input, buf, unread, frames, phase, call, results)
    BY ParserInvIs
  <2>2. Parse!Inv'
    BY ParserStep
  <2>3. SoughtOK(buf', input', call') /\ [Whole!WholeNext]_(Whole!vars)
    BY <2>1, SoughtStep, WholeStep
  <2> QED
    BY <2>2, <2>3
<1> HIDE DEF I
<1> QED
  BY <1>1, <1>2, PTL DEF Parse!Spec, Whole!WholeSpec
=============================================================================
