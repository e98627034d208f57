-------------------------------- MODULE Xref --------------------------------
(***************************************************************************)
(* Reading the cross-reference data of a file (readXref): the sections a   *)
(* file has, one per revision, and how they are put together into one      *)
(* table that says for every object number where the object is.            *)
(*                                                                         *)
(* A section is a table or a stream.  Both name an older section (Prev);   *)
(* the trailer of a table may also name a stream of its own (XRefStm,      *)
(* "hybrid" files).  The tables are merged from the newest to the oldest,  *)
(* and the stream of each trailer right after its table.                   *)
(*                                                                         *)
(* A section is abstracted to its links, its Size and what it says of each *)
(* object number it mentions.  Its ranges do not overlap and its Size is   *)
(* not negative.  An offset is a section's place in the file.              *)
(***************************************************************************)
EXTENDS Integers, FiniteSets

CONSTANTS
    Offsets,          \* where sections may be
    Objects,          \* object numbers
    Files,            \* the files to read
    Stale,            \* entries that memory which is not zeroed may hold
    InitialCapacity   \* entries a table section starts with (2000)

None == 0             \* no link
BadLink == -1         \* a link that is not an integer
NoSize == -1          \* a trailer or header without Size

Links == Offsets \cup {None, BadLink}

\* What a section says of an object.  A used object is at a file offset, a
\* packed one at an index of an object stream.  The field check is what a look
\* into the file at that number finds: the number is zero ("none"), an object
\* begins there ("good"), the object is within 1024 bytes ("near"), or neither.
\* A stream's row is "other" when its type is above 2, and "cut" when the stream's
\* data ends before it and its type would be there (without a field for the type the
\* row is used, at the number that the buffer holds).
Mention ==
    [type : {"used", "packed"}, check : {"none", "good", "near", "lost"}]
        \cup [type : {"free", "cut", "other"}, check : {"none"}]

\* "junk" is a place where neither kind of section is found; at "eof" the
\* lexer panics, as it does for an offset behind the end of the file.
SectionKinds == {"table", "stream", "junk", "eof"}

IsSection(s) ==
    /\ s.kind \in SectionKinds
    /\ s.size \in Nat \cup {NoSize}
    /\ s.prev \in Links
    /\ s.xrefstm \in Links
    /\ s.hasIndex \in BOOLEAN
    /\ DOMAIN s.rows \subseteq Objects
    /\ \A x \in DOMAIN s.rows : s.rows[x] \in Mention
    /\ s.kind = "table" =>
          \A x \in DOMAIN s.rows : s.rows[x].type \in {"used", "free"}

ASSUME XrefAssumption ==
    /\ IsFiniteSet(Objects)
    /\ Objects \subseteq Nat
    /\ IsFiniteSet(Offsets)
    /\ Offsets \subseteq Nat \ {None}
    /\ InitialCapacity \in Nat \ {0}
    /\ \A f \in Files : /\ f.start \in Offsets
                        /\ \A o \in Offsets : IsSection(f.section[o])

-----------------------------------------------------------------------------
(* Entries and tables *)

\* An entry of the table: what the section at sec says.  A free marker is the
\* pointer {0, 65535} and does not tell where it came from.  Only the repair of
\* a packed object makes an entry "moved": its index is overwritten.
Entry(o, m) == [sec |-> o, type |-> m.type, check |-> m.check]

Empty == [sec |-> None, type |-> "empty", check |-> "none"]

Free == [sec |-> None, type |-> "free", check |-> "none"]

Entries ==
    {Empty, Free} \cup
        [sec : Offsets \cup {None}, type : {"used", "packed"},
         check : {"none", "good", "near", "lost", "moved"}]

\* Zeroed memory is Empty.
ASSUME StaleAssumption == Stale \subseteq {e \in Entries : e.sec = None /\ e # Empty}

\* A slice of entries: the slots up to its length, and its capacity.
NoTable == [slot |-> [x \in {} |-> Empty], cap |-> 0]

Length(t) == Cardinality(DOMAIN t.slot)

\* What memory that was just allocated may hold at the places X: zero, or what
\* an earlier document left there.
Memory(X) == [X -> {Empty} \cup Stale]

\* The slots that t gains when its length grows to n.
NewSlots(t, n) == Length(t)..n - 1

\* Mutant: the length grows whatever the capacity is.
ExtendedInPlace(t, n, mem) ==
    IF n <= Length(t) THEN t
    ELSE [t EXCEPT !.slot = [x \in 0..n - 1 |->
             IF x \in DOMAIN t.slot THEN t.slot[x] ELSE mem[x]]]

\* The slice t with length n at least, in the memory mem where it is new.
Extended(t, n, mem) ==
    IF n <= Length(t) THEN t
    ELSE [slot |-> [x \in 0..n - 1 |->
                       IF x \in DOMAIN t.slot THEN t.slot[x] ELSE mem[x]],
          cap |-> IF n > t.cap THEN (n * 11) \div 10 ELSE t.cap]

\* The end of the last range of a section.
RangeEnd(s) ==
    IF DOMAIN s.rows = {} THEN 0
    ELSE 1 + CHOOSE x \in DOMAIN s.rows : \A y \in DOMAIN s.rows : y <= x

\* Mutant: the last object number instead of the number of objects.
EstimateCapacityShort(s) ==
    LET n == IF s.hasIndex THEN RangeEnd(s) - 1 ELSE (s.size * 120) \div 100
    IN IF n <= 0 THEN 1 ELSE n

\* estimateXrefCapacity
EstimateCapacity(s) ==
    LET end == RangeEnd(s)
        n == IF s.hasIndex THEN end + end \div 20 ELSE (s.size * 120) \div 100
    IN IF n <= 0 THEN 1 ELSE n

\* The entry that section s at o gives for x.  A table's "f" row and a type above 2
\* leave the slot empty; a stream's type 0 puts a marker.  A row that was cut is
\* read from the rest of the batch buffer: zero, which is type 0, or stale bytes.
CutRows(s) == {x \in DOMAIN s.rows : s.rows[x].type = "cut"}

RowEntry(s, o, x, buffer) ==
    LET m == s.rows[x]
    IN CASE m.type = "cut" /\ buffer[x] # Empty -> buffer[x]
         [] m.type = "cut" /\ buffer[x] = Empty -> Free
         [] m.type = "other" -> Empty
         [] m.type = "free" -> IF s.kind = "table" THEN Empty ELSE Free
         [] OTHER -> Entry(o, m)

\* Mutant: a row overwrites what a newer section put into its slot.
FillOverwriting(t, s, o, buffer) ==
    [t EXCEPT !.slot = [x \in DOMAIN t.slot |->
        IF x \in DOMAIN s.rows THEN RowEntry(s, o, x, buffer) ELSE t.slot[x]]]

\* The rows of section s put into the empty slots of t.
Fill(t, s, o, buffer) ==
    [t EXCEPT !.slot = [x \in DOMAIN t.slot |->
        IF t.slot[x] = Empty /\ x \in DOMAIN s.rows
        THEN RowEntry(s, o, x, buffer) ELSE t.slot[x]]]

\* isLikelyObjectAt, scanForObjectAt: what is found near is taken, also when
\* the number was an index.
Repaired(t) ==
    [t EXCEPT !.slot = [x \in DOMAIN t.slot |->
        IF t.slot[x].check = "near"
        THEN [t.slot[x] EXCEPT
                 !.check = IF t.slot[x].type = "used" THEN "good" ELSE "moved"]
        ELSE t.slot[x]]]

Lost(t) == {x \in DOMAIN t.slot : t.slot[x].check = "lost"}

Present(t) == {x \in DOMAIN t.slot : t.slot[x] # Empty}

\* More than 30% of the entries lead nowhere.
Invalid(t) == 10 * Cardinality(Lost(t)) > 3 * Cardinality(Present(t))

\* Mutant: the stream's entry wins, be it free or not.
MergedFreeToo(dest, src, mem) ==
    LET t == Extended(dest, Length(src), mem)
    IN [t EXCEPT !.slot = [x \in DOMAIN t.slot |->
           IF x \in Present(src) THEN src.slot[x] ELSE t.slot[x]]]

\* mergeXrefTables: the stream's entry wins unless one of the two is free.
Merged(dest, src, mem) ==
    LET t == Extended(dest, Length(src), mem)
    IN [t EXCEPT !.slot = [x \in DOMAIN t.slot |->
           IF /\ x \in Present(src)
              /\ t.slot[x] = Empty \/ (t.slot[x] # Free /\ src.slot[x] # Free)
           THEN src.slot[x] ELSE t.slot[x]]]

-----------------------------------------------------------------------------
(* The reader *)

VARIABLES
    file,     \* the file, never changed
    pc,       \* what readXref does next
    at,       \* the section it reads next
    table,    \* the table of the file
    trailer,  \* the section whose trailer or header is the current one
    hybrid,   \* whether the stream that is read was named by an XRefStm
    stm,      \* the table of the stream, while it is read
    stmHead,  \* the stream at which its chain began
    refused   \* whether an allocation was refused

vars == <<file, pc, at, table, trailer, hybrid, stm, stmHead, refused>>

Section(o) == file.section[o]

Here == Section(at)

Init ==
    /\ file \in Files
    /\ pc = "start"
    /\ at = file.start
    /\ table = NoTable
    /\ trailer = None
    /\ hybrid = FALSE
    /\ stm = NoTable
    /\ stmHead = None
    /\ refused = FALSE

\* BoundedAllocSlice for each length of lengths: all granted, or one refused.
Allocate(lengths, Granted, Refused) ==
    \/ Granted /\ UNCHANGED refused
    \/ \E n \in lengths : n > 0 /\ Refused /\ refused' = TRUE

Fail == pc' = "error" /\ UNCHANGED <<at, table, trailer, hybrid, stm, stmHead>>

Panic == pc' = "panic" /\ UNCHANGED <<at, table, trailer, hybrid, stm, stmHead>>

\* readXref, and the first table of readXrefTable.
Start ==
    /\ pc = "start"
    /\ UNCHANGED file
    /\ CASE Here.kind = "eof" -> Panic /\ UNCHANGED refused
         [] Here.kind = "junk" -> Fail /\ UNCHANGED refused
         [] Here.kind = "stream" ->
              /\ pc' = "stream"
              /\ UNCHANGED <<at, table, trailer, hybrid, stm, stmHead, refused>>
         [] Here.kind = "table" ->
              Allocate({InitialCapacity},
                  /\ pc' = "table"
                  /\ table' = [NoTable EXCEPT !.cap = InitialCapacity]
                  /\ UNCHANGED <<at, trailer, hybrid, stm, stmHead>>,
                  Fail)

\* parseXrefTableAndTrailer, for the first table and for those of the chain.
ReadTable ==
    /\ pc = "table"
    /\ UNCHANGED file
    /\ CASE Here.kind = "eof" -> Panic /\ UNCHANGED refused
         [] Here.kind \in {"junk", "stream"} -> Fail /\ UNCHANGED refused
         [] Here.kind = "table" ->
              Allocate({IF RangeEnd(Here) > table.cap THEN RangeEnd(Here) ELSE 0},
                  /\ \E mem \in Memory(NewSlots(table, RangeEnd(Here))) :
                        table' = Fill(Extended(table, RangeEnd(Here), mem),
                                      Here, at, << >>)
                  /\ trailer' = at
                  /\ pc' = "trailer"
                  /\ UNCHANGED <<at, hybrid, stm, stmHead>>,
                  Fail)

-----------------------------------------------------------------------------
(* readXrefStream, for a file that ends in a stream and for an XRefStm *)

\* Mutant: an error of an XRefStm is an error of the file.
StreamFailsHard == Fail

\* The error ends the reading, or is logged and the XRefStm is given up.
StreamFails ==
    /\ pc' = IF hybrid THEN "prev" ELSE "error"
    /\ stm' = NoTable
    /\ hybrid' = FALSE
    /\ UNCHANGED <<at, table, trailer, stmHead>>

\* handleTrailerXRefStm, up to the stream.
Trailer ==
    /\ pc = "trailer"
    /\ LET link == Section(trailer).xrefstm
       IN IF link \in Offsets
          THEN pc' = "stream" /\ at' = link /\ hybrid' = TRUE
          ELSE pc' = "prev" /\ UNCHANGED <<at, hybrid>>
    /\ UNCHANGED <<file, table, trailer, stm, stmHead, refused>>

\* readXrefStreamData into t: the batch buffer and, where needed, more slots.
\* The chain of streams began at head.
ReadRows(t, head) ==
    Allocate({Cardinality(DOMAIN Here.rows),
              IF RangeEnd(Here) > t.cap THEN RangeEnd(Here) ELSE 0},
        /\ \E mem \in Memory(NewSlots(t, RangeEnd(Here))),
              buffer \in Memory(CutRows(Here)) :
              stm' = Fill(Extended(t, RangeEnd(Here), mem), Here, at, buffer)
        /\ stmHead' = head
        /\ pc' = "streamPrev"
        /\ UNCHANGED <<at, table, trailer, hybrid>>,
        StreamFails)

\* The first stream.  Slicing the new table to Size panics when the capacity,
\* which comes from Index, is smaller.
ReadStream ==
    /\ pc = "stream"
    /\ UNCHANGED file
    /\ CASE Here.kind = "eof" -> Panic /\ UNCHANGED refused
         [] \/ Here.kind \in {"junk", "table"}
            \/ Here.kind = "stream" /\ Here.size = NoSize ->
              StreamFails /\ UNCHANGED refused
         [] OTHER ->
              \/ StreamFails /\ refused' = TRUE
              \/ /\ Here.size > EstimateCapacity(Here)
                 /\ Panic
                 /\ UNCHANGED refused
              \/ /\ Here.size <= EstimateCapacity(Here)
                 /\ \E mem \in Memory(0..Here.size - 1) :
                       ReadRows([slot |-> mem, cap |-> EstimateCapacity(Here)], at)

\* The next link of the chain of streams, or its end.
FollowStreamPrev ==
    /\ pc = "streamPrev"
    /\ UNCHANGED <<file, refused>>
    /\ LET link == Here.prev
       IN CASE link \in Offsets ->
                 /\ pc' = "prevStream"
                 /\ at' = link
                 /\ UNCHANGED <<table, trailer, hybrid, stm, stmHead>>
            [] link = BadLink -> StreamFails
            [] link = None /\ hybrid ->
                 /\ pc' = "merge"
                 /\ UNCHANGED <<at, table, trailer, hybrid, stm, stmHead>>
            [] link = None /\ ~hybrid ->
                 /\ pc' = "done"
                 /\ table' = stm
                 /\ trailer' = stmHead
                 /\ UNCHANGED <<at, hybrid, stm, stmHead>>

\* mergePrevXrefStreams: an older stream must not be larger than the first.
ReadPrevStream ==
    /\ pc = "prevStream"
    /\ UNCHANGED file
    /\ CASE Here.kind = "eof" -> Panic /\ UNCHANGED refused
         [] \/ Here.kind \in {"junk", "table"}
            \/ Here.kind = "stream" /\ Here.size > Section(stmHead).size ->
              StreamFails /\ UNCHANGED refused
         [] OTHER -> ReadRows(stm, stmHead)

\* handleTrailerXRefStm: too many invalid entries, and the stream is dropped.
Reject ==
    /\ pc = "merge"
    /\ Invalid(Repaired(stm))
    /\ UNCHANGED <<file, refused>>
    /\ StreamFails

\* handleTrailerXRefStm: without memory the merge leaves the table as it is.
Merge ==
    /\ pc = "merge"
    /\ ~Invalid(Repaired(stm))
    /\ Allocate({IF Length(stm) > table.cap THEN Length(stm) ELSE 0},
           \E mem \in Memory(NewSlots(table, Length(stm))) :
               table' = Merged(table, Repaired(stm), mem),
           UNCHANGED table)
    /\ pc' = "prev"
    /\ stm' = NoTable
    /\ hybrid' = FALSE
    /\ UNCHANGED <<file, at, trailer, stmHead>>

-----------------------------------------------------------------------------
(* The chain of tables *)

\* Mutant: the link is that of the first trailer, again and again.
FollowPrevStuck ==
    /\ pc = "prev"
    /\ file.section[file.start].prev \in Offsets
    /\ at' = file.section[file.start].prev
    /\ pc' = "table"
    /\ UNCHANGED <<file, table, trailer, hybrid, stm, stmHead, refused>>

\* resolvePrevXrefTables: the link of the trailer that was read last.
FollowPrev ==
    /\ pc = "prev"
    /\ Section(trailer).prev \in Offsets
    /\ at' = Section(trailer).prev
    /\ pc' = "table"
    /\ UNCHANGED <<file, table, trailer, hybrid, stm, stmHead, refused>>

\* validateTrailerSize, with the trailer that was read last.
Finish ==
    /\ pc = "prev"
    /\ Section(trailer).prev \notin Offsets
    /\ UNCHANGED <<file, refused>>
    /\ LET s == Section(trailer)
       IN IF s.prev = BadLink \/ s.size = NoSize THEN Fail
          ELSE /\ pc' = "done"
               /\ table' = [table EXCEPT !.slot =
                     [x \in {y \in DOMAIN table.slot : y < s.size} |->
                        table.slot[x]]]
               /\ UNCHANGED <<at, trailer, hybrid, stm, stmHead>>

Next ==
    \/ Start \/ ReadTable \/ Trailer
    \/ ReadStream \/ FollowStreamPrev \/ ReadPrevStream \/ Reject \/ Merge
    \/ FollowPrev \/ Finish

Spec == Init /\ [][Next]_vars

FairSpec == Spec /\ WF_vars(Next)

-----------------------------------------------------------------------------
(* Properties *)

\* Every variable has its type (readXref).
TypeOK ==
    /\ pc \in {"start", "table", "trailer", "stream", "streamPrev",
               "prevStream", "merge", "prev", "done", "error", "panic"}
    /\ at \in Offsets
    /\ \A t \in {table, stm} :
          /\ DOMAIN t.slot = 0..Length(t) - 1
          /\ Length(t) <= t.cap
          /\ \A x \in DOMAIN t.slot : t.slot[x] \in Entries
    /\ {trailer, stmHead} \subseteq Offsets \cup {None}
    /\ {hybrid, refused} \subseteq BOOLEAN
    /\ pc \in {"trailer", "prev", "done"} => trailer \in Offsets

Ended == pc \in {"done", "error", "panic"}

\* The section before the one at o.
Older(o) ==
    IF o \in Offsets /\ Section(o).prev \in Offsets THEN Section(o).prev ELSE None

\* The sections on the chain of Prev links from o: the links lead out of every
\* set of sections that has o and not this one.
Chain(o) ==
    {p \in Offsets :
        \A S \in SUBSET (Offsets \ {p}) :
            o \in S => \E q \in S : Older(q) \notin S \cup {None}}

\* The revisions of a file that ends in a table are its tables, each with the
\* streams of its XRefStm; those of a file that ends in a stream are its streams.
Revisions == Chain(file.start)

\* What a section of the set says of x has one of the types.
Saying(sections, x, types) ==
    {o \in sections : /\ x \in DOMAIN Section(o).rows
                      /\ Section(o).rows[x].type \in types}

\* The entry was in the memory; a repair may have changed what is found there.
IsStale(e) == e.sec = None /\ \E s \in Stale : s.type = e.type

\* The entry e is what the stream at o says of x.
Gives(o, x, e) ==
    LET m == Section(o).rows[x]
    IN IF m.type \in {"free", "cut"} THEN e = Free ELSE e = Entry(o, m)

\* The entry e is what the newest of the streams that mentions x says; the other
\* ones are on the chain from there.
FromNewest(streams, x, e) ==
    LET says == Saying(streams, x, {"used", "packed", "free", "cut"})
    IN \/ IsStale(e)
       \/ says = {} /\ e = Empty
       \/ \E o \in says : says \subseteq Chain(o) /\ Gives(o, x, e)

\* A file that ends in a stream: each object is what the newest stream of the
\* chain that mentions it says, a free object stays free, and nothing that no
\* stream mentions is there, except for what unzeroed memory held
\* (mergePrevXrefStreams, processXrefChunk).
NewestStreamWins ==
    pc = "done" /\ Section(file.start).kind = "stream" =>
        \A x \in DOMAIN table.slot : FromNewest(Revisions, x, table.slot[x])

\* The streams of the XRefStm of the table at o.
Streams(o) ==
    IF Section(o).xrefstm \in Offsets THEN Chain(Section(o).xrefstm) ELSE {}

\* The revision r and those after it.
Newer(r) == {p \in Revisions : r \in Chain(p)}

\* The table of revision r has x in use, no stream after it frees x, and none of
\* its own or an older XRefStm has x in use too, which would replace the entry.
Stands(r, x) ==
    /\ Saying({r}, x, {"used"}) # {}
    /\ \A p \in Chain(r) : Saying(Streams(p), x, {"used", "packed", "cut"}) = {}
    /\ \A p \in Newer(r) \ {r} : Saying(Streams(p), x, {"free", "cut"}) = {}

FromNewer(r, e) ==
    IsStale(e) \/ \E p \in Newer(r) : e.sec \in {p} \cup Streams(p)

\* A file that ends in a table: an object that stands in revision r comes from this
\* revision or a newer one, and is there if the oldest Size allows it (readXrefTable,
\* resolvePrevXrefTables, handleTrailerXRefStm, mergeXrefTables).
NewestRevisionWins ==
    pc = "done" /\ Section(file.start).kind = "table" =>
        \A r \in Revisions, x \in Objects :
            x < Section(trailer).size /\ Stands(r, x) =>
                x \in DOMAIN table.slot /\ FromNewer(r, table.slot[x])

\* A file that ends in a table is refused only for a fault of its tables or
\* for want of memory, never for a fault of an XRefStm (readXrefTable and
\* resolvePrevXrefTables go on after an error of handleTrailerXRefStm).
StreamFaultsTolerated ==
    pc = "error" /\ Section(file.start).kind = "table" =>
        \/ refused
        \/ \E o \in Revisions : \/ Section(o).kind # "table"
                                \/ Section(o).prev = BadLink
                                \/ Section(o).prev = None /\ Section(o).size = NoSize

\* Reading never panics when all links stay inside the file and no stream's
\* Size is above what its Index covers (readXrefStream).
NoPanicOnCoveredIndex ==
    (\A o \in Offsets :
        LET s == Section(o)
        IN /\ s.kind # "eof"
           /\ s.kind = "stream" /\ s.hasIndex => s.size <= RangeEnd(s))
    => pc # "panic"

\* No set of sections in which each is linked to another of the set.
Acyclic ==
    \A S \in SUBSET Offsets \ {{}} :
        \E o \in S : {Section(o).prev, Section(o).xrefstm} \cap S = {}

\* The reading ends if no link leads back (mergePrevXrefStreams and
\* resolvePrevXrefTables follow Prev without looking for a cycle).
EndsWithoutCycle == Acyclic => <>Ended

-----------------------------------------------------------------------------
(* The inductive invariant of the reader. *)

\* A slice whose slots are numbered from 0 and fit into its capacity.
IsTable(t) ==
    /\ t = [slot |-> t.slot, cap |-> t.cap]
    /\ t.cap \in Nat /\ Length(t) \in 0..t.cap
    /\ t.slot \in [0..Length(t) - 1 -> Entries]

\* The chain of streams that is read has a head, and the streams of an XRefStm
\* come after the trailer that names it (readXrefStream, handleTrailerXRefStm).
StreamOK ==
    /\ pc \in {"streamPrev", "prevStream", "merge"} => stmHead \in Offsets
    /\ hybrid => trailer \in Offsets
    /\ pc = "merge" => hybrid

\* In a file that ends in a table, a stream is read only for an XRefStm, and the
\* tables are those of the chain of Prev links (readXrefTable).
TablesOK ==
    Section(file.start).kind = "table" =>
        /\ pc \in {"stream", "streamPrev", "prevStream", "merge"} => hybrid
        /\ pc = "table" => at \in Revisions
        /\ trailer # None => trailer \in Revisions

\* The section at which the streams that are read begin.
ChainHead == IF hybrid THEN Section(trailer).xrefstm ELSE file.start

\* The streams V, from the one at head to the one at last, have been put into t
\* (readXrefStream, mergePrevXrefStreams).
StreamsRead(t, head, V, last) ==
    /\ {head, last} \subseteq V /\ V \subseteq Chain(head)
    /\ \A o \in V : last \in Chain(o) /\ (o = last \/ Older(o) \in V)
    /\ \A o \in V : DOMAIN Section(o).rows \subseteq DOMAIN t.slot
    /\ \A x \in DOMAIN t.slot : FromNewest(V, x, t.slot[x])

StreamsSoFar ==
    /\ pc = "start" => ~hybrid
    /\ Section(file.start).kind # "table" =>
          ~hybrid /\ pc \notin {"table", "trailer", "merge", "prev"}
    /\ pc = "stream" => at = ChainHead
    /\ pc \in {"streamPrev", "prevStream", "merge"} => stmHead = ChainHead
    /\ pc \in {"streamPrev", "merge"} =>
          \E V \in SUBSET Offsets : StreamsRead(stm, stmHead, V, at)
    /\ pc = "prevStream" =>
          \E V \in SUBSET Offsets, o \in Offsets :
             StreamsRead(stm, stmHead, V, o) /\ at = Older(o)

\* Where an entry of x comes from, when the revisions V have been read.
FromRevisions(V, x, e) ==
    \/ IsStale(e)
    \/ e = Empty
    \/ e = Free /\ \E p \in V : Saying(Streams(p), x, {"free", "cut"}) # {}
    \/ \E p \in V : e.sec \in {p} \cup Streams(p)

\* All that t holds comes from the revisions V, and it holds what stands in them.
HoldsRevisions(t, V) ==
    /\ \A x \in DOMAIN t.slot : FromRevisions(V, x, t.slot[x])
    /\ \A r \in V, x \in Objects :
          Stands(r, x) => x \in DOMAIN t.slot /\ FromNewer(r, t.slot[x])

\* The tables V, from the newest to the one at last, have been put into t
\* (readXrefTable, resolvePrevXrefTables).
TablesRead(t, V, last) ==
    /\ {file.start, last} \subseteq V /\ V \subseteq Revisions
    /\ \A o \in V : last \in Chain(o) /\ (o = last \/ Older(o) \in V)
    /\ HoldsRevisions(t, V)

TablesSoFar ==
    Section(file.start).kind = "table" =>
        /\ pc = "table" =>
              \/ at = file.start /\ DOMAIN table.slot = {}
              \/ /\ \E V \in SUBSET Offsets : TablesRead(table, V, trailer)
                 /\ at = Older(trailer)
        /\ pc \in {"trailer", "stream", "streamPrev", "prevStream", "merge", "prev"} =>
              \E V \in SUBSET Offsets : TablesRead(table, V, trailer)

Inv ==
    /\ file.start \in Offsets /\ \A o \in Offsets : IsSection(Section(o))
    /\ TypeOK
    /\ IsTable(table) /\ IsTable(stm)
    /\ pc = "start" => at = file.start
    /\ StreamOK
    /\ TablesOK
    /\ StreamFaultsTolerated
    /\ NoPanicOnCoveredIndex

\* What the table holds while it is put together, and in the end.
ContentInv ==
    /\ StreamsSoFar
    /\ TablesSoFar
    /\ NewestStreamWins
    /\ NewestRevisionWins

=============================================================================
