------------------------------- MODULE MCXref -------------------------------
(* Files and constants of Xref for TLC. *)
EXTENDS Xref

used == [type |-> "used", check |-> "good"]
near == [type |-> "used", check |-> "near"]
lost == [type |-> "used", check |-> "lost"]
first == [type |-> "packed", check |-> "none"]
packed == [type |-> "packed", check |-> "lost"]
packedNear == [type |-> "packed", check |-> "near"]
free == [type |-> "free", check |-> "none"]
cut == [type |-> "cut", check |-> "none"]
other == [type |-> "other", check |-> "none"]

MCOffsets == 1..4

MCObjects == 0..2

MCStale == {[sec |-> None, type |-> "used", check |-> "lost"]}

\* Rows for some of the objects 1 and 2; object 0 heads a table's free list.
Rows(mentions) == UNION {[d -> mentions] : d \in SUBSET {1, 2}}

WithZero(rows) ==
    [x \in DOMAIN rows \cup {0} |-> IF x = 0 THEN free ELSE rows[x]]

Table(size, prev, xrefstm, rows) ==
    [kind |-> "table", size |-> size, prev |-> prev, xrefstm |-> xrefstm,
     hasIndex |-> FALSE, rows |-> WithZero(rows)]

Stream(size, prev, rows) ==
    [kind |-> "stream", size |-> size, prev |-> prev, xrefstm |-> None,
     hasIndex |-> TRUE, rows |-> rows]

WholeStream(size, prev, m) ==
    [kind |-> "stream", size |-> size, prev |-> prev, xrefstm |-> None,
     hasIndex |-> FALSE, rows |-> [x \in 0..size - 1 |-> IF x = 0 THEN free ELSE m]]

Nothing(kind) ==
    [kind |-> kind, size |-> NoSize, prev |-> None, xrefstm |-> None,
     hasIndex |-> FALSE, rows |-> << >>]

\* Two revisions, a table with an XRefStm each; an old Size that may be small.
Hybrid ==
    {[start |-> 1, section |-> <<
        Table(3, 2, 3, t1), Table(size, None, 4, t2),
        Stream(2, None, s1), Stream(3, None, s2) >>] :
        size \in {2, 3},
        t1 \in {[x \in {1} |-> used], [x \in {1, 2} |-> used], [x \in {2} |-> free]},
        t2 \in {[x \in d |-> used] : d \in {{}, {1, 2}}},
        s1 \in [{1, 2} -> {free, packed, near}],
        s2 \in {<<free, used>>, <<used, free>>}}

\* Three revisions, a stream each.
StreamChain ==
    {[start |-> 1, section |-> <<
        Stream(3, 2, s1), Stream(3, 3, s2), WholeStream(size, None, m),
        Nothing("junk") >>] :
        s1 \in {r \in Rows({free, first, cut, other}) : 2 \in DOMAIN r},
        s2 \in Rows({free, used, packedNear}),
        size \in 0..3, m \in {used, lost}}

\* Any links between two tables and a stream, and a place that is neither.
Linked ==
    {[start |-> start, section |-> <<
        Table(3, p1, x1, [x \in {2} |-> used]),
        Table(size, p2, x2, [x \in {1} |-> used]),
        Stream(2, p3, [x \in {1} |-> used]), Nothing(kind) >>] :
        start \in {1, 3}, p1 \in {None, BadLink, 2, 3, 4}, x1 \in {None, BadLink, 3, 4},
        p2 \in {None, BadLink, 1, 3}, x2 \in {None, 3}, size \in {NoSize, 2},
        p3 \in {None, BadLink, 2, 3, 4},
        kind \in {"junk", "eof"}}

\* An Index that ends before Size.
ShortIndex ==
    {[start |-> start, section |-> <<
        Table(3, None, 2, [x \in {1} |-> used]), Stream(size, None, s),
        Nothing("junk"), Nothing("junk") >>] :
        start \in {1, 2}, size \in 1..4, s \in Rows({used})}

\* No section at the start.
NoStart ==
    {[start |-> 1, section |-> [o \in MCOffsets |-> Nothing(kind)]] :
        kind \in {"junk", "eof"}}

MCFiles == Hybrid \cup StreamChain \cup Linked \cup ShortIndex \cup NoStart
=============================================================================
