------------------------------ MODULE MCPageTree ------------------------------
(* Files and constants of PageTree for TLC. *)
EXTENDS PageTree

MCIds == 1..5

\* Five objects stored at their offsets, without links.
Plain ==
    [root |-> 1, use |-> "pages",
     entry |-> [x \in MCIds |-> "offset"], good |-> [x \in MCIds |-> TRUE],
     stm |-> [x \in MCIds |-> x], objstm |-> [x \in MCIds |-> FALSE],
     holds |-> [x \in MCIds |-> {}], extends |-> [x \in MCIds |-> None],
     type |-> [x \in MCIds |-> IF x = 1 THEN "Pages" ELSE "Page"],
     count |-> [x \in MCIds |-> 0], kids |-> [x \in MCIds |-> << >>],
     parent |-> [x \in MCIds |-> None],
     resources |-> [x \in MCIds |-> NoResources],
     first |-> [x \in MCIds |-> None], next |-> [x \in MCIds |-> None]]

\* Trees and things that are none, with true and false Counts.
MCTrees ==
    {[Plain EXCEPT !.type = <<"Pages", t2, t3, "Page", t5>>,
                   !.kids = <<k1, k2, k3, << >>, << >> >>,
                   !.count = <<c1, c2, c3, 0, 0>>] :
        t2 \in {"Pages"}, t3 \in {"Pages", "Page"}, t5 \in {"Page", "other"},
        k1 \in {<<2>>, <<2, 3>>, <<4, 2, 3>>, <<2, 2>>},
        k2 \in {<< >>, <<4, 5>>, <<3>>, <<1>>},
        k3 \in {<<5>>, <<2>>},
        c1 \in {-1, 2, 3}, c2 \in {-1, 0, 1, 2}, c3 \in {0, 1}}

\* Two pages below a node below the root, with resources anywhere and parents
\* that may form a cycle.
Inherited ==
    {[Plain EXCEPT !.type = <<"Pages", "Pages", "Page", "Page", "Page">>,
                   !.kids = << <<2, 5>>, <<3, 4>>, << >>, << >>, << >> >>,
                   !.count = <<3, 2, 0, 0, 0>>,
                   !.parent = <<p1, 1, p3, 2, 1>>,
                   !.resources = <<r1, r2, r3, NoResources, r5>>] :
        p1 \in {None, 2}, p3 \in {None, 1, 2, 3},
        r1 \in {NoResources, [n \in {"F1"} |-> "a"]},
        r2 \in {NoResources, [n \in {"F2"} |-> "b"]},
        r3 \in {NoResources} \cup [{"F1", "F2"} -> {"a", "b"}],
        r5 \in {NoResources} \cup [{"F1"} -> {"a", "b"}]}

\* A root and a page, packed or not, and two object streams.
Packed ==
    {[Plain EXCEPT !.kids[1] = <<2, 5>>, !.count[1] = 2,
                   !.entry = <<e1, p2[1], p3[1], e4, "offset">>,
                   !.good[2] = p2[2],
                   !.stm = <<3, p2[3], p3[2], 3, 5>>,
                   !.objstm[3] = TRUE, !.objstm[4] = o4,
                   !.holds[3] = h3, !.holds[4] = h4,
                   !.extends[3] = x3, !.extends[4] = x4] :
        e1 \in {"offset", "packed"},
        p2 \in {<<"free", TRUE, 2>>, <<"offset", TRUE, 2>>, <<"offset", FALSE, 2>>}
                  \cup {<<"packed", TRUE, s>> : s \in {2, 3, 4}},
        p3 \in {<<"offset", 3>>, <<"packed", 3>>, <<"packed", 4>>},
        e4 \in {"offset", "packed"}, o4 \in BOOLEAN,
        h3 \in {{1}, {1, 4}}, h4 \in {{2}, {1, 2, 3}},
        x3 \in {None, 4}, x4 \in {None, 3}}

\* Outlines of three entries, with any links, and storage that may be faulty.
Outlines ==
    {[Plain EXCEPT !.use = "outline", !.entry[3] = e3, !.good[3] = e3 # "packed",
                   !.first = <<f1, f2, f3, None, None>>,
                   !.next = <<None, n2, n3, n4, None>>] :
        e3 \in {"offset", "free", "packed"}, f1 \in {None, 1, 2, 3}, f2 \in {None, 1, 3, 4},
        f3 \in {None, 2, 4}, n2 \in {None, 2, 3}, n3 \in {None, 2, 4}, n4 \in {None, 3, 5}}
    \cup {[Plain EXCEPT !.use = "outline", !.entry[1] = e1, !.good[1] = FALSE] :
             e1 \in {"offset", "free", "packed"}}

MCFiles == MCTrees \cup Inherited \cup Packed \cup Outlines
=============================================================================
