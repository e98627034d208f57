-------------------------------- MODULE PageTree --------------------------------
(***************************************************************************)
(* The text of a whole document page after page (Reader.GetPlainText): the *)
(* walk of the page tree for each number (Reader.Page), the resources of a *)
(* page or of an ancestor, the cache of fonts; and the outline             *)
(* (buildOutline).  Every step from one dictionary to another resolves a   *)
(* reference.                                                              *)
(*                                                                         *)
(* A file is its storage (Objects) and, for every object: its Type, Count  *)
(* and Kids, its Parent, its resources (a function from names to fonts, or *)
(* NoResources), and its First and Next in the outline.  root is what the  *)
(* catalog names as Pages, or as Outlines.                                 *)
(***************************************************************************)
EXTENDS Objects, Sequences, SequencesExt

CONSTANTS
    Files,          \* the files to read
    Fonts,          \* fonts
    Names,          \* names of fonts
    OutlineBudget   \* slices of children that the allocator has room for

Types == {"Pages", "Page", "other"}

FontMaps == UNION {[d -> Fonts] : d \in SUBSET Names}

\* Not a function from names: Resources that are absent here.
NoResources == [absent |-> TRUE]

IsFile(f) ==
    /\ IsStorage(f)
    /\ f.root \in Ids
    /\ f.use \in {"pages", "outline"}
    /\ f.type \in [Ids -> Types]
    /\ f.count \in [Ids -> Int]
    /\ DOMAIN f.kids = Ids /\ \A x \in Ids : f.kids[x] \in Seq(Ids)
    /\ f.parent \in [Ids -> Ids \cup {None}]
    /\ DOMAIN f.resources = Ids
    /\ \A x \in Ids : f.resources[x] = NoResources \/ f.resources[x] \in FontMaps
    /\ f.first \in [Ids -> Ids \cup {None}]
    /\ f.next \in [Ids -> Ids \cup {None}]

ASSUME FilesAssumption ==
    /\ OutlineBudget \in Nat
    /\ \A f \in Files : IsFile(f)

VARIABLES
    file,     \* the file, never changed
    where,    \* what a reference to each object gives: resolve reads nothing else
    phase,    \* what is done next
    page,     \* number of the page that is read, from 1
    node,     \* dictionary the walk is in, the page found, or an ancestor
    num,      \* pages still to skip
    kid,      \* index of the next kid of node
    found,    \* the pages found so far: objects, or None
    fonts,    \* the cache: fonts by name
    shown,    \* for each page read, the fonts its names stood for
    reader,   \* the texts in the reader that is returned: the page of each
    calls,    \* calls of buildOutline: the entry and the child it goes on with
    titles,   \* the entries that the outline has, in the order they are added
    used      \* slices of children that were allocated

vars == <<file, where, phase, page, node, num, kid, found, fonts, shown, reader, calls, titles, used>>

given == <<file, where>>

walk == <<page, node, num, kid, found, fonts, shown, reader>>

outline == <<calls, titles, used>>

\* Not a page of this document.
Foreign == -3

Stops == {"done", "failed", "panicked", "endless"}

Go(x) == IF x = None THEN None ELSE where[x]

\* The phase in which a resolution that gives no value ends the work.
Broken(x) == IF Go(x) = Panic THEN "panicked" ELSE "endless"

Sound(x) == Go(x) \notin {Panic, Endless}

Type(x) == IF x = None THEN "other" ELSE file.type[x]

-----------------------------------------------------------------------------
(* Reader.Page and Reader.NumPage *)

NumPage == IF Go(file.root) = None THEN 0 ELSE file.count[Go(file.root)]

\* The loop over the pages; Page numbers them from 0.
NextPage ==
    /\ phase = "next"
    /\ Sound(file.root)
    /\ page < NumPage
    /\ phase' = "enter"
    /\ page' = page + 1
    /\ num' = page
    /\ node' = Go(file.root)
    /\ kid' = 0
    /\ UNCHANGED <<given, found, fonts, shown, reader, outline>>

\* The reader is made of the bytes of a pooled buffer, which goes back.
LastPage ==
    /\ phase = "next"
    /\ IF Sound(file.root) THEN page >= NumPage /\ phase' = "done" /\ reader' = found
       ELSE phase' = Broken(file.root) /\ UNCHANGED reader
    /\ UNCHANGED <<given, page, node, num, kid, found, fonts, shown, outline>>

\* Another goroutine, in this or another document, takes the buffer from the pool
\* and writes the text of its page over the text of the first page that was found;
\* a page that is null has no text, and of the others it is assumed.
ReuseBuffer ==
    /\ phase = "done"
    /\ \E i \in DOMAIN reader :
          /\ reader[i] # None
          /\ \A j \in 1..i - 1 : reader[j] = None
          /\ reader' = [reader EXCEPT ![i] = Foreign]
    /\ UNCHANGED <<given, phase, page, node, num, kid, found, fonts, shown, outline>>

Give(x) ==
    /\ phase' = "inherit"
    /\ node' = x
    /\ found' = Append(found, x)
    /\ UNCHANGED <<num, kid>>

\* The head of the loop Search: a dictionary with Type Pages, whose Count is not
\* below the number.
Enter ==
    /\ phase = "enter"
    /\ IF Type(node) # "Pages" \/ file.count[node] < num
       THEN Give(None)
       ELSE /\ phase' = "kids"
            /\ kid' = 1
            /\ UNCHANGED <<node, num, found>>
    /\ UNCHANGED <<given, page, fonts, shown, reader, outline>>

Descend(k) ==
    /\ phase' = "enter"
    /\ node' = k
    /\ UNCHANGED <<num, kid, found>>

Skip(n) ==
    /\ kid' = kid + 1
    /\ num' = num - n
    /\ UNCHANGED <<phase, node, found>>

\* Mutant: a subtree is entered when it ends with the page before.
KidAtMost(k) ==
    CASE Type(k) = "Pages" -> IF num <= file.count[k] THEN Descend(k)
                              ELSE Skip(file.count[k])
      [] Type(k) = "Page" -> IF num = 0 THEN Give(k) ELSE Skip(1)
      [] OTHER -> Skip(0)

\* One turn of the loop over the kids.  A kid of another type is passed over.
Kid(k) ==
    CASE Type(k) = "Pages" -> IF num < file.count[k] THEN Descend(k)
                              ELSE Skip(file.count[k])
      [] Type(k) = "Page" -> IF num = 0 THEN Give(k) ELSE Skip(1)
      [] OTHER -> Skip(0)

Look ==
    /\ phase = "kids"
    /\ LET kids == file.kids[node]
       IN IF kid > Len(kids) THEN Give(None)
          ELSE IF Sound(kids[kid]) THEN Kid(Go(kids[kid]))
          ELSE /\ phase' = Broken(kids[kid])
               /\ UNCHANGED <<node, num, kid, found>>
    /\ UNCHANGED <<given, page, fonts, shown, reader, outline>>

-----------------------------------------------------------------------------
(* Fonts of a page, and its text *)

\* The fonts of the page are put into the cache, unless the name is in it, and
\* its text is decoded through the cache.
Cache(own) ==
    LET known == [n \in DOMAIN fonts \cup DOMAIN own |->
                     IF n \in DOMAIN fonts THEN fonts[n] ELSE own[n]]
    IN /\ fonts' = known
       /\ shown' = Append(shown, [n \in DOMAIN own |-> known[n]])
       /\ phase' = "text"
       /\ UNCHANGED node

\* Mutant: the resources of the root are taken for every page below.
InheritFromRoot ==
    /\ phase = "inherit"
    /\ IF node = None THEN Cache(<< >>)
       ELSE IF file.resources[Go(file.root)] # NoResources
       THEN Cache(file.resources[Go(file.root)])
       ELSE IF file.resources[node] # NoResources THEN Cache(file.resources[node])
       ELSE IF Sound(file.parent[node])
       THEN node' = Go(file.parent[node]) /\ UNCHANGED <<phase, fonts, shown>>
       ELSE phase' = Broken(file.parent[node]) /\ UNCHANGED <<node, fonts, shown>>
    /\ UNCHANGED <<given, page, num, kid, found, reader, outline>>

\* Mutant: the search goes to the parent of the page every time.
InheritFromPage ==
    /\ phase = "inherit"
    /\ IF node = None THEN Cache(<< >>)
       ELSE IF file.resources[node] # NoResources THEN Cache(file.resources[node])
       ELSE LET up == file.parent[Last(found)]
            IN IF Sound(up) THEN node' = Go(up) /\ UNCHANGED <<phase, fonts, shown>>
               ELSE phase' = Broken(up) /\ UNCHANGED <<node, fonts, shown>>
    /\ UNCHANGED <<given, page, num, kid, found, reader, outline>>

\* findInherited("Resources"): the page, its Parent, and so on.
Inherit ==
    /\ phase = "inherit"
    /\ IF node = None THEN Cache(<< >>)
       ELSE IF file.resources[node] # NoResources THEN Cache(file.resources[node])
       ELSE IF Sound(file.parent[node])
       THEN node' = Go(file.parent[node]) /\ UNCHANGED <<phase, fonts, shown>>
       ELSE phase' = Broken(file.parent[node]) /\ UNCHANGED <<node, fonts, shown>>
    /\ UNCHANGED <<given, page, num, kid, found, reader, outline>>

\* The text of the page is added to the buffer, or its error is returned.
Text ==
    /\ phase = "text"
    /\ phase' \in {"next"} \cup (IF Last(found) = None THEN {} ELSE {"failed"})
    /\ UNCHANGED <<given, walk, outline>>

-----------------------------------------------------------------------------
(* buildOutline *)

\* Mutant: the slice is taken without the allocator.
CallUncounted(x) ==
    /\ titles' = Append(titles, x)
    /\ calls' = Append(calls, [entry |-> x, child |-> file.first[x]])
    /\ UNCHANGED <<phase, used>>

\* A call on the entry x allocates the slice of its children.
Call(x) ==
    IF used = OutlineBudget
    THEN phase' = "panicked" /\ UNCHANGED outline
    ELSE /\ used' = used + 1
         /\ titles' = Append(titles, x)
         /\ calls' = Append(calls, [entry |-> x, child |-> file.first[x]])
         /\ UNCHANGED phase

\* A value that is no object has no reader and so no allocator: a panic.
StartOutline ==
    /\ phase = "outline"
    /\ calls = << >> /\ titles = << >>
    /\ IF ~Sound(file.root) THEN phase' = Broken(file.root) /\ UNCHANGED outline
       ELSE IF Go(file.root) = None THEN phase' = "panicked" /\ UNCHANGED outline
       ELSE Call(Go(file.root))
    /\ UNCHANGED <<given, walk>>

\* A child that is no dictionary ends the loop; its parent goes on with Next.
Return ==
    LET rest == Front(calls)
        done == Last(calls).entry
    IN calls' = IF rest = << >> THEN rest
                ELSE [rest EXCEPT ![Len(rest)].child = file.next[done]]

Child ==
    /\ phase = "outline"
    /\ calls # << >>
    /\ LET child == Last(calls).child
       IN IF ~Sound(child) THEN phase' = Broken(child) /\ UNCHANGED outline
          ELSE IF Go(child) # None THEN Call(Go(child))
          ELSE /\ Return
               /\ phase' = IF Len(calls) = 1 THEN "done" ELSE phase
               /\ UNCHANGED <<titles, used>>
    /\ UNCHANGED <<given, walk>>

-----------------------------------------------------------------------------
Init ==
    /\ file \in Files
    /\ where = [x \in Ids |-> Resolve(file, x)]
    /\ phase = IF file.use = "pages" THEN "next" ELSE "outline"
    /\ page = 0
    /\ node = None
    /\ num = 0
    /\ kid = 0
    /\ found = << >>
    /\ fonts = << >>
    /\ shown = << >>
    /\ reader = << >>
    /\ calls = << >>
    /\ titles = << >>
    /\ used = 0

Next ==
    \/ NextPage
    \/ LastPage
    \/ ReuseBuffer
    \/ Enter
    \/ Look
    \/ Inherit
    \/ Text
    \/ StartOutline
    \/ Child

Spec == Init /\ [][Next]_vars

\* One goroutine, which goes on as long as it can.
FairSpec == Spec /\ WF_vars(Next)

-----------------------------------------------------------------------------
(* Files with and without faults *)

\* Every set of objects has one that leads to none of them.
Acyclic(R) ==
    \A S \in (SUBSET Ids) \ {{}} : \E x \in S : \A y \in S : <<x, y>> \notin R

\* From an object in a stream to the stream, from a stream to the one it extends.
StorageLinks(f) ==
    {<<x, f.stm[x]>> : x \in {y \in Ids : f.entry[y] = "packed"}}
        \cup {<<x, f.extends[x]>> : x \in {y \in Ids : f.extends[y] # None}}

KidLinks ==
    {e \in Ids \X Ids : /\ file.type[e[1]] = "Pages"
                        /\ \E i \in DOMAIN file.kids[e[1]] :
                              Go(file.kids[e[1]][i]) = e[2]}

ParentLinks == {e \in Ids \X Ids : Go(file.parent[e[1]]) = e[2]}

NoCycle ==
    /\ Acyclic(StorageLinks(file))
    /\ file.use = "pages" => Acyclic(KidLinks) /\ Acyclic(ParentLinks)

SoundStorage == \A x \in Ids : Go(x) = x

\* No object is a kid twice, and the root is none.
IsTree ==
    /\ \A x \in Ids : file.root \notin ToSet(file.kids[x])
    /\ \A x, y \in Ids : \A i \in DOMAIN file.kids[x], j \in DOMAIN file.kids[y] :
          file.kids[x][i] = file.kids[y][j] => x = y /\ i = j
    /\ Acyclic(KidLinks)

\* The pages below x in a tree, from left to right.
Leaves(x) ==
    LET leaves[n \in 0..Cardinality(Ids)] ==
            [y \in Ids |->
                IF file.type[y] = "Page" THEN <<y>>
                ELSE IF file.type[y] = "other" \/ n = 0 THEN << >>
                ELSE FlattenSeq([i \in DOMAIN file.kids[y] |-> leaves[n - 1][file.kids[y][i]]])]
    IN leaves[Cardinality(Ids)][x]

WellFormed ==
    /\ SoundStorage
    /\ file.type[file.root] = "Pages"
    /\ IsTree
    /\ \A x \in Ids : file.type[x] = "Pages" => file.count[x] = Len(Leaves(x))

\* x, and what is on the way up from it to the first object with resources.
Lineage(x) ==
    LET upward == {S \in SUBSET (Ids \cup {None}) :
                      /\ x \in S
                      /\ \A y \in S \ {None} :
                            file.resources[y] = NoResources /\ Sound(file.parent[y]) =>
                                Go(file.parent[y]) \in S}
    IN {y \in Ids \cup {None} : \A S \in upward : y \in S}

\* The resources of x or of the nearest ancestor that has some.
OwnFonts(x) ==
    LET owners == {y \in Lineage(x) \ {None} : file.resources[y] # NoResources}
    IN IF owners = {} THEN << >> ELSE file.resources[CHOOSE y \in owners : TRUE]

\* The entries of an outline in which each is named once: an entry, those below
\* it, those after it.
OutlineLinks ==
    {e \in Ids \X Ids : e[2] \in {file.first[e[1]], file.next[e[1]]}}

IsOutline ==
    /\ SoundStorage
    /\ \A x \in Ids : file.first[x] = file.next[x] => file.first[x] = None
    /\ \A x, y, z \in Ids :
          <<x, z>> \in OutlineLinks /\ <<y, z>> \in OutlineLinks => x = y
    /\ Acyclic(OutlineLinks)

\* x, the entries below it and those after it.
EntriesFrom(x) ==
    LET entries[n \in 0..Cardinality(Ids)] ==
            [y \in Ids \cup {None} |->
                IF y = None \/ n = 0 THEN << >>
                ELSE <<y>> \o entries[n - 1][file.first[y]] \o entries[n - 1][file.next[y]]]
    IN entries[Cardinality(Ids)][x]

Preorder == <<file.root>> \o EntriesFrom(file.first[file.root])

\* The stream that the entry of x names, those that it extends, and so on.
StreamsOf(x) ==
    LET streams[n \in 0..Cardinality(Ids)] ==
            IF n = 0 THEN {file.stm[x]}
            ELSE streams[n - 1] \cup ({file.extends[s] : s \in streams[n - 1]} \ {None})
    IN streams[Cardinality(Ids)]

-----------------------------------------------------------------------------
(* Properties *)

\* The shape of the state; the pages found are one per number, and the calls of
\* buildOutline are at most the slices that they have allocated.
TypeOK ==
    /\ phase \in Stops \cup {"next", "enter", "kids", "inherit", "text", "outline"}
    /\ node \in Ids \cup {None} /\ num \in Int /\ kid \in Nat
    /\ \A i \in DOMAIN found : found[i] \in Ids \cup {None}
    /\ fonts \in FontMaps
    /\ phase \in {"next", "done"} => Len(found) = page /\ Len(shown) = page
    /\ Len(calls) <= used /\ used <= OutlineBudget

\* An object in a stream is found when its stream or one that this extends lists
\* it and all of them are object streams stored at their offsets (read.go 1587).
FoundThroughExtends ==
    \A x \in Ids :
        /\ file.entry[x] = "packed"
        /\ \A s \in StreamsOf(x) : AtOffset(file, s) = s /\ file.entry[s] = "offset" /\ file.objstm[s]
        /\ \E s \in StreamsOf(x) : x \in file.holds[s]
        => where[x] = x

\* In a tree, whatever its Counts say, no page is given for two numbers.
NoPageTwice ==
    (\E i, j \in DOMAIN found : i < j /\ found[i] = found[j] /\ found[i] # None) =>
        ~(SoundStorage /\ IsTree)

\* On a tree with true Counts, Page(i) (page.go 28) is the i-th leaf from left to
\* right, for every number up to Count, without a panic; and whatever the Counts
\* say, negative ones too, no page is given for two numbers: the walk skips as
\* much as it would have entered.  An outline (page.go 1412) has its entries in
\* reading order, when the allocator has room for all of them.
InTreeOrder ==
    /\ (file.use = "pages" /\ found # << >>) =>
        /\ WellFormed =>
              /\ phase \notin {"panicked", "endless"}
              /\ IsPrefix(found, Leaves(file.root))
              /\ phase = "done" => found = Leaves(file.root)
        /\ NoPageTwice
    /\ (file.use = "outline" /\ phase = "done" /\ IsOutline) => titles = Preorder

\* A page is decoded with the fonts of its own resources, inherited ones included,
\* except for a name that an earlier page has for another font: the cache
\* (page.go 78) is by name alone.
OwnFontsUnlessShadowed ==
    file.use = "pages" =>
        \A i \in DOMAIN shown :
            LET own == OwnFonts(found[i])
            IN shown[i] # own =>
                  /\ DOMAIN shown[i] = DOMAIN own
                  /\ \A n \in DOMAIN own :
                        shown[i][n] # own[n] =>
                            \E j \in 1..i - 1 : /\ n \in DOMAIN OwnFonts(found[j])
                                                 /\ OwnFonts(found[j])[n] # own[n]

\* The text of the document stays what it was when GetPlainText returned it: "Return
\* a copy since we're returning the pooled buffer" (page.go 94).
ReturnedTextStable ==
    (file.use = "pages" /\ phase = "done") => reader = found

\* The walks check for no cycle (page.go 32 and 139, read.go 1587).  Without one
\* they end; an outline ends even then, when the allocator has had enough.
EndsWithoutCycle ==
    NoCycle ~> phase \in {"done", "failed", "panicked"}

-----------------------------------------------------------------------------
(* The inductive invariant. *)

\* Values of the state, and no step in a dictionary that is none.
ShapesOK ==
    /\ IsFile(file) /\ where \in [Ids -> Outcomes]
    /\ page \in Nat
    /\ phase \in {"enter", "kids"} => page > 0
    /\ phase = "kids" => node \in Ids /\ kid > 0
    /\ found \in Seq(Ids \cup {None})
    /\ shown \in Seq(FontMaps)
    /\ calls \in Seq([entry : Ids, child : Ids \cup {None}])
    /\ titles \in Seq(Ids)
    /\ used \in Nat

\* The pages found and shown, one per number, the one being read excepted.
PagesCounted ==
    /\ phase \in {"enter", "kids"} => Len(found) = page - 1
    /\ phase \in {"inherit", "text", "outline"} => Len(found) = page
    /\ phase \in {"enter", "kids", "inherit"} => Len(shown) = page - 1
    /\ phase \in {"text", "outline"} => Len(shown) = page
    /\ Len(shown) <= Len(found)

\* The search for resources stays on the lineage of the page, and a cached font is
\* that of a page read before.
FontsOK ==
    /\ phase = "inherit" => OwnFonts(node) = OwnFonts(Last(found))
    /\ \A n \in DOMAIN fonts :
          \E j \in DOMAIN shown : /\ n \in DOMAIN OwnFonts(found[j])
                                  /\ OwnFonts(found[j])[n] = fonts[n]

Inv ==
    /\ ShapesOK
    /\ TypeOK
    /\ PagesCounted
    /\ FontsOK
    /\ OwnFontsUnlessShadowed

=============================================================================
