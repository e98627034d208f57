-------------------------------- MODULE Objects --------------------------------
(***************************************************************************)
(* Where the objects of a file are and how resolve finds one (read.go      *)
(* 1575): through the entry of the cross-reference table, which is free,   *)
(* an offset in the file, or the number of an object stream; in a stream,  *)
(* through the streams that it extends.                                    *)
(*                                                                         *)
(* An object is its number.  A file has, for every number:                 *)
(*   entry    the kind of the entry; one with another generation, and an   *)
(*            offset of zero, are "free"                                   *)
(*   good     is the object at the offset this one?                        *)
(*   stm      the object stream of a packed object                         *)
(*   objstm   is the object a stream of Type ObjStm with a First?          *)
(*   holds    what the header of that stream lists                         *)
(*   extends  the stream it extends, or none                               *)
(***************************************************************************)
EXTENDS Integers, FiniteSets

CONSTANTS Ids      \* the numbers of the table, from 1

ASSUME IdsAssumption == IsFiniteSet(Ids) /\ Ids \subseteq Nat \ {0}

\* What a resolution gives that is not an object: null, a panic, or no end (the
\* recursion through streams overflows the stack, the loop over Extends turns
\* for ever).
None == 0
Panic == -1
Endless == -2

Outcomes == Ids \cup {None, Panic, Endless}

EntryKinds == {"free", "offset", "packed"}

\* More steps than there are pairs of an object and a stream: a resolution that
\* takes them all repeats one and does not end.
Patience == Cardinality(Ids) * (Cardinality(Ids) + 1) + 1

\* What the entry of x alone tells.
AtOffset(f, x) ==
    IF f.entry[x] = "free" THEN None ELSE IF f.good[x] THEN x ELSE Panic

\* Mutant: the search gives up behind the first stream.
InStreamAlone(f, x, s, next) ==
    IF x \in f.holds[s] THEN x ELSE Panic

\* The object x in the stream s, or where the search goes on (next).
InStream(f, x, s, next) ==
    IF x \in f.holds[s] THEN x
    ELSE IF f.extends[s] = None THEN Panic ELSE next

\* One step of the resolution of x, and, for s # None, of the search for x in stream
\* number s, which is resolved first; known gives what the steps after it come to.
\* Key("Type"), N and First are not references here.
Resolving(f, known, x, s) ==
    IF x = None THEN None
    ELSE IF s = None
    THEN IF f.entry[x] = "packed" THEN known[x][f.stm[x]] ELSE AtOffset(f, x)
    ELSE LET strm == known[s][None]
         IN IF strm \in {Panic, Endless} THEN strm
            ELSE IF strm = None \/ ~f.objstm[strm] THEN Panic
            ELSE InStream(f, x, strm, known[x][f.extends[strm]])

\* Every resolution, by the steps that it may take.
Resolution(f) ==
    LET r[n \in 0..Patience] ==
        [x \in Ids \cup {None} |-> [s \in Ids \cup {None} |->
            IF n = 0 THEN Endless ELSE Resolving(f, r[n - 1], x, s)]]
    IN r

Resolve(f, x) == Resolution(f)[Patience][x][None]

IsStorage(f) ==
    /\ f.entry \in [Ids -> EntryKinds]
    /\ f.good \in [Ids -> BOOLEAN]
    /\ f.stm \in [Ids -> Ids]
    /\ f.objstm \in [Ids -> BOOLEAN]
    /\ f.holds \in [Ids -> SUBSET Ids]
    /\ f.extends \in [Ids -> Ids \cup {None}]
=============================================================================
