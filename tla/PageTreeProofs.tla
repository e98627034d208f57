----------------------------- MODULE PageTreeProofs -----------------------------
(***************************************************************************)
(* For every file: an object in a stream is found through the streams that *)
(* this extends, a page is decoded with its own or inherited fonts but for *)
(* the names that the cache has for another, the pages of a tree come in   *)
(* its order, none for two numbers, and so do the entries of an outline.   *)
(*                                                                         *)
(* Resolutions, the streams they go through, the leaves of a tree and the  *)
(* entries of an outline are recursive functions: first that those exist   *)
(* and take their steps, then what they come to.  The walk over the tree   *)
(* is seen as a set, the places Walked that it may get to with the pages   *)
(* it has skipped there: the least set with the first kid and the steps    *)
(* from there.  Facts about it are shown of a set with those steps, which  *)
(* has all of Walked.                                                      *)
(***************************************************************************)
EXTENDS PageTree, FiniteSetTheorems, SequenceTheorems, WellFoundedInduction, TLAPS

(* Induction over numbers, and recursive functions. *)

\* A set of natural numbers has a least one.
LEMMA LeastOfSet ==
    ASSUME NEW T \in SUBSET Nat, T # {}
    PROVE  \E x \in T : \A y \in T : x <= y
<1>1. PICK x \in T : \A y \in T : <<y, x>> \notin OpToRel(<, Nat)
  BY WFMin, NatLessThanWellFounded, Zenon
<1>2. \A y \in T : ~(y < x)
  <2> SUFFICES ASSUME NEW y \in T, y < x PROVE FALSE
    OBVIOUS
  <2>1. <<y, x>> \in Nat \X Nat /\ <<y, x>>[1] = y /\ <<y, x>>[2] = x
    BY <1>1
  <2>2. <<y, x>> \in OpToRel(<, Nat)
    BY <2>1, Zenon DEF OpToRel
  <2> QED
    BY <1>1, <2>2, Zenon
<1> QED
  BY <1>2

\* Induction, for a set of natural numbers.
LEMMA SetInduction ==
    ASSUME NEW S, 0 \in S, \A n \in Nat : n \in S => n + 1 \in S
    PROVE  Nat \subseteq S
<1> SUFFICES ASSUME Nat \ S # {} PROVE FALSE
  OBVIOUS
<1>1. PICK x \in Nat \ S : \A y \in Nat \ S : x <= y
  BY LeastOfSet
<1>2. x # 0 /\ x - 1 \in Nat /\ (x - 1) + 1 = x
  BY <1>1
<1>3. x - 1 \in S
  BY <1>1, <1>2
<1> QED
  BY <1>1, <1>2, <1>3


\* The function f takes the steps one after the other, from base.
TakesSteps(f, N, S, base, step) ==
    /\ f \in [0..N -> S]
    /\ f[0] = base
    /\ \A n \in 1..N : f[n] = step[n][f[n - 1]]

\* A function with values in S can be built from the value before.
LEMMA RecursionExists ==
    ASSUME NEW N \in Nat, NEW S, NEW base \in S, NEW step \in [1..N -> [S -> S]]
    PROVE  \E f : TakesSteps(f, N, S, base, step)
<1> USE DEF TakesSteps
<1> DEFINE Builds(k, f) == TakesSteps(f, k, S, base, step)
           T == {k \in Nat : k <= N => \E f : Builds(k, f)}
<1>1. 0 \in T
  <2>1. Builds(0, [n \in 0..0 |-> base])
    OBVIOUS
  <2> QED
    BY <2>1
<1>2. ASSUME NEW k \in Nat, k \in T PROVE k + 1 \in T
  <2> SUFFICES ASSUME k + 1 <= N PROVE \E f : Builds(k + 1, f)
    OBVIOUS
  <2>1. PICK f : Builds(k, f)
    BY <1>2
  <2> DEFINE g == [n \in 0..k + 1 |-> IF n = k + 1 THEN step[k + 1][f[k]] ELSE f[n]]
  <2>2. k + 1 \in 1..N /\ step[k + 1] \in [S -> S] /\ f[k] \in S
    BY <2>1
  <2>3. g \in [0..k + 1 -> S]
    BY <2>1, <2>2
  <2>4. g[0] = base
    BY <2>1
  <2>5. ASSUME NEW n \in 1..k + 1 PROVE g[n] = step[n][g[n - 1]]
    <3>1. CASE n = k + 1
      BY <3>1
    <3>2. CASE n # k + 1
      <4>1. n \in 1..k /\ n - 1 \in 0..k /\ n - 1 # k + 1
        BY <3>2
      <4> QED
        BY <2>1, <4>1
    <3> QED
      BY <3>1, <3>2
  <2> HIDE DEF g
  <2> QED
    BY <2>3, <2>4, <2>5
<1> HIDE DEF T
<1>3. Nat \subseteq T
  BY <1>1, <1>2, SetInduction
<1> QED
  BY <1>3 DEF T

\* All values of a recursion are in S if no step leaves it.
LEMMA RecursionTyped ==
    ASSUME NEW N \in Nat, NEW S, NEW g, g[0] \in S,
           \A n \in 1..N : g[n - 1] \in S => g[n] \in S
    PROVE  \A n \in 0..N : g[n] \in S
<1> DEFINE T == {n \in Nat : n <= N => g[n] \in S}
<1>1. 0 \in T
  OBVIOUS
<1>2. ASSUME NEW n \in Nat, n \in T PROVE n + 1 \in T
  <2> SUFFICES ASSUME n + 1 <= N PROVE g[n + 1] \in S
    OBVIOUS
  <2>1. n + 1 \in 1..N /\ n <= N /\ (n + 1) - 1 = n
    OBVIOUS
  <2> QED
    BY <1>2, <2>1
<1> HIDE DEF T
<1>3. Nat \subseteq T
  BY <1>1, <1>2, SetInduction
<1> QED
  BY <1>3 DEF T

-----------------------------------------------------------------------------
(* What a resolution gives. *)

MaybeIds == Ids \cup {None}

Tables == [MaybeIds -> [MaybeIds -> Outcomes]]

LEMMA ResolvingTyped ==
    ASSUME NEW f, IsStorage(f), NEW known \in Tables, NEW x \in MaybeIds,
           NEW s \in MaybeIds
    PROVE  Resolving(f, known, x, s) \in Outcomes
<1>1. {None, Panic, Endless} \subseteq Outcomes /\ Ids \subseteq Outcomes
  BY DEF Outcomes
<1>2. CASE x = None
  BY <1>1, <1>2 DEF Resolving
<1>3. CASE x # None /\ s = None
  <2>1. x \in Ids
    BY <1>3 DEF MaybeIds
  <2>2. f.stm[x] \in MaybeIds
    BY <2>1 DEF IsStorage, MaybeIds
  <2>3. known[x][f.stm[x]] \in Outcomes
    BY <2>2 DEF Tables
  <2>4. AtOffset(f, x) \in Outcomes
    BY <1>1, <2>1 DEF AtOffset
  <2> QED
    BY <1>3, <2>3, <2>4 DEF Resolving
<1>4. CASE x # None /\ s # None
  <2> DEFINE strm == known[s][None]
             next == known[x][f.extends[strm]]
  <2>1. None \in MaybeIds /\ x \in Ids
    BY <1>4 DEF MaybeIds
  <2>2. strm \in Outcomes
    BY <2>1 DEF Tables
  <2>3. Resolving(f, known, x, s) =
           IF strm \in {Panic, Endless} THEN strm
           ELSE IF strm = None \/ ~f.objstm[strm] THEN Panic
           ELSE InStream(f, x, strm, next)
    BY <1>4 DEF Resolving
  <2>4. CASE strm \in {Panic, Endless} \/ strm = None \/ ~f.objstm[strm]
    BY <1>1, <2>2, <2>3, <2>4
  <2>5. CASE strm \notin {Panic, Endless, None}
    <3>1. strm \in Ids
      BY <2>2, <2>5 DEF Outcomes
    <3>2. f.extends[strm] \in MaybeIds
      BY <3>1 DEF IsStorage, MaybeIds
    <3>3. next \in Outcomes
      BY <3>2 DEF Tables
    <3> HIDE DEF next, strm
    <3>4. InStream(f, x, strm, next) \in Outcomes
      BY <1>1, <2>1, <3>3 DEF InStream
    <3> QED
      BY <1>1, <2>2, <2>3, <3>4
  <2> QED
    BY <2>4, <2>5
<1> QED
  BY <1>2, <1>3, <1>4

\* The table of resolutions is built step by step.
LEMMA ResolutionSteps ==
    ASSUME NEW f, IsStorage(f)
    PROVE  /\ Patience \in Nat
           /\ \A n \in 0..Patience : Resolution(f)[n] \in Tables
           /\ \A n \in 1..Patience : \A y, s \in MaybeIds :
                 Resolution(f)[n][y][s] = Resolving(f, Resolution(f)[n - 1], y, s)
<1> DEFINE N == Patience
           Turn(known) == [y \in MaybeIds |-> [s \in MaybeIds |->
                             Resolving(f, known, y, s)]]
           Rec(r) == r = [n \in 0..N |->
                            [y \in MaybeIds |-> [s \in MaybeIds |->
                               IF n = 0 THEN Endless ELSE Resolving(f, r[n - 1], y, s)]]]
           base == [y \in MaybeIds |-> [s \in MaybeIds |-> Endless]]
           step == [n \in 1..N |-> [known \in Tables |-> Turn(known)]]
<1>1. N \in Nat
  BY IdsAssumption, FS_CardinalityType DEF Patience
<1>2. base \in Tables
  BY DEF Tables, Outcomes
<1>3. \A known \in Tables : Turn(known) \in Tables
  BY ResolvingTyped DEF Tables
<1> HIDE DEF N
<1>4. step \in [1..N -> [Tables -> Tables]]
  BY <1>3
<1>5. PICK g : TakesSteps(g, N, Tables, base, step)
  <2> HIDE DEF base, step
  <2> QED
    BY <1>1, <1>2, <1>4, RecursionExists
<1>6. /\ g \in [0..N -> Tables] /\ g[0] = base
      /\ \A n \in 1..N : g[n] = Turn(g[n - 1])
  <2>1. /\ g \in [0..N -> Tables] /\ g[0] = base
        /\ \A n \in 1..N : g[n] = step[n][g[n - 1]]
    BY <1>5 DEF TakesSteps
  <2>2. \A n \in 1..N : g[n - 1] \in Tables
    BY <1>1, <2>1
  <2> HIDE DEF Turn
  <2> QED
    BY <2>1, <2>2
<1>7. Rec(g)
  <2>1. \A n \in 0..N : g[n] = [y \in MaybeIds |-> [s \in MaybeIds |->
                               IF n = 0 THEN Endless ELSE Resolving(f, g[n - 1], y, s)]]
    <3> TAKE n \in 0..N
    <3>1. CASE n = 0
      BY <1>6, <3>1
    <3>2. CASE n # 0
      <4>1. n \in 1..N
        BY <1>1, <3>2
      <4>2. g[n] = Turn(g[n - 1])
        BY <1>6, <4>1
      <4> QED
        BY <3>2, <4>2
    <3> QED
      BY <3>1, <3>2
  <2> QED
    BY <1>6, <2>1
<1>8. Rec(Resolution(f))
  <2>1. Resolution(f) = CHOOSE r : Rec(r)
    BY DEF Resolution, N, MaybeIds
  <2> HIDE DEF Rec
  <2> QED
    BY <1>7, <2>1
<1> DEFINE r == Resolution(f)
<1>9. /\ r[0] = base
      /\ \A n \in 1..N : r[n] = Turn(r[n - 1])
  <2>1. \A n \in 0..N : r[n] = [y \in MaybeIds |-> [s \in MaybeIds |->
                               IF n = 0 THEN Endless ELSE Resolving(f, r[n - 1], y, s)]]
    <3> DEFINE G == [n \in 0..N |->
                            [y \in MaybeIds |-> [s \in MaybeIds |->
                               IF n = 0 THEN Endless ELSE Resolving(f, r[n - 1], y, s)]]]
    <3>1. \A n \in 0..N : G[n] = [y \in MaybeIds |-> [s \in MaybeIds |->
                               IF n = 0 THEN Endless ELSE Resolving(f, r[n - 1], y, s)]]
      OBVIOUS
    <3>2. r = G
      BY <1>8
    <3> HIDE DEF G, r
    <3> QED
      BY <3>1, <3>2
  <2> HIDE DEF r
  <2>2. 0 \in 0..N /\ \A n \in 1..N : n \in 0..N /\ n # 0
    BY <1>1
  <2> QED
    BY <2>1, <2>2
<1>10. \A n \in 0..N : r[n] \in Tables
  <2> HIDE DEF r, base, Turn
  <2>1. r[0] \in Tables /\ \A n \in 1..N : r[n - 1] \in Tables => r[n] \in Tables
    BY <1>2, <1>3, <1>9
  <2> QED
    BY <1>1, <2>1, RecursionTyped
<1>11. \A n \in 1..N : \A y, s \in MaybeIds : r[n][y][s] = Resolving(f, r[n - 1], y, s)
  <2> HIDE DEF r
  <2> TAKE n \in 1..N
  <2> TAKE y, s \in MaybeIds
  <2> DEFINE known == r[n - 1]
  <2>1. r[n] = Turn(known)
    BY <1>9
  <2> HIDE DEF known
  <2>2. Turn(known)[y][s] = Resolving(f, known, y, s)
    OBVIOUS
  <2> HIDE DEF Turn
  <2> QED
    BY <2>1, <2>2 DEF known
<1> QED
  BY <1>1, <1>10, <1>11 DEF N

\* A resolution has an outcome.
LEMMA ResolveTyped ==
    ASSUME NEW f, IsStorage(f), NEW x \in Ids
    PROVE  Resolve(f, x) \in Outcomes
<1>1. x \in MaybeIds /\ None \in MaybeIds
  BY DEF MaybeIds
<1>2. Patience \in Nat /\ \A n \in 0..Patience : Resolution(f)[n] \in Tables
  BY ResolutionSteps
<1>3. Resolution(f)[Patience] \in Tables
  BY <1>2
<1> QED
  BY <1>1, <1>3 DEF Resolve, Tables

\* The streams that StreamsOf collects, by the number of links followed.
LEMMA StreamsSteps ==
    ASSUME IsStorage(file), NEW x \in Ids
    PROVE  \E streams :
              /\ \A n \in 0..Cardinality(Ids) : streams[n] \in SUBSET Ids
              /\ streams[0] = {file.stm[x]}
              /\ \A n \in 1..Cardinality(Ids) :
                    streams[n] = streams[n - 1]
                        \cup ({file.extends[s] : s \in streams[n - 1]} \ {None})
              /\ StreamsOf(x) = streams[Cardinality(Ids)]
<1> DEFINE N == Cardinality(Ids)
           S == SUBSET Ids
           Turn(known) == known \cup ({file.extends[s] : s \in known} \ {None})
           base == {file.stm[x]}
           Rec(r) == r = [n \in 0..N |-> IF n = 0 THEN base ELSE Turn(r[n - 1])]
           step == [n \in 1..N |-> [known \in S |-> Turn(known)]]
<1>1. N \in Nat
  BY IdsAssumption, FS_CardinalityType
<1>2. base \in S
  BY DEF IsStorage
<1>3. \A known \in S : Turn(known) \in S
  BY DEF IsStorage
<1> HIDE DEF N, base, Turn
<1>4. step \in [1..N -> [S -> S]]
  BY <1>3
<1>5. PICK g : TakesSteps(g, N, S, base, step)
  <2> HIDE DEF step, S
  <2> QED
    BY <1>1, <1>2, <1>4, RecursionExists
<1>6. Rec(g)
  <2>1. /\ g \in [0..N -> S] /\ g[0] = base
        /\ \A n \in 1..N : g[n] = step[n][g[n - 1]]
    BY <1>5 DEF TakesSteps
  <2>2. \A n \in 0..N : n # 0 => n \in 1..N /\ n - 1 \in 0..N
    BY <1>1
  <2> QED
    BY <2>1, <2>2
<1> DEFINE r == CHOOSE h : Rec(h)
<1>7. Rec(r)
  BY <1>6
<1>8. StreamsOf(x) = r[N]
  BY DEF StreamsOf, N, base, Turn
<1> HIDE DEF r
<1>9. \A n \in 0..N : r[n] = IF n = 0 THEN base ELSE Turn(r[n - 1])
  BY <1>7
<1>10. 0 \in 0..N /\ \A n \in 1..N : n \in 0..N /\ n # 0
  BY <1>1
<1>11. r[0] = base /\ \A n \in 1..N : r[n] = Turn(r[n - 1])
  BY <1>9, <1>10
<1>12. \A n \in 0..N : r[n] \in S
  <2>1. r[0] \in S /\ \A n \in 1..N : r[n - 1] \in S => r[n] \in S
    BY <1>2, <1>3, <1>11
  <2> HIDE DEF S
  <2> QED
    BY <1>1, <2>1, RecursionTyped
<1> QED
  BY <1>8, <1>11, <1>12 DEF N, base, Turn

\* An object in a stream is found when its stream, or one that this extends, lists
\* it, and all of them are object streams at their offsets.
LEMMA FoundInStreams ==
    ASSUME IsStorage(file), NEW x \in Ids, file.entry[x] = "packed",
           \A s \in StreamsOf(x) :
              AtOffset(file, s) = s /\ file.entry[s] = "offset" /\ file.objstm[s],
           \E s \in StreamsOf(x) : x \in file.holds[s]
    PROVE  Resolve(file, x) = x
<1> DEFINE K == Cardinality(Ids)
           r == Resolution(file)
           \* Counting from n steps on, the search finds x from stream s.
           Finds(s, n) == \A m \in Nat : n <= m /\ m <= Patience => r[m][x][s] = x
<1>1. K \in Nat /\ Patience \in Nat
  BY IdsAssumption, FS_CardinalityType DEF Patience
<1>2. /\ None = 0 /\ Panic = -1 /\ Endless = -2 /\ x # None
      /\ \A s \in Ids : s # None /\ s # Panic /\ s # Endless
  BY IdsAssumption DEF None, Panic, Endless
<1>3. \A m \in 1..Patience : \A y, s \in MaybeIds :
         r[m][y][s] = Resolving(file, r[m - 1], y, s)
  BY ResolutionSteps
<1> HIDE DEF r, K
<1>4. PICK streams :
         /\ \A n \in 0..K : streams[n] \in SUBSET Ids
         /\ streams[0] = {file.stm[x]}
         /\ \A n \in 1..K :
               streams[n] = streams[n - 1]
                   \cup ({file.extends[s] : s \in streams[n - 1]} \ {None})
         /\ StreamsOf(x) = streams[K]
  BY StreamsSteps DEF K
<1>5. \A n \in 0..K : streams[K - n] \subseteq StreamsOf(x)
  <2> DEFINE T == {n \in Nat : n <= K => streams[K - n] \subseteq StreamsOf(x)}
  <2>1. 0 \in T
    BY <1>1, <1>4
  <2>2. ASSUME NEW n \in Nat, n \in T PROVE n + 1 \in T
    <3> SUFFICES ASSUME n + 1 <= K PROVE streams[K - (n + 1)] \subseteq StreamsOf(x)
      OBVIOUS
    <3>1. K - n \in 1..K /\ (K - n) - 1 = K - (n + 1) /\ n <= K
      BY <1>1
    <3>2. streams[K - (n + 1)] \subseteq streams[K - n]
      BY <1>4, <3>1
    <3> QED
      BY <2>2, <3>1, <3>2
  <2> HIDE DEF T
  <2>3. Nat \subseteq T
    BY <2>1, <2>2, SetInduction
  <2> QED
    BY <2>3 DEF T
<1>6. ASSUME NEW s \in StreamsOf(x)
      PROVE  /\ s \in Ids /\ file.extends[s] \in MaybeIds
             /\ \A m \in 2..Patience :
                   r[m][x][s] = InStream(file, x, s, r[m - 1][x][file.extends[s]])
  <2>1. s \in Ids /\ s \in MaybeIds /\ x \in MaybeIds /\ None \in MaybeIds
    BY <1>1, <1>4, <1>6 DEF MaybeIds
  <2>2. ASSUME NEW m \in 2..Patience
        PROVE  r[m][x][s] = InStream(file, x, s, r[m - 1][x][file.extends[s]])
    <3> DEFINE known == r[m - 1]
    <3>1. m \in 1..Patience /\ m - 1 \in 1..Patience
      BY <1>1
    <3>2. known[s][None] = s
      <4>1. known[s][None] = Resolving(file, r[(m - 1) - 1], s, None)
        BY <1>3, <2>1, <3>1
      <4>2. AtOffset(file, s) = s /\ file.entry[s] # "packed"
        BY <1>6
      <4> QED
        BY <1>2, <2>1, <4>1, <4>2 DEF Resolving
    <3>3. r[m][x][s] = Resolving(file, known, x, s)
      BY <1>3, <2>1, <3>1
    <3>4. file.objstm[s]
      BY <1>6
    <3> HIDE DEF known
    <3>5. Resolving(file, known, x, s) = InStream(file, x, s, known[x][file.extends[s]])
      BY <1>2, <2>1, <3>2, <3>4 DEF Resolving
    <3> QED
      BY <3>3, <3>5 DEF known
  <2>3. file.extends[s] \in MaybeIds
    BY <2>1 DEF IsStorage, MaybeIds
  <2> QED
    BY <2>1, <2>2, <2>3
<1>7. \A n \in 0..K : \E s \in streams[K - n] : Finds(s, n + 2)
  <2> DEFINE T == {n \in Nat : n <= K => \E s \in streams[K - n] : Finds(s, n + 2)}
  <2>1. 0 \in T
    <3>1. PICK s \in StreamsOf(x) : x \in file.holds[s]
      OBVIOUS
    <3>2. ASSUME NEW m \in Nat, 0 + 2 <= m, m <= Patience PROVE r[m][x][s] = x
      <4>1. m \in 2..Patience
        BY <3>2
      <4> QED
        BY <1>6, <3>1, <4>1 DEF InStream
    <3>3. s \in streams[K - 0]
      BY <1>1, <1>4
    <3> QED
      BY <3>2, <3>3
  <2>2. ASSUME NEW n \in Nat, n \in T PROVE n + 1 \in T
    <3> SUFFICES ASSUME n + 1 <= K
                 PROVE  \E s \in streams[K - (n + 1)] : Finds(s, (n + 1) + 2)
      OBVIOUS
    <3>1. K - n \in 1..K /\ (K - n) - 1 = K - (n + 1) /\ n <= K /\ n + 1 \in 0..K
      BY <1>1
    <3>2. PICK s \in streams[K - n] : Finds(s, n + 2)
      BY <2>2, <3>1
    <3>3. CASE s \in streams[K - (n + 1)]
      <4>1. Finds(s, (n + 1) + 2)
        BY <3>2
      <4> QED
        BY <3>3, <4>1
    <3>4. CASE s \notin streams[K - (n + 1)]
      <4>1. PICK t \in streams[K - (n + 1)] : s = file.extends[t] /\ s # None
        BY <1>4, <3>1, <3>2, <3>4
      <4>2. t \in StreamsOf(x)
        BY <1>5, <3>1, <4>1
      <4>3. ASSUME NEW m \in Nat, (n + 1) + 2 <= m, m <= Patience PROVE r[m][x][t] = x
        <5>1. m \in 2..Patience /\ m - 1 \in Nat /\ n + 2 <= m - 1 /\ m - 1 <= Patience
          BY <1>1, <4>3
        <5>2. r[m - 1][x][s] = x
          BY <3>2, <5>1
        <5>3. r[m][x][t] = InStream(file, x, t, r[m - 1][x][s])
          BY <1>6, <4>1, <4>2, <5>1
        <5> QED
          BY <4>1, <5>2, <5>3 DEF InStream
      <4> QED
        BY <4>1, <4>3
    <3> QED
      BY <3>3, <3>4
  <2> HIDE DEF T
  <2>3. Nat \subseteq T
    BY <2>1, <2>2, SetInduction
  <2> HIDE DEF Finds
  <2> QED
    BY <2>3 DEF T
<1>8. Finds(file.stm[x], K + 2)
  <2>1. K \in 0..K /\ K - K = 0
    BY <1>1
  <2> HIDE DEF Finds
  <2> QED
    BY <1>4, <1>7, <2>1
<1>9. /\ Patience - 1 \in Nat /\ K + 2 <= Patience - 1 /\ Patience \in 1..Patience
      /\ Patience - 1 <= Patience
  <2>1. file.stm[x] \in Ids /\ file.stm[x] \in StreamsOf(x)
    <3>1. K \in 0..K /\ K - K = 0
      BY <1>1
    <3>2. streams[K - K] \subseteq StreamsOf(x)
      BY <1>5, <3>1
    <3> QED
      BY <1>4, <3>1, <3>2 DEF IsStorage
  <2>2. x # file.stm[x]
    BY <2>1
  <2>3. 2 <= K
    <3>1. Cardinality({x, file.stm[x]}) = 2
      <4>1. IsFiniteSet({file.stm[x]}) /\ Cardinality({file.stm[x]}) = 1
        BY FS_Singleton
      <4>2. Cardinality({file.stm[x]} \cup {x}) = Cardinality({file.stm[x]}) + 1
        BY <2>2, <4>1, FS_AddElement
      <4>3. {x, file.stm[x]} = {file.stm[x]} \cup {x}
        OBVIOUS
      <4> QED
        BY <4>1, <4>2, <4>3
    <3>2. {x, file.stm[x]} \subseteq Ids
      BY <2>1
    <3> QED
      BY <3>1, <3>2, IdsAssumption, FS_Subset DEF K
  <2>4. Patience = K * (K + 1) + 1
    BY DEF Patience, K
  <2>5. K * (K + 1) >= K + 2
    <3>1. K * (K + 1) >= 2 * (K + 1)
      BY <1>1, <2>3
    <3> QED
      BY <1>1, <3>1, <2>3
  <2> QED
    BY <1>1, <2>4, <2>5
<1>10. r[Patience - 1][x][file.stm[x]] = x
  BY <1>8, <1>9
<1>11. r[Patience][x][None] = r[Patience - 1][x][file.stm[x]]
  <2>1. x \in MaybeIds /\ None \in MaybeIds
    BY DEF MaybeIds
  <2>2. r[Patience][x][None] = Resolving(file, r[Patience - 1], x, None)
    BY <1>3, <1>9, <2>1
  <2> QED
    BY <1>2, <2>2 DEF Resolving
<1> QED
  BY <1>10, <1>11 DEF Resolve, r

-----------------------------------------------------------------------------
(* The fonts of a page. *)

\* A set that holds what is on the way up from its members.
Upward(S) ==
    \A y \in S \ {None} :
        file.resources[y] = NoResources /\ Sound(file.parent[y]) =>
            Go(file.parent[y]) \in S

\* What an object leads to.
LEMMA GoTyped ==
    ASSUME ShapesOK, NEW x \in MaybeIds
    PROVE  /\ Go(x) \in Outcomes
           /\ Sound(x) => Go(x) \in MaybeIds
<1>1. x # None => x \in Ids
  BY DEF MaybeIds
<1>2. Go(x) \in Outcomes
  BY <1>1 DEF Go, ShapesOK, Outcomes
<1> QED
  BY <1>2 DEF Sound, Outcomes, MaybeIds

LEMMA LineageIs ==
    ASSUME NEW x \in MaybeIds, NEW y
    PROVE  y \in Lineage(x) <=>
              /\ y \in MaybeIds
              /\ \A S \in SUBSET MaybeIds : x \in S /\ Upward(S) => y \in S
BY DEF Lineage, Upward, MaybeIds

\* The resources of an object come before those of its ancestors.
LEMMA LineageOfOwner ==
    ASSUME NEW x \in MaybeIds, x = None \/ file.resources[x] # NoResources
    PROVE  Lineage(x) = {x}
<1>1. Upward({x})
  BY DEF Upward
<1>2. \A y : y \in Lineage(x) => y \in {x}
  BY <1>1, LineageIs
<1>3. x \in Lineage(x)
  BY LineageIs
<1> QED
  BY <1>2, <1>3

\* Those of an object without come from its parent.
LEMMA LineageOfChild ==
    ASSUME ShapesOK, NEW x \in Ids, file.resources[x] = NoResources,
           Sound(file.parent[x])
    PROVE  Lineage(x) = {x} \cup Lineage(Go(file.parent[x]))
<1> DEFINE p == Go(file.parent[x])
<1>1. x \in MaybeIds /\ p \in MaybeIds
  <2>1. file.parent[x] \in MaybeIds
    BY DEF ShapesOK, IsFile, MaybeIds
  <2> QED
    BY <2>1, GoTyped DEF MaybeIds
<1> HIDE DEF p
<1>2. ASSUME NEW y \in Lineage(x) PROVE y \in {x} \cup Lineage(p)
  <2> DEFINE S == {x} \cup Lineage(p)
  <2>1. S \in SUBSET MaybeIds /\ x \in S
    BY <1>1, LineageIs
  <2>2. p \in S
    BY <1>1, LineageIs
  <2>3. ASSUME NEW z \in Lineage(p), z # None, file.resources[z] = NoResources,
               Sound(file.parent[z])
        PROVE  Go(file.parent[z]) \in Lineage(p)
    <3>1. z \in MaybeIds /\ z \in Ids
      BY <1>1, <2>3, LineageIs DEF MaybeIds
    <3>2. file.parent[z] \in MaybeIds
      BY <3>1 DEF ShapesOK, IsFile, MaybeIds
    <3>3. Go(file.parent[z]) \in MaybeIds
      BY <2>3, <3>2, GoTyped
    <3>4. ASSUME NEW T \in SUBSET MaybeIds, p \in T, Upward(T)
          PROVE  Go(file.parent[z]) \in T
      <4>1. z \in T
        BY <1>1, <2>3, <3>4, LineageIs
      <4> QED
        BY <2>3, <3>4, <4>1 DEF Upward
    <3> QED
      BY <1>1, <3>3, <3>4, LineageIs
  <2>4. Upward(S)
    BY <2>2, <2>3 DEF Upward, p
  <2> HIDE DEF S
  <2>5. y \in S
    BY <1>1, <1>2, <2>1, <2>4, LineageIs
  <2> QED
    BY <2>5 DEF S
<1>3. x \in Lineage(x)
  BY <1>1, LineageIs
<1>4. ASSUME NEW y \in Lineage(p) PROVE y \in Lineage(x)
  <2>1. ASSUME NEW S \in SUBSET MaybeIds, x \in S, Upward(S) PROVE y \in S
    <3>1. x # None
      BY IdsAssumption DEF None
    <3>2. p \in S
      BY <2>1, <3>1 DEF Upward, p
    <3> QED
      BY <1>1, <1>4, <2>1, <3>2, LineageIs
  <2>2. y \in MaybeIds
    BY <1>1, <1>4, LineageIs
  <2> QED
    BY <1>1, <2>1, <2>2, LineageIs
<1> QED
  BY <1>2, <1>3, <1>4 DEF p

\* The steps of findInherited do not change which fonts are the page's own.
LEMMA OwnFontsStep ==
    ASSUME ShapesOK, NEW x \in MaybeIds
    PROVE  /\ OwnFonts(x) \in FontMaps
           /\ x = None => OwnFonts(x) = << >>
           /\ x # None /\ file.resources[x] # NoResources => OwnFonts(x) = file.resources[x]
           /\ x # None /\ file.resources[x] = NoResources /\ Sound(file.parent[x]) =>
                 /\ Go(file.parent[x]) \in MaybeIds
                 /\ OwnFonts(x) = OwnFonts(Go(file.parent[x]))
<1> DEFINE Owners(y) == {z \in Lineage(y) \ {None} : file.resources[z] # NoResources}
<1>1. << >> \in FontMaps
  <2>1. << >> \in [{} -> Fonts]
    OBVIOUS
  <2>2. {} \in SUBSET Names
    OBVIOUS
  <2> QED
    BY <2>1, <2>2 DEF FontMaps
<1>2. OwnFonts(x) \in FontMaps
  <2>1. CASE Owners(x) = {}
    BY <1>1, <2>1 DEF OwnFonts
  <2>2. CASE Owners(x) # {}
    <3> DEFINE y == CHOOSE z \in Owners(x) : TRUE
    <3>1. y \in Owners(x)
      BY <2>2
    <3>2. y \in Ids
      BY <3>1, LineageIs DEF MaybeIds
    <3>3. OwnFonts(x) = file.resources[y] /\ file.resources[y] # NoResources
      BY <2>2, <3>1 DEF OwnFonts
    <3> HIDE DEF y
    <3> QED
      BY <3>2, <3>3 DEF ShapesOK, IsFile
  <2> QED
    BY <2>1, <2>2
<1>3. ASSUME x = None PROVE OwnFonts(x) = << >>
  <2>1. Lineage(x) = {x}
    BY <1>3, LineageOfOwner
  <2>2. Owners(x) = {}
    BY <1>3, <2>1
  <2> QED
    BY <2>2 DEF OwnFonts
<1>4. ASSUME x # None, file.resources[x] # NoResources
      PROVE  OwnFonts(x) = file.resources[x]
  <2>1. Lineage(x) = {x}
    BY <1>4, LineageOfOwner
  <2>2. Owners(x) = {x}
    BY <1>4, <2>1
  <2> QED
    BY <2>2 DEF OwnFonts
<1>5. ASSUME x # None, file.resources[x] = NoResources, Sound(file.parent[x])
      PROVE  /\ Go(file.parent[x]) \in MaybeIds
             /\ OwnFonts(x) = OwnFonts(Go(file.parent[x]))
  <2>1. x \in Ids
    BY <1>5 DEF MaybeIds
  <2>2. file.parent[x] \in MaybeIds
    BY <2>1 DEF ShapesOK, IsFile, MaybeIds
  <2>3. Go(file.parent[x]) \in MaybeIds
    BY <1>5, <2>2, GoTyped
  <2>4. Lineage(x) = {x} \cup Lineage(Go(file.parent[x]))
    BY <1>5, <2>1, LineageOfChild
  <2>5. Owners(x) = Owners(Go(file.parent[x]))
    BY <1>5, <2>4
  <2> DEFINE Of(own) == IF own = {} THEN << >>
                        ELSE file.resources[CHOOSE y \in own : TRUE]
  <2>6. \A y : OwnFonts(y) = Of(Owners(y))
    BY DEF OwnFonts
  <2> HIDE DEF Owners, Of
  <2> QED
    BY <2>3, <2>5, <2>6
<1> QED
  BY <1>2, <1>3, <1>4, <1>5

-----------------------------------------------------------------------------
(* The invariant. *)

\* Nothing changes the file, and so which fonts are an object's own.
LEMMA OwnFontsKept ==
    ASSUME UNCHANGED given
    PROVE  \A x : OwnFonts(x)' = OwnFonts(x)
BY DEF given, OwnFonts, Lineage, Sound, Go

\* A step that finds and shows no page keeps what is known of the fonts.
LEMMA FontsKept ==
    ASSUME FontsOK, OwnFontsUnlessShadowed, UNCHANGED given,
           UNCHANGED <<found, fonts, shown>>, phase' # "inherit"
    PROVE  FontsOK' /\ OwnFontsUnlessShadowed'
<1>1. \A x : OwnFonts(x)' = OwnFonts(x)
  BY OwnFontsKept
<1>2. FontsOK'
  BY <1>1 DEF FontsOK
<1>3. OwnFontsUnlessShadowed'
  BY <1>1 DEF OwnFontsUnlessShadowed, given
<1> QED
  BY <1>2, <1>3

LEMMA InitInv == Init => Inv
<1> SUFFICES ASSUME Init PROVE Inv
  OBVIOUS
<1>1. IsFile(file) /\ IsStorage(file)
  BY FilesAssumption DEF Init, IsFile
<1>2. where \in [Ids -> Outcomes]
  BY <1>1, ResolveTyped DEF Init
<1>3. << >> \in FontMaps /\ DOMAIN << >> = {}
  <2>1. << >> \in [{} -> Fonts] /\ {} \in SUBSET Names /\ DOMAIN << >> = {}
    OBVIOUS
  <2> QED
    BY <2>1 DEF FontMaps
<1>4. phase \in {"next", "outline"}
  BY DEF Init
<1>5. ShapesOK
  BY <1>1, <1>2, <1>4 DEF Init, ShapesOK
<1>6. TypeOK
  BY <1>3, <1>4, FilesAssumption DEF Init, TypeOK
<1>7. PagesCounted
  BY <1>4 DEF Init, PagesCounted
<1>8. FontsOK /\ OwnFontsUnlessShadowed
  BY <1>3, <1>4 DEF Init, FontsOK, OwnFontsUnlessShadowed
<1> QED
  BY <1>5, <1>6, <1>7, <1>8 DEF Inv

\* A resolution that fails ends the work.
LEMMA BrokenStops == \A x : Broken(x) \in {"panicked", "endless"}
BY DEF Broken

LEMMA NextPageInv == Inv /\ NextPage => Inv'
<1> SUFFICES ASSUME Inv, NextPage PROVE Inv'
  OBVIOUS
<1>1. /\ phase = "next" /\ Sound(file.root) /\ phase' = "enter"
      /\ page' = page + 1 /\ num' = page /\ node' = Go(file.root) /\ kid' = 0
      /\ UNCHANGED <<given, found, fonts, shown, reader, outline>>
  BY DEF NextPage
<1>2. node' \in Ids \cup {None}
  <2>1. file.root \in MaybeIds
    BY DEF Inv, ShapesOK, IsFile, MaybeIds
  <2> QED
    BY <1>1, <2>1, GoTyped DEF Inv, MaybeIds
<1>3. ShapesOK'
  BY <1>1, <1>2 DEF Inv, ShapesOK, given, outline
<1>4. TypeOK'
  BY <1>1, <1>2 DEF Inv, ShapesOK, TypeOK, given, outline
<1>5. PagesCounted'
  BY <1>1 DEF Inv, ShapesOK, TypeOK, PagesCounted
<1>6. FontsOK' /\ OwnFontsUnlessShadowed'
  BY <1>1, FontsKept DEF Inv
<1> QED
  BY <1>3, <1>4, <1>5, <1>6 DEF Inv

LEMMA LastPageInv == Inv /\ LastPage => Inv'
<1> SUFFICES ASSUME Inv, LastPage PROVE Inv'
  OBVIOUS
<1>1. /\ phase = "next" /\ phase' \in {"done", "panicked", "endless"}
      /\ UNCHANGED <<given, page, node, num, kid, found, fonts, shown, outline>>
  BY BrokenStops DEF LastPage
<1>2. ShapesOK'
  BY <1>1 DEF Inv, ShapesOK, given, outline
<1>3. TypeOK'
  BY <1>1 DEF Inv, TypeOK, given, outline, Stops
<1>4. PagesCounted'
  BY <1>1 DEF Inv, TypeOK, PagesCounted
<1>5. FontsOK' /\ OwnFontsUnlessShadowed'
  BY <1>1, FontsKept DEF Inv
<1> QED
  BY <1>2, <1>3, <1>4, <1>5 DEF Inv

LEMMA ReuseBufferInv == Inv /\ ReuseBuffer => Inv'
<1> SUFFICES ASSUME Inv, ReuseBuffer PROVE Inv'
  OBVIOUS
<1>1. /\ phase = "done"
      /\ UNCHANGED <<given, phase, page, node, num, kid, found, fonts, shown, outline>>
  BY DEF ReuseBuffer
<1>2. FontsOK' /\ OwnFontsUnlessShadowed'
  BY <1>1, FontsKept DEF Inv
<1> QED
  BY <1>1, <1>2 DEF Inv, ShapesOK, TypeOK, PagesCounted, given, outline

\* The walk gives a page, or none: the search for its fonts begins there.
LEMMA GiveInv ==
    ASSUME Inv, phase \in {"enter", "kids"}, NEW x \in MaybeIds, Give(x),
           UNCHANGED <<given, page, fonts, shown, outline>>
    PROVE  Inv'
<1>1. /\ phase' = "inherit" /\ node' = x /\ found' = Append(found, x)
      /\ UNCHANGED <<num, kid>>
  BY DEF Give
<1>2. found \in Seq(MaybeIds) /\ Len(found) \in Nat /\ DOMAIN found = 1..Len(found)
  BY DEF Inv, ShapesOK, MaybeIds
<1>3. /\ found' \in Seq(MaybeIds) /\ Len(found') = Len(found) + 1
      /\ \A i \in 1..Len(found) : found'[i] = found[i]
      /\ found'[Len(found) + 1] = x
      /\ DOMAIN found' = 1..(Len(found) + 1)
  <2>1. Append(found, x) \in Seq(MaybeIds)
    BY <1>2, AppendProperties
  <2> QED
    BY <1>1, <1>2, <2>1, AppendProperties
<1>4. Last(found') = x
  BY <1>3 DEF Last
<1>5. shown \in Seq(FontMaps) /\ Len(shown) \in Nat /\ DOMAIN shown = 1..Len(shown)
      /\ Len(shown) <= Len(found)
  BY DEF Inv, ShapesOK, PagesCounted
<1>6. ShapesOK'
  BY <1>1, <1>3 DEF Inv, ShapesOK, given, outline, MaybeIds
<1>7. TypeOK'
  <2>1. \A i \in DOMAIN found' : found'[i] \in Ids \cup {None}
    BY <1>3 DEF MaybeIds
  <2> QED
    BY <1>1, <2>1 DEF Inv, TypeOK, given, outline, MaybeIds
<1>8. PagesCounted'
  <2>1. Len(found) = page - 1 /\ Len(shown) = page - 1 /\ page \in Nat
    BY DEF Inv, ShapesOK, PagesCounted
  <2>2. Len(found') = page' /\ Len(shown') = page' - 1 /\ page' \in Nat
    BY <1>2, <1>3, <2>1
  <2> QED
    BY <1>1, <2>2 DEF PagesCounted
<1>9. \A y : OwnFonts(y)' = OwnFonts(y)
  BY OwnFontsKept
<1>10. \A j \in DOMAIN shown : found'[j] = found[j]
  BY <1>2, <1>3, <1>5
<1>11. FontsOK'
  BY <1>1, <1>4, <1>9, <1>10 DEF Inv, FontsOK
<1>12. OwnFontsUnlessShadowed'
  <2>1. \A i \in DOMAIN shown : \A j \in 1..i - 1 : j \in DOMAIN shown
    BY <1>5
  <2> QED
    BY <1>9, <1>10, <2>1 DEF Inv, OwnFontsUnlessShadowed, given
<1> QED
  BY <1>6, <1>7, <1>8, <1>11, <1>12 DEF Inv

LEMMA EnterInv == Inv /\ Enter => Inv'
<1> SUFFICES ASSUME Inv, Enter PROVE Inv'
  OBVIOUS
<1>1. phase = "enter" /\ UNCHANGED <<given, page, fonts, shown, reader, outline>>
  BY DEF Enter
<1>2. CASE Type(node) # "Pages" \/ file.count[node] < num
  <2>1. None \in MaybeIds /\ Give(None)
    BY <1>2 DEF Enter, MaybeIds
  <2> QED
    BY <1>1, <2>1, GiveInv
<1>3. CASE ~(Type(node) # "Pages" \/ file.count[node] < num)
  <2>1. phase' = "kids" /\ kid' = 1 /\ UNCHANGED <<node, num, found>>
    BY <1>3 DEF Enter
  <2>2. node \in Ids
    BY <1>3 DEF Inv, TypeOK, Type
  <2>3. ShapesOK'
    BY <1>1, <2>1, <2>2 DEF Inv, ShapesOK, given, outline
  <2>4. TypeOK'
    BY <1>1, <2>1 DEF Inv, TypeOK, given, outline
  <2>5. PagesCounted'
    BY <1>1, <2>1 DEF Inv, PagesCounted
  <2>6. FontsOK' /\ OwnFontsUnlessShadowed'
    BY <1>1, <2>1, FontsKept DEF Inv
  <2> QED
    BY <2>3, <2>4, <2>5, <2>6 DEF Inv
<1> QED
  BY <1>2, <1>3

LEMMA LookInv == Inv /\ Look => Inv'
<1> SUFFICES ASSUME Inv, Look PROVE Inv'
  OBVIOUS
<1> DEFINE kids == file.kids[node]
           x == kids[kid]
           k == Go(x)
<1>1. phase = "kids" /\ UNCHANGED <<given, page, fonts, shown, reader, outline>>
  BY DEF Look
<1>2. node \in Ids /\ kid \in Nat \ {0} /\ kids \in Seq(Ids)
  BY <1>1 DEF Inv, ShapesOK, TypeOK, IsFile
<1>3. CASE kid > Len(kids)
  <2>1. None \in MaybeIds /\ Give(None)
    BY <1>3 DEF Look, MaybeIds
  <2> QED
    BY <1>1, <2>1, GiveInv
<1>4. CASE kid <= Len(kids)
  <2>1. x \in MaybeIds
    BY <1>2, <1>4 DEF MaybeIds
  <2>2. CASE ~Sound(x)
    <3>1. phase' \in {"panicked", "endless"} /\ UNCHANGED <<node, num, kid, found>>
      BY <1>2, <1>4, <2>2, BrokenStops DEF Look
    <3>2. ShapesOK'
      BY <1>1, <3>1 DEF Inv, ShapesOK, given, outline
    <3>3. TypeOK'
      BY <1>1, <3>1 DEF Inv, TypeOK, given, outline, Stops
    <3>4. PagesCounted'
      BY <1>1, <3>1 DEF Inv, PagesCounted
    <3>5. FontsOK' /\ OwnFontsUnlessShadowed'
      BY <1>1, <3>1, FontsKept DEF Inv
    <3> QED
      BY <3>2, <3>3, <3>4, <3>5 DEF Inv
  <2>3. CASE Sound(x)
    <3>1. k \in MaybeIds /\ Kid(k)
      <4>1. Kid(k)
        BY <1>2, <1>4, <2>3 DEF Look
      <4> HIDE DEF x
      <4>2. k \in MaybeIds
        BY <2>1, <2>3, GoTyped DEF Inv
      <4> QED
        BY <4>1, <4>2
    <3> HIDE DEF k
    <3>2. Give(k) \/ Descend(k) \/ \E n \in Int : Skip(n)
      <4>1. k # None => file.count[k] \in Int
        BY <3>1 DEF Inv, ShapesOK, IsFile, MaybeIds
      <4>2. k = None => Type(k) = "other"
        BY DEF Type
      <4>3. CASE Type(k) = "Pages"
        BY <3>1, <4>1, <4>2, <4>3 DEF Kid
      <4>4. CASE Type(k) = "Page"
        BY <3>1, <4>4 DEF Kid
      <4>5. CASE Type(k) # "Pages" /\ Type(k) # "Page"
        BY <3>1, <4>5 DEF Kid
      <4> QED
        BY <4>3, <4>4, <4>5
    <3>3. CASE Give(k)
      BY <1>1, <3>1, <3>3, GiveInv
    <3>4. CASE Descend(k) \/ \E n \in Int : Skip(n)
      <4>1. /\ phase' \in {"enter", "kids"} /\ found' = found /\ num' \in Int
            /\ node' \in MaybeIds /\ kid' \in Nat \ {0}
            /\ phase' = "kids" => node' = node
        BY <1>1, <1>2, <3>1, <3>4 DEF Descend, Skip, Inv, TypeOK, MaybeIds
      <4>2. ShapesOK'
        BY <1>1, <1>2, <4>1 DEF Inv, ShapesOK, given, outline
      <4>3. TypeOK'
        BY <1>1, <4>1 DEF Inv, TypeOK, given, outline, MaybeIds
      <4>4. PagesCounted'
        BY <1>1, <4>1 DEF Inv, PagesCounted
      <4>5. FontsOK' /\ OwnFontsUnlessShadowed'
        BY <1>1, <4>1, FontsKept DEF Inv
      <4> QED
        BY <4>2, <4>3, <4>4, <4>5 DEF Inv
    <3> QED
      BY <3>2, <3>3, <3>4
  <2> QED
    BY <2>2, <2>3
<1> QED
  BY <1>2, <1>3, <1>4

LEMMA TextInv == Inv /\ Text => Inv'
<1> SUFFICES ASSUME Inv, Text PROVE Inv'
  OBVIOUS
<1>1. /\ phase = "text" /\ phase' \in {"next", "failed"}
      /\ UNCHANGED <<given, walk, outline>>
  BY DEF Text
<1>2. ShapesOK'
  BY <1>1 DEF Inv, ShapesOK, given, walk, outline
<1>3. TypeOK'
  BY <1>1 DEF Inv, TypeOK, PagesCounted, given, walk, outline, Stops
<1>4. PagesCounted'
  BY <1>1 DEF Inv, PagesCounted, walk
<1>5. FontsOK' /\ OwnFontsUnlessShadowed'
  BY <1>1, FontsKept DEF Inv, walk
<1> QED
  BY <1>2, <1>3, <1>4, <1>5 DEF Inv

\* The cache takes the fonts of the page whose names are new to it.
LEMMA CacheInv ==
    ASSUME Inv, phase = "inherit", NEW own, own = OwnFonts(node), Cache(own),
           UNCHANGED <<given, page, num, kid, found, reader, outline>>
    PROVE  Inv'
<1> DEFINE known == [n \in DOMAIN fonts \cup DOMAIN own |->
                        IF n \in DOMAIN fonts THEN fonts[n] ELSE own[n]]
           seen == [n \in DOMAIN own |-> known[n]]
           k == Len(shown) + 1
<1>1. /\ fonts' = known /\ shown' = Append(shown, seen) /\ phase' = "text"
      /\ node' = node
  BY DEF Cache
<1>2. own \in FontMaps /\ fonts \in FontMaps
  <2>1. node \in MaybeIds
    BY DEF Inv, TypeOK, MaybeIds
  <2> QED
    BY <2>1, OwnFontsStep DEF Inv, TypeOK
<1>3. own = OwnFonts(found[k]) /\ k = Len(found) /\ k = page /\ k \in DOMAIN found
  <2>1. Len(found) = page /\ Len(shown) = page - 1 /\ page \in Nat
    BY DEF Inv, ShapesOK, PagesCounted
  <2>2. found \in Seq(MaybeIds) /\ Len(shown) \in Nat
    BY DEF Inv, ShapesOK, MaybeIds
  <2>3. OwnFonts(node) = OwnFonts(Last(found))
    BY DEF Inv, FontsOK
  <2>4. Last(found) = found[Len(found)]
    BY DEF Last
  <2>5. k = page /\ k \in 1..Len(found)
    BY <2>1, <2>2
  <2> QED
    BY <2>1, <2>2, <2>3, <2>4, <2>5
<1>4. known \in FontMaps /\ seen \in FontMaps
  <2>1. /\ DOMAIN fonts \in SUBSET Names /\ \A n \in DOMAIN fonts : fonts[n] \in Fonts
        /\ DOMAIN own \in SUBSET Names /\ \A n \in DOMAIN own : own[n] \in Fonts
    BY <1>2 DEF FontMaps
  <2>2. /\ known \in [DOMAIN fonts \cup DOMAIN own -> Fonts]
        /\ seen \in [DOMAIN own -> Fonts]
        /\ DOMAIN fonts \cup DOMAIN own \in SUBSET Names
    BY <2>1
  <2> HIDE DEF known, seen
  <2> QED
    BY <2>1, <2>2 DEF FontMaps
<1>5. /\ shown \in Seq(FontMaps) /\ Len(shown) \in Nat /\ DOMAIN shown = 1..Len(shown)
      /\ shown' \in Seq(FontMaps) /\ Len(shown') = k
      /\ \A i \in 1..Len(shown) : shown'[i] = shown[i]
      /\ shown'[k] = seen
      /\ DOMAIN shown' = 1..k
  <2>1. shown \in Seq(FontMaps)
    BY DEF Inv, ShapesOK
  <2> HIDE DEF seen
  <2> QED
    BY <1>1, <1>4, <2>1, AppendProperties
<1>6. /\ DOMAIN seen = DOMAIN own
      /\ DOMAIN known = DOMAIN fonts \cup DOMAIN own
      /\ \A n \in DOMAIN own : seen[n] = known[n]
      /\ \A n \in DOMAIN fonts : known[n] = fonts[n]
      /\ \A n \in DOMAIN known : n \notin DOMAIN fonts => known[n] = own[n]
  OBVIOUS
<1> HIDE DEF known, seen, k
<1>7. \A y : OwnFonts(y)' = OwnFonts(y)
  BY OwnFontsKept
<1>8. ShapesOK'
  BY <1>1, <1>5 DEF Inv, ShapesOK, given, outline
<1>9. TypeOK'
  BY <1>1, <1>4 DEF Inv, TypeOK, given, outline
<1>10. PagesCounted'
  BY <1>1, <1>3, <1>5 DEF Inv, PagesCounted
<1>11. \A n \in DOMAIN fonts :
          \E j \in 1..Len(shown) : /\ n \in DOMAIN OwnFonts(found[j])
                                   /\ OwnFonts(found[j])[n] = fonts[n]
  BY <1>5 DEF Inv, FontsOK
<1>12. k \in Nat /\ k = Len(shown) + 1 /\ \A j \in 1..Len(shown) : j \in 1..k /\ j \in 1..k - 1
  BY <1>5 DEF k
<1>13. \A n \in DOMAIN known :
          \E j \in 1..k : /\ n \in DOMAIN OwnFonts(found[j])
                          /\ OwnFonts(found[j])[n] = known[n]
  <2> SUFFICES ASSUME NEW n \in DOMAIN known
               PROVE  \E j \in 1..k : /\ n \in DOMAIN OwnFonts(found[j])
                                      /\ OwnFonts(found[j])[n] = known[n]
    OBVIOUS
  <2>1. CASE n \in DOMAIN fonts
    BY <1>6, <1>11, <1>12, <2>1
  <2>2. CASE n \notin DOMAIN fonts
    <3>1. n \in DOMAIN own /\ known[n] = own[n]
      BY <1>6, <2>2
    <3>2. k \in 1..k
      BY <1>12
    <3> QED
      BY <1>3, <3>1, <3>2
  <2> QED
    BY <2>1, <2>2
<1>14. FontsOK'
  BY <1>1, <1>5, <1>7, <1>13 DEF FontsOK
<1> DEFINE Right(i, s) ==
              LET mine == OwnFonts(found[i])
              IN s # mine =>
                    /\ DOMAIN s = DOMAIN mine
                    /\ \A n \in DOMAIN mine :
                          s[n] # mine[n] =>
                              \E j \in 1..i - 1 : /\ n \in DOMAIN OwnFonts(found[j])
                                                   /\ OwnFonts(found[j])[n] # mine[n]
<1>15. Right(k, seen)
  <2>1. ASSUME NEW n \in DOMAIN own, seen[n] # own[n]
        PROVE  \E j \in 1..k - 1 : /\ n \in DOMAIN OwnFonts(found[j])
                                    /\ OwnFonts(found[j])[n] # own[n]
    <3>1. n \in DOMAIN fonts /\ fonts[n] # own[n]
      BY <1>6, <2>1
    <3> QED
      BY <1>11, <1>12, <3>1
  <2> QED
    BY <1>3, <1>6, <2>1
<1>16. file.use = "pages" => \A i \in DOMAIN shown : Right(i, shown[i])
  BY DEF Inv, OwnFontsUnlessShadowed
<1> HIDE DEF Right
<1>17. file.use = "pages" => \A i \in DOMAIN shown' : Right(i, shown'[i])
  <2>1. \A i \in 1..k : i \in 1..Len(shown) \/ i = k
    BY <1>5, <1>12
  <2> QED
    BY <1>5, <1>15, <1>16, <2>1
<1>18. OwnFontsUnlessShadowed'
  BY <1>7, <1>17 DEF OwnFontsUnlessShadowed, Right, given
<1> QED
  BY <1>8, <1>9, <1>10, <1>14, <1>18 DEF Inv

LEMMA InheritInv == Inv /\ Inherit => Inv'
<1> SUFFICES ASSUME Inv, Inherit PROVE Inv'
  OBVIOUS
<1>1. /\ phase = "inherit" /\ node \in MaybeIds /\ ShapesOK
      /\ UNCHANGED <<given, page, num, kid, found, reader, outline>>
  BY DEF Inherit, Inv, TypeOK, MaybeIds
<1>2. CASE node = None
  BY <1>1, <1>2, CacheInv, OwnFontsStep DEF Inherit
<1>3. CASE node # None /\ file.resources[node] # NoResources
  <2>1. Cache(file.resources[node]) /\ file.resources[node] = OwnFonts(node)
    BY <1>1, <1>3, OwnFontsStep DEF Inherit
  <2> QED
    BY <1>1, <2>1, CacheInv
<1>4. CASE /\ node # None /\ file.resources[node] = NoResources
           /\ Sound(file.parent[node])
  <2>1. node' = Go(file.parent[node]) /\ UNCHANGED <<phase, fonts, shown>>
    BY <1>4 DEF Inherit
  <2>2. node' \in MaybeIds /\ OwnFonts(node) = OwnFonts(node')
    BY <1>1, <1>4, <2>1, OwnFontsStep
  <2>3. ShapesOK'
    BY <1>1, <2>1 DEF ShapesOK, given, outline
  <2>4. TypeOK'
    BY <1>1, <2>1, <2>2 DEF Inv, TypeOK, given, outline, MaybeIds
  <2>5. PagesCounted'
    BY <1>1, <2>1 DEF Inv, PagesCounted
  <2>6. \A y : OwnFonts(y)' = OwnFonts(y)
    BY <1>1, OwnFontsKept
  <2>7. FontsOK'
    BY <1>1, <2>1, <2>2, <2>6 DEF Inv, FontsOK
  <2>8. OwnFontsUnlessShadowed'
    BY <1>1, <2>1, <2>6 DEF Inv, OwnFontsUnlessShadowed, given
  <2> QED
    BY <2>3, <2>4, <2>5, <2>7, <2>8 DEF Inv
<1>5. CASE /\ node # None /\ file.resources[node] = NoResources
           /\ ~Sound(file.parent[node])
  <2>1. phase' \in {"panicked", "endless"} /\ UNCHANGED <<node, fonts, shown>>
    BY <1>5, BrokenStops DEF Inherit
  <2>2. ShapesOK'
    BY <1>1, <2>1 DEF ShapesOK, given, outline
  <2>3. TypeOK'
    BY <1>1, <2>1 DEF Inv, TypeOK, given, outline, Stops
  <2>4. PagesCounted'
    BY <1>1, <2>1 DEF Inv, PagesCounted
  <2>5. FontsOK' /\ OwnFontsUnlessShadowed'
    BY <1>1, <2>1, FontsKept DEF Inv
  <2> QED
    BY <2>2, <2>3, <2>4, <2>5 DEF Inv
<1> QED
  BY <1>2, <1>3, <1>4, <1>5


\* A call of buildOutline takes one of the slices that are left.
LEMMA CallInv ==
    ASSUME Inv, phase = "outline", NEW x \in Ids, Call(x), UNCHANGED <<given, walk>>
    PROVE  Inv'
<1>1. /\ phase' \in {"panicked", "outline"}
      /\ calls \in Seq([entry : Ids, child : Ids \cup {None}]) /\ titles \in Seq(Ids)
      /\ used \in Nat /\ Len(calls) <= used /\ used <= OutlineBudget
  BY DEF Call, Inv, ShapesOK, TypeOK
<1>2. /\ calls' \in Seq([entry : Ids, child : Ids \cup {None}]) /\ titles' \in Seq(Ids)
      /\ used' \in Nat /\ Len(calls') <= used' /\ used' <= OutlineBudget
  <2>1. CASE used = OutlineBudget
    BY <1>1, <2>1 DEF Call, outline
  <2>2. CASE used # OutlineBudget
    <3> DEFINE c == [entry |-> x, child |-> file.first[x]]
    <3>1. used' = used + 1 /\ titles' = Append(titles, x) /\ calls' = Append(calls, c)
      BY <2>2 DEF Call
    <3>2. c \in [entry : Ids, child : Ids \cup {None}]
      BY DEF Inv, ShapesOK, IsFile
    <3> HIDE DEF c
    <3> QED
      BY <1>1, <2>2, <3>1, <3>2, FilesAssumption
  <2> QED
    BY <2>1, <2>2
<1>3. ShapesOK'
  BY <1>1, <1>2 DEF Inv, ShapesOK, given, walk
<1>4. TypeOK'
  BY <1>1, <1>2 DEF Inv, TypeOK, given, walk, Stops
<1>5. PagesCounted'
  BY <1>1 DEF Inv, PagesCounted, walk
<1>6. FontsOK' /\ OwnFontsUnlessShadowed'
  BY <1>1, FontsKept DEF Inv, walk
<1> QED
  BY <1>3, <1>4, <1>5, <1>6 DEF Inv

\* A stop leaves the walk, the outline and the invariant as they are.
LEMMA StopInv ==
    ASSUME Inv, phase = "outline", phase' \in Stops \ {"done"},
           UNCHANGED <<given, walk, outline>>
    PROVE  Inv'
<1>1. ShapesOK'
  BY DEF Inv, ShapesOK, given, walk, outline, Stops
<1>2. TypeOK'
  BY DEF Inv, TypeOK, given, walk, outline, Stops
<1>3. PagesCounted'
  BY DEF Inv, PagesCounted, walk, Stops
<1>4. FontsOK' /\ OwnFontsUnlessShadowed'
  BY FontsKept DEF Inv, walk, Stops
<1> QED
  BY <1>1, <1>2, <1>3, <1>4 DEF Inv

LEMMA StartOutlineInv == Inv /\ StartOutline => Inv'
<1> SUFFICES ASSUME Inv, StartOutline PROVE Inv'
  OBVIOUS
<1>1. phase = "outline" /\ UNCHANGED <<given, walk>>
  BY DEF StartOutline
<1>2. CASE ~Sound(file.root) \/ Go(file.root) = None
  <2>1. phase' \in Stops \ {"done"} /\ UNCHANGED outline
    BY <1>2, BrokenStops DEF StartOutline, Stops
  <2> QED
    BY <1>1, <2>1, StopInv
<1>3. CASE Sound(file.root) /\ Go(file.root) # None
  <2>1. file.root \in MaybeIds
    BY DEF Inv, ShapesOK, IsFile, MaybeIds
  <2>2. Go(file.root) \in Ids
    BY <1>3, <2>1, GoTyped DEF Inv, MaybeIds
  <2>3. Call(Go(file.root))
    BY <1>3 DEF StartOutline
  <2> QED
    BY <1>1, <2>2, <2>3, CallInv
<1> QED
  BY <1>2, <1>3

\* A sequence without its last element.
LEMMA FrontOf ==
    ASSUME NEW S, NEW s \in Seq(S), s # << >>
    PROVE  /\ Last(s) \in S
           /\ Front(s) \in Seq(S) /\ Len(Front(s)) = Len(s) - 1
<1>1. Len(s) \in Nat \ {0} /\ Last(s) = s[Len(s)]
  BY DEF Last
<1>2. /\ 1 \in Int /\ Len(s) - 1 \in Int
      /\ \A i \in 1..Len(s) - 1 : s[i] \in S
  BY <1>1
<1>3. /\ SubSeq(s, 1, Len(s) - 1) \in Seq(S)
      /\ Len(SubSeq(s, 1, Len(s) - 1)) = IF 1 <= Len(s) - 1 THEN (Len(s) - 1) - 1 + 1 ELSE 0
  BY <1>2, SubSeqProperties
<1>4. Front(s) = SubSeq(s, 1, Len(s) - 1)
  BY DEF Front
<1>5. Last(s) \in S
  BY <1>1
<1>6. (IF 1 <= Len(s) - 1 THEN (Len(s) - 1) - 1 + 1 ELSE 0) = Len(s) - 1
  <2>1. \A k \in Nat \ {0} : (IF 1 <= k - 1 THEN (k - 1) - 1 + 1 ELSE 0) = k - 1
    OBVIOUS
  <2> QED
    BY <1>1, <2>1, Zenon
<1> QED
  BY <1>3, <1>4, <1>5, <1>6

\* And its last element.
LEMMA LastIndex ==
    ASSUME NEW S, NEW s \in Seq(S), s # << >>
    PROVE  Len(s) \in 1..Len(s) /\ s[Len(s)] \in S
OBVIOUS

LEMMA ChildInv == Inv /\ Child => Inv'
<1> SUFFICES ASSUME Inv, Child PROVE Inv'
  OBVIOUS
<1> DEFINE C == [entry : Ids, child : Ids \cup {None}]
           last == Last(calls)
           rest == Front(calls)
<1>1. phase = "outline" /\ UNCHANGED <<given, walk>> /\ calls # << >> /\ calls \in Seq(C)
  BY DEF Child, Inv, ShapesOK
<1>2. last \in C /\ rest \in Seq(C) /\ Len(rest) = Len(calls) - 1
  <2> HIDE DEF C
  <2> QED
    BY <1>1, FrontOf
<1>3. last.child \in MaybeIds /\ last.entry \in Ids
  BY <1>2 DEF MaybeIds
<1>4. CASE ~Sound(last.child)
  <2>1. phase' \in Stops \ {"done"} /\ UNCHANGED outline
    BY <1>4, BrokenStops DEF Child, Stops
  <2> QED
    BY <1>1, <2>1, StopInv
<1>5. CASE Sound(last.child) /\ Go(last.child) # None
  <2>1. Call(Go(last.child))
    BY <1>5 DEF Child
  <2> HIDE DEF last
  <2>2. Go(last.child) \in Ids
    BY <1>3, <1>5, GoTyped DEF Inv, MaybeIds
  <2> QED
    BY <1>1, <2>1, <2>2, CallInv
<1>6. CASE Sound(last.child) /\ Go(last.child) = None
  <2>1. Return /\ phase' \in {"done", "outline"} /\ UNCHANGED <<titles, used>>
    BY <1>1, <1>6 DEF Child
  <2>2. calls' \in Seq(C) /\ Len(calls') = Len(rest)
    <3>1. CASE rest = << >>
      BY <1>2, <2>1, <3>1 DEF Return
    <3>2. CASE rest # << >>
      <4> DEFINE n == Len(rest)
                 c == [rest[n] EXCEPT !.child = file.next[last.entry]]
      <4>1. calls' = [rest EXCEPT ![n].child = file.next[last.entry]]
        BY <2>1, <3>2 DEF Return
      <4>2. n \in 1..Len(rest) /\ rest[n] \in C
        <5> HIDE DEF C, rest
        <5> QED
          BY <1>2, <3>2, LastIndex
      <4>3. file.next[last.entry] \in Ids \cup {None}
        BY <1>3 DEF Inv, ShapesOK, IsFile
      <4>4. c \in C
        BY <4>2, <4>3
      <4>5. calls' = [rest EXCEPT ![n] = c]
        BY <4>1
      <4> HIDE DEF c, C, rest
      <4>6. n \in 1..Len(rest) /\ rest \in Seq(C)
        BY <1>2, <4>2
      <4> HIDE DEF n
      <4>7. calls' \in Seq(C) /\ Len(calls') = Len(rest)
        BY <4>4, <4>5, <4>6, ExceptSeq
      <4> QED
        BY <4>7
    <3> QED
      BY <3>1, <3>2
  <2>3. Len(calls') <= used' /\ used' <= OutlineBudget
    BY <1>1, <1>2, <2>1, <2>2 DEF Inv, TypeOK, ShapesOK
  <2>4. ShapesOK'
    BY <1>1, <2>1, <2>2 DEF Inv, ShapesOK, given, walk
  <2>5. PagesCounted'
    BY <1>1, <2>1 DEF Inv, PagesCounted, walk
  <2>6. TypeOK'
    BY <1>1, <2>1, <2>3, <2>5 DEF Inv, TypeOK, PagesCounted, given, walk, Stops
  <2>7. FontsOK' /\ OwnFontsUnlessShadowed'
    BY <1>1, <2>1, FontsKept DEF Inv, walk
  <2> QED
    BY <2>4, <2>5, <2>6, <2>7 DEF Inv
<1> QED
  BY <1>4, <1>5, <1>6

-----------------------------------------------------------------------------
(* The invariant. *)

\* Every step keeps the invariant.
LEMMA StepInv == Inv /\ [Next]_vars => Inv'
<1> SUFFICES ASSUME Inv, [Next]_vars PROVE Inv'
  OBVIOUS
<1>1. CASE UNCHANGED vars
  <2>1. UNCHANGED <<given, phase, found, fonts, shown, node>>
    BY <1>1 DEF vars, given
  <2>2. \A x : OwnFonts(x)' = OwnFonts(x)
    BY <2>1, OwnFontsKept
  <2>3. FontsOK' /\ OwnFontsUnlessShadowed'
    BY <2>1, <2>2 DEF Inv, FontsOK, OwnFontsUnlessShadowed, given
  <2> QED
    BY <1>1, <2>3 DEF Inv, ShapesOK, TypeOK, PagesCounted, vars
<1>2. CASE Next
  BY <1>2, NextPageInv, LastPageInv, ReuseBufferInv, EnterInv, LookInv, InheritInv,
     TextInv, StartOutlineInv, ChildInv DEF Next
<1> QED
  BY <1>1, <1>2

\* Inv holds in every reachable state.
THEOREM Invariant == Spec => []Inv
BY InitInv, StepInv, PTL DEF Spec

\* The shape of the state: a page for every number that was read, no font under a
\* name that is none, and never more calls of buildOutline than slices allocated.
THEOREM TypeCorrect == Spec => []TypeOK
<1>1. Inv => TypeOK
  BY DEF Inv
<1> QED
  BY <1>1, Invariant, PTL

\* A page is decoded with its own fonts, inherited ones included, but for the names
\* that the cache has from an earlier page (page.go 78 and 1131).
THEOREM OwnFontsUnlessShadowedCorrect == Spec => []OwnFontsUnlessShadowed
<1>1. Inv => OwnFontsUnlessShadowed
  BY DEF Inv
<1> QED
  BY <1>1, Invariant, PTL

-----------------------------------------------------------------------------
(* What a reference gives. *)

\* The outcomes that where holds are those of the file.
WhereOK == where = [x \in Ids |-> Resolve(file, x)]

LEMMA GivenKept == [Next]_vars => UNCHANGED given
<1>1. Next => UNCHANGED given
  BY DEF Next, NextPage, LastPage, ReuseBuffer, Enter, Look, Inherit, Text,
     StartOutline, Child
<1> QED
  BY <1>1 DEF vars, given

\* An object in a stream is found when its stream, or one that this extends, lists
\* it and all of them are object streams at their offsets (read.go 1587): the search
\* goes through all of them, and ends before the steps that a resolution has run out.
THEOREM FoundThroughExtendsCorrect == Spec => []FoundThroughExtends
<1>1. Init => WhereOK
  BY DEF Init, WhereOK
<1>2. WhereOK /\ [Next]_vars => WhereOK'
  BY GivenKept DEF WhereOK, given
<1>3. Inv /\ WhereOK => FoundThroughExtends
  <2> SUFFICES ASSUME Inv, WhereOK, NEW x \in Ids,
                      file.entry[x] = "packed",
                      \A s \in StreamsOf(x) : /\ AtOffset(file, s) = s
                                              /\ file.entry[s] = "offset"
                                              /\ file.objstm[s],
                      \E s \in StreamsOf(x) : x \in file.holds[s]
               PROVE  where[x] = x
    BY DEF FoundThroughExtends
  <2>1. IsStorage(file)
    BY DEF Inv, ShapesOK, IsFile
  <2>2. Resolve(file, x) = x
    BY <2>1, FoundInStreams
  <2> QED
    BY <2>2 DEF WhereOK
<1> QED
  BY <1>1, <1>2, <1>3, Invariant, PTL DEF Spec

-----------------------------------------------------------------------------
(* No page for two numbers. *)

Places == Ids \X Nat \X Int

\* What the loop over the kids subtracts from the pages to skip, for the kid z.
Width(z) ==
    IF file.type[z] = "Pages" THEN file.count[z]
    ELSE IF file.type[z] = "Page" THEN 1 ELSE 0

\* S has the kid that every walk begins with and, with a kid, the next one and
\* the first of those below it; each with the pages that were skipped before.
Followed(S) ==
    /\ <<file.root, 1, 0>> \in S
    /\ \A y \in Ids, k \in Nat, d \in Int :
          <<y, k, d>> \in S /\ k \in DOMAIN file.kids[y] =>
             /\ <<y, k + 1, d + Width(file.kids[y][k])>> \in S
             /\ file.type[file.kids[y][k]] = "Pages" => <<file.kids[y][k], 1, d>> \in S

\* A node, a kid of it, and the pages skipped before this: where walks may get.
Walked == {p \in Places : \A S \in SUBSET Places : Followed(S) => p \in S}

LEMMA FollowedWalked ==
    ASSUME IsFile(file)
    PROVE  Followed(Walked) /\ Walked \subseteq Places
<1>1. <<file.root, 1, 0>> \in Walked
  BY DEF Walked, Followed, Places, IsFile
<1>2. ASSUME NEW y \in Ids, NEW k \in Nat, NEW d \in Int, <<y, k, d>> \in Walked,
             k \in DOMAIN file.kids[y]
      PROVE  /\ <<y, k + 1, d + Width(file.kids[y][k])>> \in Walked
             /\ file.type[file.kids[y][k]] = "Pages" => <<file.kids[y][k], 1, d>> \in Walked
  <2> DEFINE z == file.kids[y][k]
  <2>1. z \in Ids /\ Width(z) \in Int
    BY <1>2 DEF IsFile, Width
  <2> HIDE DEF z
  <2>2. <<y, k + 1, d + Width(z)>> \in Places /\ <<z, 1, d>> \in Places
    BY <2>1 DEF Places
  <2>3. \A S \in SUBSET Places : Followed(S) =>
           /\ <<y, k + 1, d + Width(z)>> \in S
           /\ file.type[z] = "Pages" => <<z, 1, d>> \in S
    BY <1>2 DEF Walked, Followed, z
  <2> QED
    BY <2>2, <2>3 DEF Walked, z
<1> QED
  BY <1>1, <1>2 DEF Followed, Walked

\* A set with the first kid and the next ones has all that walks get to.
LEMMA WalkedIn ==
    ASSUME NEW S \in SUBSET Places, Followed(S)
    PROVE  Walked \subseteq S
BY DEF Walked

\* Where a walk may come from: it begins there, comes from the node above, or from
\* the kid before.
Begins(z, k, d) == z = file.root /\ k = 1 /\ d = 0

FromAbove(z, k, d) ==
    /\ k = 1
    /\ \E y \in Ids, j \in Nat : /\ j \in DOMAIN file.kids[y] /\ z = file.kids[y][j]
                                /\ <<y, j, d>> \in Walked

FromBefore(z, k, d) ==
    \E j \in Nat, e \in Int :
        /\ j \in DOMAIN file.kids[z] /\ <<z, j, e>> \in Walked
        /\ k = j + 1 /\ d = e + Width(file.kids[z][j])

LEMMA WalkedFrom ==
    ASSUME IsFile(file), NEW z \in Ids, NEW k \in Nat, NEW d \in Int,
           <<z, k, d>> \in Walked
    PROVE  Begins(z, k, d) \/ FromAbove(z, k, d) \/ FromBefore(z, k, d)
<1> DEFINE From(y, j, e) == Begins(y, j, e) \/ FromAbove(y, j, e) \/ FromBefore(y, j, e)
           S == {p \in Walked : From(p[1], p[2], p[3])}
<1>1. S \in SUBSET Places
  BY DEF Walked
<1>2. Followed(Walked) /\ Walked \subseteq Places
  BY FollowedWalked
<1>3. <<file.root, 1, 0>> \in S
  <2>1. From(file.root, 1, 0)
    BY DEF Begins
  <2> HIDE DEF From
  <2> QED
    BY <1>2, <2>1 DEF Followed
<1>4. ASSUME NEW y \in Ids, NEW j \in Nat, NEW e \in Int, <<y, j, e>> \in S,
             j \in DOMAIN file.kids[y]
      PROVE  /\ <<y, j + 1, e + Width(file.kids[y][j])>> \in S
             /\ file.type[file.kids[y][j]] = "Pages" => <<file.kids[y][j], 1, e>> \in S
  <2>1. <<y, j, e>> \in Walked
    BY <1>4
  <2>2. /\ <<y, j + 1, e + Width(file.kids[y][j])>> \in Walked
        /\ file.type[file.kids[y][j]] = "Pages" => <<file.kids[y][j], 1, e>> \in Walked
    BY <1>2, <1>4, <2>1 DEF Followed
  <2>3. From(y, j + 1, e + Width(file.kids[y][j])) /\ From(file.kids[y][j], 1, e)
    BY <1>4, <2>1 DEF FromAbove, FromBefore
  <2> HIDE DEF From
  <2> QED
    BY <2>2, <2>3
<1> HIDE DEF S
<1>5. Followed(S)
  BY <1>3, <1>4 DEF Followed
<1>6. <<z, k, d>> \in S
  BY <1>1, <1>5, WalkedIn
<1>7. From(z, k, d)
  <2> HIDE DEF From
  <2> QED
    BY <1>6 DEF S
<1> QED
  BY <1>7

\* In a tree there is one way to each kid, and so one number of pages before it.
LEMMA OneWay ==
    ASSUME IsFile(file), SoundStorage, IsTree,
           NEW y \in Ids, NEW k \in Nat, NEW d \in Int, NEW e \in Int,
           <<y, k, d>> \in Walked, <<y, k, e>> \in Walked
    PROVE  d = e
<1> DEFINE One(x, i, c) == \A b \in Int : <<x, i, b>> \in Walked => b = c
           S == {p \in Walked : One(p[1], p[2], p[3])}
<1>1. S \in SUBSET Places
  BY DEF Walked
<1>2. Followed(Walked) /\ Walked \subseteq Places
  BY FollowedWalked
<1>3. \A x \in Ids, i \in Nat : i \in DOMAIN file.kids[x] =>
         i # 0 /\ file.kids[x][i] # file.root /\ file.kids[x][i] \in Ids
  <2> TAKE x \in Ids, i \in Nat
  <2> HAVE i \in DOMAIN file.kids[x]
  <2>1. file.kids[x] \in Seq(Ids)
    BY DEF IsFile
  <2>2. i \in 1..Len(file.kids[x]) /\ file.kids[x][i] \in Ids
    BY <2>1
  <2>3. file.kids[x][i] # file.root
    BY DEF IsTree, ToSet
  <2> QED
    BY <2>2, <2>3
<1>4. \A x, w \in Ids : \A i, j \in Nat :
         /\ i \in DOMAIN file.kids[x] /\ j \in DOMAIN file.kids[w]
         /\ file.kids[x][i] = file.kids[w][j]
         => x = w /\ i = j
  BY DEF IsTree
<1>5. One(file.root, 1, 0)
  <2> SUFFICES ASSUME NEW b \in Int, <<file.root, 1, b>> \in Walked PROVE b = 0
    OBVIOUS
  <2>1. file.root \in Ids /\ 1 \in Nat
    BY DEF IsFile
  <2>2. \/ Begins(file.root, 1, b) \/ FromAbove(file.root, 1, b)
        \/ FromBefore(file.root, 1, b)
    BY <2>1, WalkedFrom
  <2>3. ~FromAbove(file.root, 1, b) /\ ~FromBefore(file.root, 1, b)
    <3>1. ~FromAbove(file.root, 1, b)
      BY <1>3 DEF FromAbove
    <3>2. ~FromBefore(file.root, 1, b)
      <4>1. \A j \in Nat : j \in DOMAIN file.kids[file.root] => 1 # j + 1
        BY <1>3, <2>1
      <4> QED
        BY <4>1 DEF FromBefore
    <3> QED
      BY <3>1, <3>2
  <2> QED
    BY <2>2, <2>3 DEF Begins
<1>6. ASSUME NEW x \in Ids, NEW i \in Nat, NEW c \in Int, <<x, i, c>> \in S,
             i \in DOMAIN file.kids[x]
      PROVE  /\ <<x, i + 1, c + Width(file.kids[x][i])>> \in S
             /\ file.type[file.kids[x][i]] = "Pages" => <<file.kids[x][i], 1, c>> \in S
  <2> DEFINE z == file.kids[x][i]
  <2>1. <<x, i, c>> \in Walked /\ One(x, i, c)
    BY <1>6
  <2>2. z \in Ids
    BY <1>3, <1>6
  <2> HIDE DEF S
  <2>3. One(x, i + 1, c + Width(z))
    <3> SUFFICES ASSUME NEW b \in Int, <<x, i + 1, b>> \in Walked
                 PROVE  b = c + Width(z)
      OBVIOUS
    <3>1. i + 1 \in Nat /\ i + 1 # 1
      BY <1>3, <1>6
    <3>2. PICK a \in Int, j \in Nat : /\ j \in DOMAIN file.kids[x]
                                      /\ <<x, j, a>> \in Walked
                                      /\ i + 1 = j + 1 /\ b = a + Width(file.kids[x][j])
      <4>1. \/ Begins(x, i + 1, b) \/ FromAbove(x, i + 1, b) \/ FromBefore(x, i + 1, b)
        BY <3>1, WalkedFrom
      <4>2. ~Begins(x, i + 1, b) /\ ~FromAbove(x, i + 1, b)
        BY <3>1 DEF Begins, FromAbove
      <4> QED
        BY <4>1, <4>2 DEF FromBefore
    <3>3. j = i
      BY <3>2
    <3> QED
      BY <2>1, <3>2, <3>3
  <2>4. One(z, 1, c)
    <3> SUFFICES ASSUME NEW b \in Int, <<z, 1, b>> \in Walked PROVE b = c
      OBVIOUS
    <3>1. z # file.root
      BY <1>3, <1>6
    <3>2. \A j \in Nat : j \in DOMAIN file.kids[z] => 1 # j + 1
      BY <1>3, <2>2
    <3>3. PICK w \in Ids, j \in Nat : /\ j \in DOMAIN file.kids[w]
                                      /\ <<w, j, b>> \in Walked
                                      /\ z = file.kids[w][j]
      <4>1. \/ Begins(z, 1, b) \/ FromAbove(z, 1, b) \/ FromBefore(z, 1, b)
        BY <2>2, WalkedFrom
      <4>2. ~Begins(z, 1, b) /\ ~FromBefore(z, 1, b)
        BY <3>1, <3>2 DEF Begins, FromBefore
      <4> QED
        BY <4>1, <4>2 DEF FromAbove
    <3>4. w = x /\ j = i
      BY <1>4, <1>6, <3>3
    <3> QED
      BY <2>1, <3>3, <3>4
  <2> HIDE DEF One, z
  <2>5. /\ <<x, i + 1, c + Width(z)>> \in Walked
        /\ file.type[z] = "Pages" => <<z, 1, c>> \in Walked
    BY <1>2, <1>6, <2>1 DEF Followed, z
  <2>6. /\ <<x, i + 1, c + Width(z)>> \in S
        /\ file.type[z] = "Pages" => <<z, 1, c>> \in S
    BY <2>3, <2>4, <2>5 DEF S
  <2> QED
    BY <2>6 DEF z
<1>7. <<file.root, 1, 0>> \in S
  <2> HIDE DEF One
  <2> QED
    BY <1>2, <1>5 DEF Followed
<1> HIDE DEF S
<1>8. Followed(S)
  BY <1>6, <1>7 DEF Followed
<1>9. <<y, k, d>> \in S
  BY <1>1, <1>8, WalkedIn
<1>10. One(y, k, d)
  <2> HIDE DEF One
  <2> QED
    BY <1>9 DEF S
<1> QED
  BY <1>10

\* Where the walk is, and where it was when it gave each page: page i after i - 1
\* pages that were skipped.
WalkOK ==
    SoundStorage =>
        /\ phase = "enter" /\ node \in Ids => <<node, 1, page - 1 - num>> \in Walked
        /\ phase = "kids" => <<node, kid, page - 1 - num>> \in Walked
        /\ \A i \in DOMAIN found : found[i] # None =>
              \E y \in Ids, k \in Nat : /\ k \in DOMAIN file.kids[y]
                                        /\ file.kids[y][k] = found[i]
                                        /\ <<y, k, i - 1>> \in Walked

LEMMA WalkedKept ==
    ASSUME UNCHANGED given
    PROVE  Walked' = Walked /\ SoundStorage' = SoundStorage
<1>1. \A S : Followed(S)' = Followed(S)
  BY DEF given, Followed, Width
<1>2. Walked' = Walked
  BY <1>1 DEF Walked
<1>3. SoundStorage' = SoundStorage
  BY DEF given, SoundStorage, Go
<1> QED
  BY <1>2, <1>3

\* Outside the walk it is enough that no page is found.
LEMMA WalkRests ==
    ASSUME WalkOK, UNCHANGED <<given, found>>, phase' \notin {"enter", "kids"}
    PROVE  WalkOK'
<1>1. Walked' = Walked /\ SoundStorage' = SoundStorage
  BY WalkedKept
<1>2. file' = file /\ found' = found
  BY DEF given
<1> HIDE DEF Walked, SoundStorage
<1> QED
  BY <1>1, <1>2 DEF WalkOK

LEMMA WalkGives ==
    ASSUME Inv, WalkOK, NEW x \in MaybeIds, Give(x), UNCHANGED <<given, page>>,
           SoundStorage /\ x # None =>
              \E y \in Ids, k \in Nat : /\ k \in DOMAIN file.kids[y]
                                        /\ file.kids[y][k] = x
                                        /\ <<y, k, Len(found)>> \in Walked
    PROVE  WalkOK'
<1>1. Walked' = Walked /\ SoundStorage' = SoundStorage
  BY WalkedKept
<1>2. phase' = "inherit" /\ found' = Append(found, x) /\ file' = file
  BY DEF Give, given
<1>3. found \in Seq(MaybeIds)
  BY DEF Inv, ShapesOK, MaybeIds
<1>4. /\ DOMAIN found' = 1..Len(found) + 1 /\ DOMAIN found = 1..Len(found)
      /\ Len(found) \in Nat
      /\ \A i \in 1..Len(found) : found'[i] = found[i]
      /\ found'[Len(found) + 1] = x
  BY <1>2, <1>3, AppendProperties
<1> DEFINE At(f, i) == \E y \in Ids, k \in Nat : /\ k \in DOMAIN file.kids[y]
                                                 /\ file.kids[y][k] = f
                                                 /\ <<y, k, i - 1>> \in Walked
<1>5. SoundStorage => \A i \in 1..Len(found) : found[i] # None => At(found[i], i)
  BY <1>4 DEF WalkOK
<1>6. SoundStorage /\ x # None => At(x, Len(found) + 1)
  <2>1. (Len(found) + 1) - 1 = Len(found)
    BY <1>4
  <2> QED
    BY <2>1
<1> HIDE DEF At
<1>7. SoundStorage => \A i \in DOMAIN found' : found'[i] # None => At(found'[i], i)
  <2>1. \A i \in 1..Len(found) + 1 : i \in 1..Len(found) \/ i = Len(found) + 1
    BY <1>4
  <2> QED
    BY <1>4, <1>5, <1>6, <2>1
<1> HIDE DEF Walked, SoundStorage
<1> QED
  BY <1>1, <1>2, <1>7 DEF WalkOK, At

LEMMA NextPageWalk == Inv /\ WalkOK /\ NextPage => WalkOK'
<1> SUFFICES ASSUME Inv, WalkOK, NextPage PROVE WalkOK'
  OBVIOUS
<1>1. /\ phase' = "enter" /\ page' = page + 1 /\ num' = page /\ node' = Go(file.root)
      /\ UNCHANGED <<given, found>> /\ file' = file
  BY DEF NextPage, given
<1>2. Walked' = Walked /\ SoundStorage' = SoundStorage
  BY <1>1, WalkedKept
<1>3. SoundStorage => <<node', 1, page' - 1 - num'>> \in Walked
  <2> SUFFICES ASSUME SoundStorage PROVE <<node', 1, page' - 1 - num'>> \in Walked
    OBVIOUS
  <2>1. IsFile(file) /\ file.root \in Ids /\ page \in Nat
    BY DEF Inv, ShapesOK, IsFile
  <2>2. node' = file.root
    BY <1>1, <2>1 DEF SoundStorage
  <2>3. page' - 1 - num' = 0
    BY <1>1, <2>1
  <2>4. <<file.root, 1, 0>> \in Walked
    BY <2>1, FollowedWalked DEF Followed
  <2> QED
    BY <2>2, <2>3, <2>4
<1> HIDE DEF Walked, SoundStorage
<1> QED
  BY <1>1, <1>2, <1>3 DEF WalkOK

LEMMA EnterWalk == Inv /\ WalkOK /\ Enter => WalkOK'
<1> SUFFICES ASSUME Inv, WalkOK, Enter PROVE WalkOK'
  OBVIOUS
<1>1. phase = "enter" /\ UNCHANGED <<given, page>> /\ file' = file
  BY DEF Enter, given
<1>2. CASE Type(node) # "Pages" \/ file.count[node] < num
  <2>1. None \in MaybeIds /\ Give(None)
    BY <1>2 DEF Enter, MaybeIds
  <2> QED
    BY <1>1, <2>1, WalkGives
<1>3. CASE ~(Type(node) # "Pages" \/ file.count[node] < num)
  <2>1. phase' = "kids" /\ kid' = 1 /\ UNCHANGED <<node, num, found>>
    BY <1>3 DEF Enter
  <2>2. node \in Ids
    BY <1>3 DEF Inv, TypeOK, Type
  <2>3. Walked' = Walked /\ SoundStorage' = SoundStorage
    BY <1>1, WalkedKept
  <2> HIDE DEF Walked, SoundStorage
  <2> QED
    BY <1>1, <2>1, <2>2, <2>3 DEF WalkOK
<1> QED
  BY <1>2, <1>3

LEMMA LookWalk == Inv /\ WalkOK /\ Look => WalkOK'
<1> SUFFICES ASSUME Inv, WalkOK, Look PROVE WalkOK'
  OBVIOUS
<1> DEFINE kids == file.kids[node]
           d == page - 1 - num
<1>1. phase = "kids" /\ UNCHANGED <<given, page>> /\ file' = file
  BY DEF Look, given
<1>2. /\ node \in Ids /\ kid \in Nat \ {0} /\ kids \in Seq(Ids)
      /\ num \in Int /\ page \in Nat /\ IsFile(file)
  BY <1>1 DEF Inv, ShapesOK, TypeOK, IsFile
<1>3. CASE kid > Len(kids)
  <2>1. None \in MaybeIds /\ Give(None)
    BY <1>3 DEF Look, MaybeIds
  <2> QED
    BY <1>1, <2>1, WalkGives
<1>4. CASE kid <= Len(kids) /\ ~Sound(kids[kid])
  <2>1. phase' \in {"panicked", "endless"} /\ found' = found
    BY <1>2, <1>4, BrokenStops DEF Look
  <2> QED
    BY <1>1, <2>1, WalkRests
<1>5. CASE kid <= Len(kids) /\ Sound(kids[kid])
  <2> DEFINE x == kids[kid]
             k == Go(x)
  <2>1. x \in Ids /\ k \in MaybeIds /\ kid \in DOMAIN kids
    <3>1. kid \in DOMAIN kids /\ x \in Ids
      BY <1>2, <1>5
    <3> HIDE DEF x
    <3>2. x \in MaybeIds
      BY <3>1 DEF MaybeIds
    <3> QED
      BY <1>5, <3>1, <3>2, GoTyped DEF Inv, x
  <2>2. Kid(k)
    BY <1>2, <1>5 DEF Look
  <2>3. SoundStorage => k = x
    BY <2>1 DEF SoundStorage
  <2>4. SoundStorage =>
           /\ <<node, kid, d>> \in Walked
           /\ <<node, kid + 1, d + Width(x)>> \in Walked
           /\ file.type[x] = "Pages" => <<x, 1, d>> \in Walked
    <3> SUFFICES ASSUME SoundStorage PROVE
           /\ <<node, kid, d>> \in Walked
           /\ <<node, kid + 1, d + Width(x)>> \in Walked
           /\ file.type[x] = "Pages" => <<x, 1, d>> \in Walked
      OBVIOUS
    <3>1. <<node, kid, d>> \in Walked
      BY <1>1 DEF WalkOK
    <3>2. Followed(Walked) /\ d \in Int /\ kid \in Nat
      BY <1>2, FollowedWalked
    <3> QED
      BY <1>2, <2>1, <3>1, <3>2 DEF Followed
  <2>5. Walked' = Walked /\ SoundStorage' = SoundStorage
    BY <1>1, WalkedKept
  <2> DEFINE width == IF Type(k) = "Pages" THEN file.count[k]
                      ELSE IF Type(k) = "Page" THEN 1 ELSE 0
  <2>6. \/ Type(k) = "Pages" /\ Descend(k)
        \/ Skip(width)
        \/ Type(k) = "Page" /\ num = 0 /\ Give(k)
    <3> HIDE DEF k
    <3> QED
      BY <2>2 DEF Kid
  <2>7. SoundStorage => width = Width(x) /\ Type(k) = file.type[x]
    <3>1. x # None
      BY <2>1, IdsAssumption DEF None
    <3> HIDE DEF x
    <3> QED
      BY <2>3, <3>1 DEF Type, Width
  <2>8. width \in Int
    <3>1. k # None => file.count[k] \in Int
      BY <1>2, <2>1 DEF IsFile, MaybeIds
    <3> HIDE DEF k
    <3> QED
      BY <3>1 DEF Type
  <2> HIDE DEF x, k, width, Walked, SoundStorage
  <2>9. CASE Type(k) = "Pages" /\ Descend(k)
    <3>1. phase' = "enter" /\ node' = k /\ UNCHANGED <<num, kid, found>>
      BY <2>9 DEF Descend
    <3>2. SoundStorage => <<node', 1, page' - 1 - num'>> \in Walked
      BY <1>1, <2>3, <2>4, <2>7, <2>9, <3>1
    <3> QED
      BY <1>1, <2>5, <3>1, <3>2 DEF WalkOK
  <2>10. CASE Skip(width)
    <3>1. /\ kid' = kid + 1 /\ num' = num - width
          /\ UNCHANGED <<phase, node, found>>
      BY <2>10 DEF Skip
    <3>2. page' - 1 - num' = d + width
      BY <1>1, <1>2, <2>8, <3>1
    <3>3. SoundStorage => <<node', kid', page' - 1 - num'>> \in Walked
      BY <2>4, <2>7, <3>1, <3>2
    <3> QED
      BY <1>1, <2>5, <3>1, <3>3 DEF WalkOK
  <2>11. CASE Type(k) = "Page" /\ num = 0 /\ Give(k)
    <3>1. d = Len(found)
      <4>1. Len(found) = page - 1
        BY <1>1 DEF Inv, PagesCounted
      <4> QED
        BY <1>2, <2>11, <4>1
    <3>2. SoundStorage => <<node, kid, Len(found)>> \in Walked /\ kids[kid] = k
      BY <2>3, <2>4, <3>1 DEF x
    <3> QED
      BY <1>1, <1>2, <2>1, <2>11, <3>2, WalkGives
  <2> QED
    BY <2>6, <2>9, <2>10, <2>11
<1> QED
  BY <1>2, <1>3, <1>4, <1>5

LEMMA StepWalk == Inv /\ WalkOK /\ [Next]_vars => WalkOK'
<1> SUFFICES ASSUME Inv, WalkOK, [Next]_vars PROVE WalkOK'
  OBVIOUS
<1>1. CASE UNCHANGED vars
  <2>1. UNCHANGED <<given, found, phase, node, num, kid, page>> /\ file' = file
    BY <1>1 DEF vars, given
  <2>2. Walked' = Walked /\ SoundStorage' = SoundStorage
    BY <2>1, WalkedKept
  <2> HIDE DEF Walked, SoundStorage
  <2> QED
    BY <2>1, <2>2 DEF WalkOK
<1>2. CASE LastPage \/ ReuseBuffer \/ Inherit \/ Text \/ StartOutline \/ Child
  <2>1. UNCHANGED <<given, found>>
    BY <1>2 DEF LastPage, ReuseBuffer, Inherit, Text, StartOutline, Child, walk
  <2>2. phase' \notin {"enter", "kids"}
    BY <1>2, BrokenStops DEF LastPage, ReuseBuffer, Inherit, Cache, Text, StartOutline,
       Child, Call
  <2> QED
    BY <2>1, <2>2, WalkRests
<1> QED
  BY <1>1, <1>2, NextPageWalk, EnterWalk, LookWalk DEF Next

\* In a tree, whatever its Counts say, no page is given for two numbers (page.go 28):
\* a walk that goes round a subtree has skipped as much as one that goes through it.
THEOREM NoPageTwiceCorrect == Spec => []NoPageTwice
<1>1. Init => WalkOK
  BY DEF Init, WalkOK
<1>2. Inv /\ WalkOK => NoPageTwice
  <2> SUFFICES ASSUME Inv, WalkOK, SoundStorage, IsTree,
                      NEW i \in DOMAIN found, NEW j \in DOMAIN found,
                      i < j, found[i] = found[j], found[i] # None
               PROVE  FALSE
    BY DEF NoPageTwice
  <2>1. IsFile(file) /\ found \in Seq(MaybeIds)
    BY DEF Inv, ShapesOK, MaybeIds
  <2>2. i \in Nat /\ j \in Nat /\ i - 1 \in Int /\ j - 1 \in Int
    BY <2>1
  <2>3. PICK y \in Ids, k \in Nat : /\ k \in DOMAIN file.kids[y]
                                    /\ file.kids[y][k] = found[i]
                                    /\ <<y, k, i - 1>> \in Walked
    BY DEF WalkOK
  <2>4. PICK z \in Ids, m \in Nat : /\ m \in DOMAIN file.kids[z]
                                    /\ file.kids[z][m] = found[j]
                                    /\ <<z, m, j - 1>> \in Walked
    BY DEF WalkOK
  <2>5. y = z /\ k = m
    BY <2>3, <2>4 DEF IsTree
  <2>6. i - 1 = j - 1
    BY <2>1, <2>2, <2>3, <2>4, <2>5, OneWay
  <2> QED
    BY <2>2, <2>6
<1> QED
  BY <1>1, <1>2, Invariant, StepInv, StepWalk, PTL DEF Spec

-----------------------------------------------------------------------------
(* Trees: how deep they are, and their leaves. *)

N == Cardinality(Ids)

LEMMA NType == N \in Nat
BY IdsAssumption, FS_CardinalityType DEF N

\* The sets of objects that no more than n steps along R lead away from.
IsLevels(h, R) ==
    /\ h \in [0..N -> SUBSET Ids]
    /\ h[0] = {}
    /\ \A n \in 1..N : h[n] = {y \in Ids : \A z \in Ids : <<y, z>> \in R => z \in h[n - 1]}

\* Without a cycle, every object is in one of as many levels as there are objects.
LEMMA Levels ==
    ASSUME NEW R, Acyclic(R)
    PROVE  \E h : IsLevels(h, R) /\ h[N] = Ids
<1> DEFINE Up(S) == {y \in Ids : \A z \in Ids : <<y, z>> \in R => z \in S}
           step == [n \in 1..N |-> [S \in SUBSET Ids |-> Up(S)]]
<1>1. step \in [1..N -> [SUBSET Ids -> SUBSET Ids]] /\ {} \in SUBSET Ids
  OBVIOUS
<1>2. PICK h : TakesSteps(h, N, SUBSET Ids, {}, step)
  <2> HIDE DEF step
  <2> QED
    BY <1>1, NType, RecursionExists
<1>3. /\ h \in [0..N -> SUBSET Ids] /\ h[0] = {}
      /\ \A n \in 1..N : h[n] = Up(h[n - 1])
  <2>1. /\ h \in [0..N -> SUBSET Ids] /\ h[0] = {}
        /\ \A n \in 1..N : h[n] = step[n][h[n - 1]]
    BY <1>2 DEF TakesSteps
  <2>2. \A n \in 1..N : n - 1 \in 0..N
    BY NType
  <2> QED
    BY <2>1, <2>2
<1> HIDE DEF step
<1>4. \A n \in 1..N : h[n - 1] \subseteq h[n]
  <2> DEFINE T == {n \in Nat : n + 1 <= N => h[n] \subseteq h[n + 1]}
  <2>1. 0 \in T
    BY <1>3
  <2>2. ASSUME NEW n \in Nat, n \in T PROVE n + 1 \in T
    <3> SUFFICES ASSUME (n + 1) + 1 <= N PROVE h[n + 1] \subseteq h[(n + 1) + 1]
      OBVIOUS
    <3>1. n + 1 \in 1..N /\ (n + 1) + 1 \in 1..N /\ n + 1 <= N
          /\ (n + 1) - 1 = n /\ ((n + 1) + 1) - 1 = n + 1
      BY NType
    <3>2. h[n] \subseteq h[n + 1]
      BY <2>2, <3>1
    <3>3. h[n + 1] = Up(h[n]) /\ h[(n + 1) + 1] = Up(h[n + 1])
      BY <1>3, <3>1
    <3> QED
      BY <3>2, <3>3
  <2> HIDE DEF T
  <2>3. Nat \subseteq T
    BY <2>1, <2>2, SetInduction
  <2> QED
    <3> TAKE n \in 1..N
    <3>1. n - 1 \in T /\ (n - 1) + 1 = n /\ n <= N
      BY <2>3, NType
    <3> QED
      BY <3>1 DEF T
<1>5. ASSUME NEW n \in 1..N, h[n - 1] # Ids
      PROVE  \E x \in h[n] : x \notin h[n - 1]
  <2> DEFINE S == Ids \ h[n - 1]
  <2>1. h[n - 1] \in SUBSET Ids
    BY <1>3, NType
  <2>2. S \in (SUBSET Ids) \ {{}}
    BY <1>5, <2>1
  <2>3. PICK x \in S : \A y \in S : <<x, y>> \notin R
    BY <2>2 DEF Acyclic
  <2>4. x \in Up(h[n - 1])
    BY <2>3
  <2> QED
    BY <1>3, <2>3, <2>4
<1>6. \A n \in 0..N : h[n] = Ids \/ Cardinality(h[n]) >= n
  <2> DEFINE T == {n \in Nat : n <= N => h[n] = Ids \/ Cardinality(h[n]) >= n}
  <2>1. 0 \in T
    BY <1>3, FS_EmptySet
  <2>2. ASSUME NEW n \in Nat, n \in T PROVE n + 1 \in T
    <3> SUFFICES ASSUME n + 1 <= N PROVE h[n + 1] = Ids \/ Cardinality(h[n + 1]) >= n + 1
      OBVIOUS
    <3>1. n + 1 \in 1..N /\ (n + 1) - 1 = n /\ n \in 0..N /\ n + 1 \in 0..N
      BY NType
    <3>2. h[n] \subseteq h[n + 1] /\ h[n] \in SUBSET Ids /\ h[n + 1] \in SUBSET Ids
      BY <1>3, <1>4, <3>1
    <3>3. CASE h[n] = Ids
      BY <3>2, <3>3
    <3>4. CASE h[n] # Ids
      <4>1. Cardinality(h[n]) >= n
        BY <2>2, <3>1, <3>4
      <4>2. PICK x \in h[n + 1] : x \notin h[n]
        BY <1>5, <3>1, <3>4
      <4>3. IsFiniteSet(h[n]) /\ IsFiniteSet(h[n + 1])
        BY <3>2, IdsAssumption, FS_Subset
      <4>4. Cardinality(h[n] \cup {x}) = Cardinality(h[n]) + 1
        BY <4>2, <4>3, FS_AddElement
      <4>5. h[n] \cup {x} \in SUBSET h[n + 1]
        BY <3>2, <4>2
      <4>6. Cardinality(h[n] \cup {x}) <= Cardinality(h[n + 1])
        BY <4>3, <4>5, FS_Subset
      <4>7. Cardinality(h[n]) \in Nat /\ Cardinality(h[n + 1]) \in Nat
        BY <4>3, FS_CardinalityType
      <4> QED
        BY <4>1, <4>4, <4>6, <4>7
    <3> QED
      BY <3>3, <3>4
  <2> HIDE DEF T
  <2>3. Nat \subseteq T
    BY <2>1, <2>2, SetInduction
  <2> QED
    BY <2>3, NType DEF T
<1>7. h[N] = Ids
  <2>1. h[N] \in SUBSET Ids
    BY <1>3, NType
  <2>2. h[N] = Ids \/ Cardinality(h[N]) >= N
    BY <1>6, NType
  <2>3. /\ Cardinality(h[N]) <= Cardinality(Ids)
        /\ Cardinality(Ids) = Cardinality(h[N]) => Ids = h[N]
    BY <2>1, IdsAssumption, FS_Subset
  <2>4. Cardinality(h[N]) \in Nat
    BY <2>1, IdsAssumption, FS_Subset, FS_CardinalityType
  <2> QED
    BY <2>2, <2>3, <2>4, NType DEF N
<1> QED
  BY <1>3, <1>7 DEF IsLevels

\* flat[k] is the concatenation of the first k sequences of s.
IsFlat(flat, s) ==
    /\ flat \in [0..Len(s) -> Seq(Ids)]
    /\ flat[0] = << >>
    /\ \A k \in 1..Len(s) : flat[k] = flat[k - 1] \o s[k]

LEMMA FlatExists ==
    ASSUME NEW s \in Seq(Seq(Ids))
    PROVE  \E flat : IsFlat(flat, s) /\ flat[Len(s)] = FlattenSeq(s)
<1> DEFINE n == Len(s)
           step == [k \in 1..n |-> [q \in Seq(Ids) |-> q \o s[k]]]
           Rec(f) == f = [i \in 1..n |-> IF i = 1 THEN s[i] ELSE f[i - 1] \o s[i]]
           f == CHOOSE g : Rec(g)
           flat == [k \in 0..n |-> IF k = 0 THEN << >> ELSE f[k]]
<1>1. n \in Nat /\ \A k \in 1..n : s[k] \in Seq(Ids)
  BY LenProperties, ElementOfSeq
<1> HIDE DEF n
<1>2. step \in [1..n -> [Seq(Ids) -> Seq(Ids)]] /\ << >> \in Seq(Ids)
  <2>1. \A k \in 1..n : \A q \in Seq(Ids) : q \o s[k] \in Seq(Ids)
    BY <1>1, ConcatProperties
  <2> QED
    BY <2>1, EmptySeq
<1>3. PICK h : TakesSteps(h, n, Seq(Ids), << >>, step)
  <2> HIDE DEF step
  <2> QED
    BY <1>1, <1>2, RecursionExists
<1>4. /\ h \in [0..n -> Seq(Ids)] /\ h[0] = << >>
      /\ \A k \in 1..n : h[k] = h[k - 1] \o s[k]
  <2>1. /\ h \in [0..n -> Seq(Ids)] /\ h[0] = << >>
        /\ \A k \in 1..n : h[k] = step[k][h[k - 1]]
    BY <1>3 DEF TakesSteps
  <2>2. \A k \in 1..n : k - 1 \in 0..n
    BY <1>1
  <2> QED
    BY <2>1, <2>2
<1>5. \A k \in 0..n : k = 0 \/ k \in 1..n
  BY <1>1
<1> DEFINE g == [k \in 1..n |-> h[k]]
<1>6. Rec(g)
  <2>1. ASSUME NEW i \in 1..n
        PROVE  g[i] = IF i = 1 THEN s[i] ELSE g[i - 1] \o s[i]
    <3>1. CASE i = 1
      <4>1. h[1] = h[0] \o s[1] /\ s[1] \in Seq(Ids)
        <5>1. 1 \in 1..n /\ 1 - 1 = 0
          BY <3>1
        <5> QED
          BY <1>1, <1>4, <5>1
      <4>2. << >> \o s[1] = s[1]
        BY <4>1, ConcatEmptySeq
      <4> QED
        BY <1>4, <3>1, <4>1, <4>2
    <3>2. CASE i # 1
      <4>1. i - 1 \in 1..n
        BY <1>1, <3>2
      <4> QED
        BY <1>4, <3>2, <4>1
    <3> QED
      BY <3>1, <3>2
  <2> HIDE DEF g
  <2>2. g = [i \in 1..n |-> g[i]]
    BY DEF g
  <2> QED
    BY <2>1, <2>2
<1>7. Rec(f)
  <2> HIDE DEF Rec, g
  <2> QED
    BY <1>6
<1> HIDE DEF g
<1>8. FlattenSeq(s) = IF n = 0 THEN s ELSE f[n]
  BY DEF FlattenSeq, n
<1> HIDE DEF f
<1>9. \A i \in 1..n : f[i] = IF i = 1 THEN s[i] ELSE f[i - 1] \o s[i]
  BY <1>7
<1>10. \A k \in 1..n : flat[k] = flat[k - 1] \o s[k]
  <2> TAKE k \in 1..n
  <2>1. flat[k] = f[k] /\ k - 1 \in 0..n
    BY <1>1
  <2>2. CASE k = 1
    <3>1. flat[k - 1] = << >> /\ s[k] \in Seq(Ids)
      BY <1>1, <2>2
    <3>2. << >> \o s[k] = s[k]
      BY <3>1, ConcatEmptySeq
    <3> QED
      BY <1>9, <2>1, <2>2, <3>1, <3>2
  <2>3. CASE k # 1
    <3>1. k - 1 # 0
      BY <2>3
    <3> QED
      BY <1>9, <2>1, <2>3, <3>1
  <2> QED
    BY <2>2, <2>3
<1>11. flat[0] = << >> /\ flat = [k \in 0..n |-> flat[k]]
  BY <1>1
<1>12. flat[n] = FlattenSeq(s)
  <2>1. CASE n = 0
    <3>1. s = << >>
      BY <2>1, EmptySeq DEF n
    <3> QED
      BY <1>8, <1>11, <2>1, <3>1
  <2>2. CASE n # 0
    BY <1>1, <1>8, <2>2
  <2> QED
    BY <2>1, <2>2
<1> HIDE DEF flat
<1>13. \A k \in 0..n : flat[k] \in Seq(Ids)
  <2>1. flat[0] \in Seq(Ids) /\ \A k \in 1..n : flat[k - 1] \in Seq(Ids) => flat[k] \in Seq(Ids)
    <3>1. ASSUME NEW k \in 1..n, flat[k - 1] \in Seq(Ids) PROVE flat[k] \in Seq(Ids)
      <4>1. s[k] \in Seq(Ids) /\ flat[k] = flat[k - 1] \o s[k]
        BY <1>1, <1>10
      <4>2. flat[k - 1] \o s[k] \in Seq(Ids)
        BY <3>1, <4>1, ConcatProperties
      <4> QED
        BY <4>1, <4>2
    <3> QED
      BY <1>2, <1>11, <3>1
  <2> QED
    BY <1>1, <2>1, RecursionTyped
<1>14. IsFlat(flat, s)
  BY <1>10, <1>11, <1>13 DEF IsFlat, n
<1> QED
  BY <1>12, <1>14 DEF n

\* One step of Leaves: the leaves of y, when known has those of its kids.
KidLeaves(known, y) == [i \in DOMAIN file.kids[y] |-> known[file.kids[y][i]]]

LeavesStep(known, y) ==
    IF file.type[y] = "Page" THEN <<y>>
    ELSE IF file.type[y] = "other" THEN << >>
    ELSE FlattenSeq(KidLeaves(known, y))

LeafTables == [Ids -> Seq(Ids)]

LEMMA KidLeavesTyped ==
    ASSUME IsFile(file), NEW known \in LeafTables, NEW y \in Ids
    PROVE  /\ KidLeaves(known, y) \in Seq(Seq(Ids))
           /\ Len(KidLeaves(known, y)) = Len(file.kids[y])
           /\ DOMAIN file.kids[y] = 1..Len(file.kids[y])
           /\ \A k \in 1..Len(file.kids[y]) :
                 KidLeaves(known, y)[k] = known[file.kids[y][k]] /\ file.kids[y][k] \in Ids
<1> DEFINE kids == file.kids[y]
           n == Len(kids)
<1>1. kids \in Seq(Ids)
  BY DEF IsFile
<1> HIDE DEF kids
<1>2. n \in Nat /\ DOMAIN kids = 1..n /\ \A i \in 1..n : kids[i] \in Ids
  BY <1>1
<1> DEFINE q == [i \in 1..n |-> known[kids[i]]]
<1>3. KidLeaves(known, y) = q
  BY <1>2 DEF KidLeaves, kids
<1> HIDE DEF n
<1>4. \A i \in 1..n : q[i] \in Seq(Ids)
  BY <1>2 DEF LeafTables
<1>5. q \in Seq(Seq(Ids)) /\ Len(q) = n
  BY <1>2, <1>4, IsASeq
<1> QED
  BY <1>2, <1>3, <1>5 DEF n, kids

LEMMA LeavesStepTyped ==
    ASSUME IsFile(file), NEW known \in LeafTables, NEW y \in Ids
    PROVE  LeavesStep(known, y) \in Seq(Ids)
<1>1. <<y>> \in Seq(Ids) /\ << >> \in Seq(Ids)
  OBVIOUS
<1>2. KidLeaves(known, y) \in Seq(Seq(Ids))
  BY KidLeavesTyped
<1>3. PICK flat : IsFlat(flat, KidLeaves(known, y))
                  /\ flat[Len(KidLeaves(known, y))] = FlattenSeq(KidLeaves(known, y))
  BY <1>2, FlatExists
<1>4. FlattenSeq(KidLeaves(known, y)) \in Seq(Ids)
  <2> DEFINE n == Len(KidLeaves(known, y))
  <2>1. n \in Nat
    BY <1>2, LenProperties
  <2> HIDE DEF n
  <2>2. flat \in [0..n -> Seq(Ids)] /\ n \in 0..n
    BY <1>3, <2>1 DEF IsFlat, n
  <2> QED
    BY <1>3, <2>2 DEF n
<1> QED
  BY <1>1, <1>4 DEF LeavesStep

\* The table that Leaves builds.
LEMMA LeavesTable ==
    ASSUME IsFile(file)
    PROVE  \E f : /\ \A n \in 0..N : f[n] \in LeafTables
                  /\ \A n \in 1..N : \A y \in Ids : f[n][y] = LeavesStep(f[n - 1], y)
                  /\ \A y : Leaves(y) = f[N][y]
<1> DEFINE Turn(known) == [y \in Ids |-> LeavesStep(known, y)]
           base == [y \in Ids |-> IF file.type[y] = "Page" THEN <<y>> ELSE << >>]
           Rec(r) == r = [n \in 0..N |-> IF n = 0 THEN base ELSE Turn(r[n - 1])]
           Def(r) == r = [n \in 0..N |->
                            [y \in Ids |->
                               IF file.type[y] = "Page" THEN <<y>>
                               ELSE IF file.type[y] = "other" \/ n = 0 THEN << >>
                               ELSE FlattenSeq(KidLeaves(r[n - 1], y))]]
           step == [n \in 1..N |-> [known \in LeafTables |-> Turn(known)]]
<1>1. base \in LeafTables
  BY DEF LeafTables
<1>2. \A known \in LeafTables : Turn(known) \in LeafTables
  BY LeavesStepTyped DEF LeafTables
<1>3. \A r : Def(r) <=> Rec(r)
  <2> TAKE r
  <2> DEFINE D == [n \in 0..N |->
                      [y \in Ids |->
                         IF file.type[y] = "Page" THEN <<y>>
                         ELSE IF file.type[y] = "other" \/ n = 0 THEN << >>
                         ELSE FlattenSeq(KidLeaves(r[n - 1], y))]]
             E == [n \in 0..N |-> IF n = 0 THEN base ELSE Turn(r[n - 1])]
  <2>1. ASSUME NEW n \in 0..N PROVE D[n] = E[n]
    <3>1. CASE n = 0
      BY <3>1
    <3>2. CASE n # 0
      BY <3>2 DEF LeavesStep
    <3> QED
      BY <3>1, <3>2
  <2>2. D = E
    BY <2>1
  <2> QED
    BY <2>2
<1> HIDE DEF base, Turn
<1>4. step \in [1..N -> [LeafTables -> LeafTables]]
  BY <1>2
<1>5. PICK g : TakesSteps(g, N, LeafTables, base, step)
  <2> HIDE DEF step
  <2> QED
    BY <1>1, <1>4, NType, RecursionExists
<1>6. Rec(g)
  <2>1. /\ g \in [0..N -> LeafTables] /\ g[0] = base
        /\ \A n \in 1..N : g[n] = step[n][g[n - 1]]
    BY <1>5 DEF TakesSteps
  <2>2. \A n \in 0..N : n # 0 => n \in 1..N /\ n - 1 \in 0..N
    BY NType
  <2> QED
    BY <2>1, <2>2
<1> DEFINE r == CHOOSE h : Def(h)
<1>7. Def(r)
  <2> HIDE DEF Def, Rec
  <2> QED
    BY <1>3, <1>6
<1>8. \A y : Leaves(y) = r[N][y]
  BY DEF Leaves, N, KidLeaves
<1>9. Rec(r)
  <2> HIDE DEF Def, Rec, r
  <2> QED
    BY <1>3, <1>7
<1> HIDE DEF r
<1>10. r[0] = base /\ \A n \in 1..N : r[n] = Turn(r[n - 1])
  <2>1. \A n \in 0..N : r[n] = IF n = 0 THEN base ELSE Turn(r[n - 1])
    BY <1>9
  <2>2. 0 \in 0..N /\ \A n \in 1..N : n \in 0..N /\ n # 0
    BY NType
  <2> QED
    BY <2>1, <2>2
<1>11. \A n \in 0..N : r[n] \in LeafTables
  <2>1. r[0] \in LeafTables /\ \A n \in 1..N : r[n - 1] \in LeafTables => r[n] \in LeafTables
    BY <1>1, <1>2, <1>10
  <2> QED
    BY <2>1, NType, RecursionTyped
<1>12. \A n \in 1..N : \A y \in Ids : r[n][y] = LeavesStep(r[n - 1], y)
  BY <1>10 DEF Turn
<1> QED
  BY <1>8, <1>11, <1>12

AllLeaves == [y \in Ids |-> Leaves(y)]

\* In a tree the leaves of a node are those of its kids: the steps of Leaves are as
\* many as the tree can be deep, and those of level n are settled by step n.
LEMMA LeavesUnfold ==
    ASSUME IsFile(file), SoundStorage, IsTree
    PROVE  /\ AllLeaves \in LeafTables
           /\ \A y \in Ids : Leaves(y) = LeavesStep(AllLeaves, y)
<1>1. PICK f : /\ \A n \in 0..N : f[n] \in LeafTables
               /\ \A n \in 1..N : \A y \in Ids : f[n][y] = LeavesStep(f[n - 1], y)
               /\ \A y : Leaves(y) = f[N][y]
  BY LeavesTable
<1>2. PICK h : IsLevels(h, KidLinks) /\ h[N] = Ids
  BY Levels DEF IsTree
<1>3. AllLeaves = f[N]
  <2>1. f[N] \in LeafTables
    BY <1>1, NType
  <2> QED
    BY <1>1, <2>1 DEF AllLeaves, LeafTables
<1>4. \A n \in 0..N : h[n] \subseteq Ids
  BY <1>2 DEF IsLevels
<1> DEFINE Settled(n) == \A y \in h[n] : \A m \in n..N : f[m][y] = f[n][y]
<1>5. ASSUME NEW n \in 1..N, NEW y \in h[n], file.type[y] = "Pages",
             NEW i \in 1..Len(file.kids[y])
      PROVE  file.kids[y][i] \in h[n - 1]
  <2>1. y \in Ids /\ DOMAIN file.kids[y] = 1..Len(file.kids[y])
    BY <1>1, <1>4, <1>5, NType, KidLeavesTyped
  <2>2. file.kids[y][i] \in Ids
    <3>1. file.kids[y] \in Seq(Ids)
      BY <2>1 DEF IsFile
    <3> QED
      BY <3>1
  <2>3. Go(file.kids[y][i]) = file.kids[y][i]
    BY <2>2 DEF SoundStorage
  <2>4. <<y, file.kids[y][i]>> \in KidLinks
    BY <1>5, <2>1, <2>2, <2>3 DEF KidLinks
  <2>5. h[n] = {x \in Ids : \A z \in Ids : <<x, z>> \in KidLinks => z \in h[n - 1]}
    BY <1>2 DEF IsLevels
  <2> QED
    BY <1>5, <2>2, <2>4, <2>5
<1>6. ASSUME NEW n \in 1..N, NEW y \in h[n], NEW a \in LeafTables, NEW b \in LeafTables,
             \A z \in h[n - 1] : a[z] = b[z]
      PROVE  LeavesStep(a, y) = LeavesStep(b, y)
  <2>1. y \in Ids
    BY <1>4, <1>6
  <2>2. CASE file.type[y] # "Pages"
    <3>1. file.type[y] \in {"Page", "other"}
      BY <2>1, <2>2 DEF IsFile, Types
    <3> QED
      BY <3>1 DEF LeavesStep
  <2>3. CASE file.type[y] = "Pages"
    <3>1. DOMAIN file.kids[y] = 1..Len(file.kids[y])
      BY <2>1, KidLeavesTyped, <1>6
    <3>2. \A i \in DOMAIN file.kids[y] : a[file.kids[y][i]] = b[file.kids[y][i]]
      BY <1>5, <1>6, <2>3, <3>1
    <3>3. KidLeaves(a, y) = KidLeaves(b, y)
      BY <3>2 DEF KidLeaves
    <3> QED
      BY <3>3 DEF LeavesStep
  <2> QED
    BY <2>2, <2>3
<1>7. \A n \in 0..N : Settled(n)
  <2> DEFINE T == {n \in Nat : n <= N => Settled(n)}
  <2>1. 0 \in T
    BY <1>2 DEF IsLevels
  <2>2. ASSUME NEW n \in Nat, n \in T PROVE n + 1 \in T
    <3> SUFFICES ASSUME n + 1 <= N, NEW y \in h[n + 1], NEW m \in n + 1..N
                 PROVE  f[m][y] = f[n + 1][y]
      OBVIOUS
    <3>1. /\ n + 1 \in 1..N /\ m \in 1..N /\ (n + 1) - 1 = n
          /\ m - 1 \in n..N /\ m - 1 \in 0..N /\ n \in 0..N /\ n + 1 \in 0..N /\ n <= N
      BY NType
    <3>2. y \in Ids
      BY <1>4, <3>1
    <3>3. \A z \in h[n] : f[m - 1][z] = f[n][z]
      BY <2>2, <3>1
    <3>4. f[m - 1] \in LeafTables /\ f[n] \in LeafTables
      BY <1>1, <3>1
    <3>5. LeavesStep(f[m - 1], y) = LeavesStep(f[n], y)
      BY <1>6, <3>1, <3>3, <3>4
    <3> QED
      BY <1>1, <3>1, <3>2, <3>5
  <2> HIDE DEF T, Settled
  <2>3. Nat \subseteq T
    BY <2>1, <2>2, SetInduction
  <2> QED
    BY <2>3, NType DEF T
<1>8. ASSUME NEW y \in Ids PROVE Leaves(y) = LeavesStep(AllLeaves, y)
  <2>1. N \in 1..N /\ N - 1 \in 0..N
    <3>1. N # 0
      BY <1>2, <1>8 DEF IsLevels
    <3> QED
      BY <3>1, NType
  <2>2. \A z \in h[N - 1] : f[N][z] = f[N - 1][z]
    <3>1. Settled(N - 1) /\ N \in (N - 1)..N
      BY <1>7, <2>1
    <3> QED
      BY <3>1
  <2>3. f[N] \in LeafTables /\ f[N - 1] \in LeafTables
    BY <1>1, <2>1
  <2>4. LeavesStep(f[N], y) = LeavesStep(f[N - 1], y)
    BY <1>2, <1>6, <2>1, <2>2, <2>3
  <2> QED
    BY <1>1, <1>3, <2>1, <2>4
<1> QED
  BY <1>1, <1>3, <1>8, NType

\* The leaves of the first kids of y.
Flat(y) == CHOOSE flat :
              /\ IsFlat(flat, KidLeaves(AllLeaves, y))
              /\ flat[Len(file.kids[y])] = FlattenSeq(KidLeaves(AllLeaves, y))

LEMMA FlatIs ==
    ASSUME IsFile(file), SoundStorage, IsTree, NEW y \in Ids
    PROVE  /\ \A k \in 0..Len(file.kids[y]) : Flat(y)[k] \in Seq(Ids)
           /\ Flat(y)[0] = << >>
           /\ \A k \in 1..Len(file.kids[y]) :
                 /\ file.kids[y][k] \in Ids
                 /\ Flat(y)[k] = Flat(y)[k - 1] \o Leaves(file.kids[y][k])
           /\ file.type[y] = "Pages" => Flat(y)[Len(file.kids[y])] = Leaves(y)
           /\ Len(file.kids[y]) \in Nat
<1> DEFINE q == KidLeaves(AllLeaves, y)
           n == Len(file.kids[y])
<1>1. AllLeaves \in LeafTables /\ Leaves(y) = LeavesStep(AllLeaves, y)
  BY LeavesUnfold
<1>2. /\ q \in Seq(Seq(Ids)) /\ Len(q) = n
      /\ \A k \in 1..n : q[k] = AllLeaves[file.kids[y][k]] /\ file.kids[y][k] \in Ids
  BY <1>1, KidLeavesTyped
<1>3. PICK flat : IsFlat(flat, q) /\ flat[n] = FlattenSeq(q)
  <2> HIDE DEF q, n
  <2> QED
    BY <1>2, FlatExists
<1>4. IsFlat(Flat(y), q) /\ Flat(y)[n] = FlattenSeq(q)
  <2> HIDE DEF IsFlat
  <2> QED
    BY <1>3 DEF Flat
<1>5. \A k \in 1..n : q[k] = Leaves(file.kids[y][k])
  BY <1>2 DEF AllLeaves
<1>6. n \in Nat
  <2> HIDE DEF q
  <2> QED
    BY <1>2, LenProperties
<1>7. file.type[y] = "Pages" => Flat(y)[n] = Leaves(y)
  BY <1>1, <1>4 DEF LeavesStep
<1> HIDE DEF q, n
<1>8. /\ \A k \in 0..n : Flat(y)[k] \in Seq(Ids)
      /\ Flat(y)[0] = << >>
      /\ \A k \in 1..n : Flat(y)[k] = Flat(y)[k - 1] \o q[k]
  BY <1>2, <1>4 DEF IsFlat
<1> QED
  BY <1>2, <1>5, <1>6, <1>7, <1>8 DEF n

\* The leaves of the first k kids of y begin the leaves of y.
LEMMA FlatBegins ==
    ASSUME IsFile(file), SoundStorage, IsTree, NEW y \in Ids, file.type[y] = "Pages",
           NEW k \in 0..Len(file.kids[y])
    PROVE  /\ Len(Flat(y)[k]) <= Len(Leaves(y))
           /\ \A m \in 1..Len(Flat(y)[k]) : Leaves(y)[m] = Flat(y)[k][m]
<1> DEFINE n == Len(file.kids[y])
           flat == Flat(y)
           Same(j) == /\ Len(flat[n - j]) <= Len(flat[n])
                      /\ \A m \in 1..Len(flat[n - j]) : flat[n][m] = flat[n - j][m]
           T == {j \in Nat : j <= n => Same(j)}
<1>1. /\ \A i \in 0..n : flat[i] \in Seq(Ids)
      /\ \A i \in 1..n : flat[i] = flat[i - 1] \o Leaves(file.kids[y][i])
                         /\ file.kids[y][i] \in Ids
      /\ flat[n] = Leaves(y) /\ n \in Nat
  BY FlatIs
<1>2. \A x \in Ids : Leaves(x) \in Seq(Ids)
  BY LeavesUnfold DEF LeafTables, AllLeaves
<1> HIDE DEF flat, n
<1>3. \A i \in 0..n : Len(flat[i]) \in Nat
  BY <1>1, LenProperties
<1>4. ASSUME NEW i \in 1..n
      PROVE  /\ Len(flat[i - 1]) <= Len(flat[i])
             /\ \A m \in 1..Len(flat[i - 1]) : flat[i][m] = flat[i - 1][m]
  <2> DEFINE a == flat[i - 1]
             b == Leaves(file.kids[y][i])
  <2>1. a \in Seq(Ids) /\ b \in Seq(Ids) /\ flat[i] = a \o b
    <3>1. i - 1 \in 0..n
      BY <1>1
    <3>2. a \in Seq(Ids)
      BY <1>1, <3>1
    <3>3. b \in Seq(Ids)
      BY <1>1, <1>2
    <3> QED
      BY <1>1, <3>2, <3>3
  <2> HIDE DEF a, b
  <2>2. /\ Len(a \o b) = Len(a) + Len(b)
        /\ \A m \in 1..Len(a) + Len(b) : (a \o b)[m] = IF m <= Len(a) THEN a[m] ELSE b[m - Len(a)]
    BY <2>1, ConcatProperties
  <2>3. Len(a) \in Nat /\ Len(b) \in Nat
    BY <2>1, LenProperties
  <2>4. Len(a) <= Len(a \o b) /\ \A m \in 1..Len(a) : (a \o b)[m] = a[m]
    BY <2>2, <2>3
  <2> QED
    BY <2>1, <2>4 DEF a
<1>5. 0 \in T
  BY <1>1, <1>3
<1>6. ASSUME NEW j \in Nat, j \in T PROVE j + 1 \in T
  <2> SUFFICES ASSUME j + 1 <= n PROVE Same(j + 1)
    OBVIOUS
  <2>1. n - j \in 1..n /\ (n - j) - 1 = n - (j + 1) /\ j <= n /\ n - (j + 1) \in 0..n
        /\ n - j \in 0..n /\ n \in 0..n
    BY <1>1
  <2>2. Same(j)
    BY <1>6, <2>1
  <2>3. /\ Len(flat[n - (j + 1)]) <= Len(flat[n - j])
        /\ \A m \in 1..Len(flat[n - (j + 1)]) : flat[n - j][m] = flat[n - (j + 1)][m]
    BY <1>4, <2>1
  <2>4. /\ Len(flat[n - (j + 1)]) \in Nat /\ Len(flat[n - j]) \in Nat /\ Len(flat[n]) \in Nat
    BY <1>3, <2>1
  <2>5. \A m \in 1..Len(flat[n - (j + 1)]) : m \in 1..Len(flat[n - j])
    BY <2>3, <2>4
  <2> QED
    BY <2>2, <2>3, <2>4, <2>5
<1> HIDE DEF T, Same
<1>7. Nat \subseteq T
  BY <1>5, <1>6, SetInduction
<1>8. n - k \in T /\ n - k <= n /\ n - (n - k) = k
  BY <1>1, <1>7 DEF n
<1>9. Same(n - k)
  BY <1>8 DEF T
<1> QED
  BY <1>1, <1>8, <1>9 DEF Same, flat

\* How many leaves of y are before its kid k.
Before(y, k) == Len(Flat(y)[k - 1])

\* The leaves of y are at base in those of the root.
LiesAt(y, base) ==
    /\ base \in Nat
    /\ base + Len(Leaves(y)) <= Len(Leaves(file.root))
    /\ \A m \in 1..Len(Leaves(y)) : Leaves(file.root)[base + m] = Leaves(y)[m]

\* d is the number of leaves before kid k of y.
Fits(y, k, d) ==
    /\ file.type[y] = "Pages"
    /\ k >= 1 /\ k <= Len(file.kids[y]) + 1
    /\ LiesAt(y, d - Before(y, k))

\* What the kid k adds.
LEMMA BeforeNext ==
    ASSUME IsFile(file), WellFormed, NEW y \in Ids, file.type[y] = "Pages", NEW k \in Nat,
           k \in DOMAIN file.kids[y]
    PROVE  LET z == file.kids[y][k]
           IN /\ z \in Ids /\ Leaves(z) \in Seq(Ids) /\ Width(z) = Len(Leaves(z))
              /\ Before(y, k) \in Nat /\ Before(y, k + 1) = Before(y, k) + Width(z)
              /\ Before(y, k + 1) <= Len(Leaves(y))
              /\ \A m \in 1..Width(z) : Leaves(y)[Before(y, k) + m] = Leaves(z)[m]
              /\ k \in 1..Len(file.kids[y])
<1> DEFINE z == file.kids[y][k]
           a == Flat(y)[k - 1]
           b == Leaves(z)
           c == Flat(y)[k]
<1>1. SoundStorage /\ IsTree
  BY DEF WellFormed
<1>2. k \in 1..Len(file.kids[y]) /\ Len(file.kids[y]) \in Nat
  <2>1. file.kids[y] \in Seq(Ids)
    BY DEF IsFile
  <2> QED
    BY <2>1
<1>3. k - 1 \in 0..Len(file.kids[y]) /\ k \in 0..Len(file.kids[y]) /\ (k + 1) - 1 = k
  BY <1>2
<1>4. z \in Ids /\ a \in Seq(Ids) /\ c = a \o b
  BY <1>1, <1>2, <1>3, FlatIs
<1>5. b \in Seq(Ids) /\ b = LeavesStep(AllLeaves, z)
  BY <1>1, <1>4, LeavesUnfold DEF LeafTables, AllLeaves
<1>6. Width(z) = Len(b)
  <2> HIDE DEF z
  <2>1. CASE file.type[z] = "Pages"
    BY <1>4, <2>1 DEF WellFormed, Width
  <2>2. CASE file.type[z] = "Page"
    BY <1>5, <2>2 DEF Width, LeavesStep
  <2>3. CASE file.type[z] = "other"
    BY <1>5, <2>3 DEF Width, LeavesStep
  <2> QED
    BY <1>4, <2>1, <2>2, <2>3 DEF IsFile, Types
<1>7. /\ Len(c) <= Len(Leaves(y))
      /\ \A m \in 1..Len(c) : Leaves(y)[m] = c[m]
  BY <1>1, <1>3, FlatBegins
<1>8. Before(y, k) = Len(a) /\ Before(y, k + 1) = Len(c)
  BY <1>3 DEF Before
<1> HIDE DEF a, b, c
<1>9. /\ Len(a \o b) = Len(a) + Len(b)
      /\ \A m \in 1..Len(a) + Len(b) : (a \o b)[m] = IF m <= Len(a) THEN a[m] ELSE b[m - Len(a)]
  BY <1>4, <1>5, ConcatProperties
<1>10. Len(a) \in Nat /\ Len(b) \in Nat
  BY <1>4, <1>5, LenProperties
<1>11. \A m \in 1..Len(b) : Leaves(y)[Len(a) + m] = b[m]
  <2> TAKE m \in 1..Len(b)
  <2>1. Len(a) + m \in 1..Len(a) + Len(b) /\ ~(Len(a) + m <= Len(a)) /\ (Len(a) + m) - Len(a) = m
    BY <1>10
  <2>2. (a \o b)[Len(a) + m] = b[m]
    BY <1>9, <2>1
  <2> QED
    BY <1>4, <1>7, <1>9, <2>1, <2>2
<1> QED
  BY <1>2, <1>4, <1>5, <1>6, <1>7, <1>8, <1>9, <1>10, <1>11 DEF b

LEMMA BeforeFirst ==
    ASSUME IsFile(file), WellFormed, NEW y \in Ids
    PROVE  Before(y, 1) = 0
<1>1. Flat(y)[0] = << >>
  BY FlatIs DEF WellFormed
<1> QED
  BY <1>1, EmptySeq DEF Before

\* The leaves of the kid k of y are where those before it end.
LEMMA LiesBelow ==
    ASSUME IsFile(file), WellFormed, NEW y \in Ids, NEW k \in Nat, NEW d \in Int,
           Fits(y, k, d), k \in DOMAIN file.kids[y]
    PROVE  LiesAt(file.kids[y][k], d)
<1> DEFINE z == file.kids[y][k]
           base == d - Before(y, k)
<1>1. file.type[y] = "Pages" /\ LiesAt(y, base)
  BY DEF Fits
<1>2. /\ z \in Ids /\ Leaves(z) \in Seq(Ids) /\ Width(z) = Len(Leaves(z))
      /\ Before(y, k) \in Nat /\ Before(y, k + 1) = Before(y, k) + Width(z)
      /\ Before(y, k + 1) <= Len(Leaves(y))
      /\ \A m \in 1..Width(z) : Leaves(y)[Before(y, k) + m] = Leaves(z)[m]
  BY <1>1, BeforeNext
<1>3. Leaves(y) \in Seq(Ids) /\ Leaves(file.root) \in Seq(Ids)
  BY LeavesUnfold DEF LeafTables, AllLeaves, WellFormed, IsFile
<1> HIDE DEF z
<1>4. Len(Leaves(z)) \in Nat /\ Len(Leaves(y)) \in Nat /\ Len(Leaves(file.root)) \in Nat
  BY <1>2, <1>3, LenProperties
<1>5. /\ base \in Nat /\ base + Len(Leaves(y)) <= Len(Leaves(file.root))
      /\ \A m \in 1..Len(Leaves(y)) : Leaves(file.root)[base + m] = Leaves(y)[m]
  BY <1>1 DEF LiesAt
<1>6. d = base + Before(y, k)
  BY <1>2
<1> HIDE DEF base
<1>7. d \in Nat /\ d + Len(Leaves(z)) <= Len(Leaves(file.root))
  BY <1>2, <1>4, <1>5, <1>6
<1>8. \A m \in 1..Len(Leaves(z)) : Leaves(file.root)[d + m] = Leaves(z)[m]
  <2> TAKE m \in 1..Len(Leaves(z))
  <2>1. Before(y, k) + m \in 1..Len(Leaves(y)) /\ d + m = base + (Before(y, k) + m)
    BY <1>2, <1>4, <1>5, <1>6
  <2>2. Leaves(y)[Before(y, k) + m] = Leaves(z)[m]
    BY <1>2
  <2> QED
    BY <1>5, <2>1, <2>2
<1> QED
  BY <1>7, <1>8 DEF LiesAt, z

\* With true Counts a walk that gets to a kid has skipped the leaves before it.
LEMMA FitsWalked ==
    ASSUME IsFile(file), WellFormed, NEW y \in Ids, NEW k \in Nat, NEW d \in Int,
           <<y, k, d>> \in Walked
    PROVE  Fits(y, k, d)
<1> DEFINE S == {p \in Places : Fits(p[1], p[2], p[3])}
<1>1. <<file.root, 1, 0>> \in S
  <2>1. file.root \in Ids /\ Leaves(file.root) \in Seq(Ids)
    BY LeavesUnfold DEF LeafTables, AllLeaves, WellFormed, IsFile
  <2>2. Len(Leaves(file.root)) \in Nat /\ Len(file.kids[file.root]) \in Nat
    BY <2>1, LenProperties DEF IsFile
  <2>3. \A m \in 1..Len(Leaves(file.root)) : 0 + m = m
    OBVIOUS
  <2>4. LiesAt(file.root, 0)
    BY <2>2, <2>3 DEF LiesAt
  <2>5. 0 - Before(file.root, 1) = 0
    BY <2>1, BeforeFirst
  <2>6. Fits(file.root, 1, 0)
    <3> HIDE DEF LiesAt
    <3> QED
      BY <2>2, <2>4, <2>5 DEF Fits, WellFormed
  <2> HIDE DEF Fits
  <2> QED
    BY <2>1, <2>6 DEF Places
<1>2. ASSUME NEW x \in Ids, NEW i \in Nat, NEW e \in Int, <<x, i, e>> \in S,
             i \in DOMAIN file.kids[x]
      PROVE  /\ <<x, i + 1, e + Width(file.kids[x][i])>> \in S
             /\ file.type[file.kids[x][i]] = "Pages" => <<file.kids[x][i], 1, e>> \in S
  <2> DEFINE z == file.kids[x][i]
  <2>1. Fits(x, i, e)
    <3> HIDE DEF Fits
    <3> QED
      BY <1>2
  <2>2. file.type[x] = "Pages" /\ LiesAt(x, e - Before(x, i))
    BY <2>1 DEF Fits
  <2>3. /\ z \in Ids /\ Leaves(z) \in Seq(Ids) /\ Width(z) = Len(Leaves(z))
        /\ Before(x, i) \in Nat /\ Before(x, i + 1) = Before(x, i) + Width(z)
        /\ i \in 1..Len(file.kids[x])
    BY <1>2, <2>2, BeforeNext
  <2>4. LiesAt(z, e)
    BY <1>2, <2>1, LiesBelow
  <2>5. z \in Ids => /\ Before(z, 1) = 0
                     /\ Len(file.kids[z]) \in Nat /\ Len(file.kids[x]) \in Nat
    BY BeforeFirst, LenProperties DEF IsFile
  <2> HIDE DEF z
  <2>6. Width(z) \in Nat
    BY <2>3, LenProperties
  <2>7. file.type[z] = "Pages" => Fits(z, 1, e)
    <3>1. e - Before(z, 1) = e
      BY <2>3, <2>5
    <3> HIDE DEF LiesAt
    <3> QED
      BY <2>3, <2>4, <2>5, <3>1 DEF Fits
  <2>8. Fits(x, i + 1, e + Width(z))
    <3>1. (e + Width(z)) - Before(x, i + 1) = e - Before(x, i)
      BY <2>3, <2>6
    <3>2. i + 1 >= 1 /\ i + 1 <= Len(file.kids[x]) + 1
      BY <2>3, <2>5
    <3> HIDE DEF LiesAt
    <3> QED
      BY <2>2, <3>1, <3>2 DEF Fits
  <2>9. <<x, i + 1, e + Width(z)>> \in Places /\ <<z, 1, e>> \in Places
    BY <2>3, <2>6 DEF Places
  <2> HIDE DEF Fits
  <2>10. /\ <<x, i + 1, e + Width(z)>> \in S
         /\ file.type[z] = "Pages" => <<z, 1, e>> \in S
    BY <2>7, <2>8, <2>9
  <2> QED
    BY <2>10 DEF z
<1>3. S \in SUBSET Places
  OBVIOUS
<1> HIDE DEF S
<1>4. Followed(S)
  BY <1>1, <1>2 DEF Followed
<1>5. <<y, k, d>> \in S
  BY <1>3, <1>4, WalkedIn
<1> HIDE DEF Fits
<1> QED
  BY <1>5 DEF S

-----------------------------------------------------------------------------
(* The i-th page is the i-th leaf. *)

PageTotal == Len(Leaves(file.root))

LeavesFound(pages) ==
    \A i \in DOMAIN pages : i <= PageTotal /\ pages[i] = Leaves(file.root)[i]

\* The page that n others come before in y is below y, or below the kid k of y or a
\* later one.
Entering(y, n) ==
    /\ y \in Ids
    /\ file.type[y] = "Pages"
    /\ n >= 0 /\ n < Len(Leaves(y))

Searching(y, k, n) ==
    /\ file.type[y] = "Pages"
    /\ n >= 0 /\ n < Len(Leaves(y)) - Before(y, k)

\* Where the work on pages and the work on an outline may be.
PhasesOK ==
    /\ file.use = "pages" => phase # "outline"
    /\ file.use = "outline" => phase \in {"outline"} \cup Stops

\* The walk is on the way to its page, and the pages before are the leaves.
OrderOK ==
    file.use = "pages" /\ WellFormed =>
        /\ phase \notin {"panicked", "endless"}
        /\ page <= PageTotal
        /\ LeavesFound(found)
        /\ phase = "enter" => Entering(node, num)
        /\ phase = "kids" => Searching(node, kid, num)
        /\ phase = "done" => page = PageTotal

LEMMA StepPhases == Inv /\ PhasesOK /\ [Next]_vars => PhasesOK'
<1> SUFFICES ASSUME Inv, PhasesOK, [Next]_vars PROVE PhasesOK'
  OBVIOUS
<1>1. file' = file /\ file.use \in {"pages", "outline"}
  BY GivenKept DEF given, Inv, ShapesOK, IsFile
<1>2. CASE UNCHANGED vars
  BY <1>2 DEF vars, PhasesOK
<1>3. CASE NextPage \/ Enter \/ Look \/ Inherit \/ Text
  <2>1. phase \notin {"outline"} \cup Stops
    BY <1>3 DEF NextPage, Enter, Look, Inherit, Text, Stops
  <2>2. file.use = "pages"
    BY <1>1, <2>1 DEF PhasesOK
  <2>3. phase' # "outline"
    <3>1. CASE NextPage \/ Enter \/ Inherit \/ Text
      BY <3>1, BrokenStops DEF NextPage, Enter, Give, Inherit, Cache, Text
    <3>2. CASE Look
      <4>1. \A k : Kid(k) => phase' # "outline"
        BY <3>2 DEF Kid, Descend, Skip, Give, Look
      <4> QED
        BY <3>2, <4>1, BrokenStops DEF Look, Give
    <3> QED
      BY <1>3, <3>1, <3>2
  <2> QED
    BY <1>1, <2>2, <2>3 DEF PhasesOK
<1>4. CASE LastPage \/ ReuseBuffer
  <2>1. phase' \in Stops
    BY <1>4, BrokenStops DEF LastPage, ReuseBuffer, Stops
  <2> QED
    BY <1>1, <2>1 DEF PhasesOK, Stops
<1>5. CASE StartOutline \/ Child
  <2>1. phase = "outline" /\ phase' \in {"outline"} \cup Stops
    <3>1. phase = "outline"
      BY <1>5 DEF StartOutline, Child
    <3>2. \A x : Call(x) => phase' \in {phase, "panicked"}
      BY DEF Call
    <3> QED
      BY <1>5, <3>1, <3>2, BrokenStops DEF StartOutline, Child, Stops
  <2>2. file.use = "outline"
    BY <1>1, <2>1 DEF PhasesOK
  <2> QED
    BY <1>1, <2>1, <2>2 DEF PhasesOK
<1> QED
  BY <1>2, <1>3, <1>4, <1>5 DEF Next

LEMMA TreeKept ==
    ASSUME UNCHANGED given
    PROVE  /\ WellFormed' = WellFormed /\ PageTotal' = PageTotal
           /\ \A y : Leaves(y)' = Leaves(y)
           /\ \A y, n : Entering(y, n)' = Entering(y, n)
           /\ \A y, k, n : Searching(y, k, n)' = Searching(y, k, n)
           /\ \A pages : LeavesFound(pages)' = LeavesFound(pages)
<1>1. file' = file /\ where' = where
  BY DEF given
<1>2. \A y : Leaves(y)' = Leaves(y)
  BY <1>1 DEF Leaves
<1>3. IsTree' = IsTree /\ SoundStorage' = SoundStorage
  BY <1>1 DEF IsTree, Acyclic, KidLinks, SoundStorage, Go
<1> HIDE DEF Leaves
<1>4. AllLeaves' = AllLeaves
  BY <1>2 DEF AllLeaves
<1>5. \A y, k : Before(y, k)' = Before(y, k)
  BY <1>1, <1>4 DEF Before, Flat, KidLeaves
<1>6. WellFormed' = WellFormed /\ PageTotal' = PageTotal
  BY <1>1, <1>2, <1>3 DEF WellFormed, PageTotal
<1>7. \A y, n : Entering(y, n)' = Entering(y, n)
  BY <1>1, <1>2 DEF Entering
<1>8. \A y, k, n : Searching(y, k, n)' = Searching(y, k, n)
  BY <1>1, <1>2, <1>5 DEF Searching
<1>9. \A pages : LeavesFound(pages)' = LeavesFound(pages)
  BY <1>1, <1>2, <1>6 DEF LeavesFound
<1> QED
  BY <1>2, <1>6, <1>7, <1>8, <1>9

\* In a well-formed file every reference leads to its object, and nothing breaks.
LEMMA AllSound ==
    ASSUME SoundStorage, NEW x \in MaybeIds
    PROVE  Go(x) = x /\ Sound(x)
BY IdsAssumption DEF SoundStorage, Go, Sound, MaybeIds, None, Panic, Endless

LEMMA LeavesTyped ==
    ASSUME IsFile(file), WellFormed
    PROVE  /\ \A y \in Ids : Leaves(y) \in Seq(Ids) /\ Len(Leaves(y)) \in Nat
           /\ PageTotal \in Nat /\ file.root \in Ids
<1>1. \A y \in Ids : Leaves(y) \in Seq(Ids)
  BY LeavesUnfold DEF LeafTables, AllLeaves, WellFormed
<1>2. \A y \in Ids : Len(Leaves(y)) \in Nat
  BY <1>1, LenProperties
<1> QED
  BY <1>1, <1>2 DEF PageTotal, IsFile

LEMMA NextPageOrder == Inv /\ OrderOK /\ NextPage => OrderOK'
<1> SUFFICES ASSUME Inv, OrderOK, NextPage, file.use = "pages", WellFormed
             PROVE  OrderOK'
  BY TreeKept DEF NextPage, OrderOK, given
<1>1. /\ phase' = "enter" /\ page' = page + 1 /\ num' = page /\ node' = Go(file.root)
      /\ UNCHANGED <<given, found>> /\ file' = file /\ page < NumPage
  BY DEF NextPage, given
<1>2. IsFile(file) /\ page \in Nat /\ file.root \in Ids
  BY DEF Inv, ShapesOK, IsFile
<1>3. Go(file.root) = file.root
  BY <1>2, AllSound DEF WellFormed, MaybeIds
<1>4. NumPage = PageTotal /\ file.type[file.root] = "Pages" /\ PageTotal \in Nat
  <2>1. file.root # None
    BY <1>2, IdsAssumption DEF None
  <2> QED
    BY <1>2, <1>3, <2>1, LeavesTyped DEF NumPage, WellFormed, PageTotal
<1>5. page' <= PageTotal /\ Entering(node', num')
  BY <1>1, <1>2, <1>3, <1>4 DEF Entering, PageTotal
<1>6. LeavesFound(found')
  BY <1>1 DEF OrderOK
<1>7. LeavesFound(found)' /\ Entering(node, num)' /\ PageTotal' = PageTotal
  BY <1>1, <1>5, <1>6, TreeKept
<1> QED
  BY <1>1, <1>5, <1>7 DEF OrderOK

LEMMA EnterOrder == Inv /\ OrderOK /\ Enter => OrderOK'
<1> SUFFICES ASSUME Inv, OrderOK, Enter, file.use = "pages", WellFormed
             PROVE  OrderOK'
  BY TreeKept DEF Enter, OrderOK, given
<1>1. phase = "enter" /\ UNCHANGED <<given, page>>
  BY DEF Enter
<1>2. IsFile(file) /\ num \in Int
  BY DEF Inv, ShapesOK, TypeOK
<1>3. Entering(node, num)
  BY <1>1 DEF OrderOK
<1>4. node \in Ids /\ file.type[node] = "Pages" /\ file.count[node] = Len(Leaves(node))
  BY <1>3 DEF Entering, WellFormed
<1>5. Type(node) = "Pages" /\ ~(file.count[node] < num)
  <2>1. node # None /\ Len(Leaves(node)) \in Nat
    BY <1>2, <1>4, IdsAssumption, LeavesTyped DEF None
  <2> QED
    BY <1>2, <1>3, <1>4, <2>1 DEF Type, Entering
<1>6. phase' = "kids" /\ kid' = 1 /\ UNCHANGED <<node, num, found>>
  BY <1>5 DEF Enter
<1>7. Searching(node', kid', num')
  <2>1. Before(node, 1) = 0 /\ Len(Leaves(node)) \in Nat
    BY <1>2, <1>4, BeforeFirst, LeavesTyped
  <2> QED
    BY <1>3, <1>6, <2>1 DEF Searching, Entering
<1>8. LeavesFound(found)' /\ Searching(node, kid, num)' /\ PageTotal' = PageTotal
  BY <1>1, <1>6, <1>7, TreeKept DEF OrderOK
<1> QED
  BY <1>1, <1>6, <1>8 DEF OrderOK

\* The page found is the leaf whose number is that of the page.
LEMMA FoundLeaf ==
    ASSUME Inv, WalkOK, OrderOK, file.use = "pages", WellFormed, phase = "kids",
           kid \in DOMAIN file.kids[node], file.type[file.kids[node][kid]] = "Page",
           num = 0
    PROVE  /\ Len(found) + 1 <= PageTotal
           /\ Leaves(file.root)[Len(found) + 1] = file.kids[node][kid]
<1> DEFINE z == file.kids[node][kid]
<1>1. IsFile(file) /\ node \in Ids /\ kid \in Nat /\ page \in Nat /\ page - 1 \in Int
  BY DEF Inv, ShapesOK, TypeOK
<1>2. Len(found) = page - 1
  BY DEF Inv, PagesCounted
<1>3. <<node, kid, page - 1>> \in Walked
  <2>1. page - 1 - num = page - 1
    BY <1>1
  <2> QED
    BY <2>1 DEF WalkOK, WellFormed
<1>4. Fits(node, kid, page - 1)
  BY <1>1, <1>3, FitsWalked
<1>5. LiesAt(z, page - 1)
  BY <1>1, <1>4, LiesBelow
<1>6. z \in Ids
  <2>1. file.kids[node] \in Seq(Ids)
    BY <1>1 DEF IsFile
  <2> QED
    BY <2>1
<1> HIDE DEF z
<1>7. Leaves(z) = <<z>>
  BY <1>1, <1>6, LeavesUnfold DEF WellFormed, LeavesStep, z
<1>8. Len(Leaves(z)) = 1 /\ Leaves(z)[1] = z
  BY <1>7
<1>9. (page - 1) + 1 <= PageTotal /\ Leaves(file.root)[(page - 1) + 1] = z
  <2>1. 1 \in 1..Len(Leaves(z))
    BY <1>8
  <2> QED
    BY <1>5, <1>8, <2>1 DEF LiesAt, PageTotal
<1> QED
  BY <1>2, <1>9 DEF z

LEMMA LookOrder == Inv /\ WalkOK /\ OrderOK /\ Look => OrderOK'
<1> SUFFICES ASSUME Inv, WalkOK, OrderOK, Look, file.use = "pages", WellFormed
             PROVE  OrderOK'
  BY TreeKept DEF Look, OrderOK, given
<1> DEFINE kids == file.kids[node]
           z == kids[kid]
<1>1. phase = "kids" /\ UNCHANGED <<given, page>>
  BY DEF Look
<1>2. /\ node \in Ids /\ kid \in Nat \ {0} /\ kids \in Seq(Ids)
      /\ num \in Int /\ page \in Nat /\ IsFile(file)
  BY <1>1 DEF Inv, ShapesOK, TypeOK, IsFile
<1>3. Searching(node, kid, num) /\ file.type[node] = "Pages"
  BY <1>1 DEF OrderOK, Searching
<1>4. kid \in DOMAIN kids
  <2> SUFFICES ASSUME kid > Len(kids) PROVE FALSE
    BY <1>2
  <2>1. <<node, kid, page - 1 - num>> \in Walked /\ page - 1 - num \in Int
    BY <1>1, <1>2 DEF WalkOK, WellFormed
  <2>2. kid <= Len(kids) + 1
    BY <1>2, <2>1, FitsWalked DEF Fits
  <2>3. kid - 1 = Len(kids)
    BY <1>2, <2>2
  <2>4. Before(node, kid) = Len(Leaves(node))
    BY <1>2, <1>3, <2>3, FlatIs DEF Before, WellFormed
  <2>5. Len(Leaves(node)) \in Nat
    BY <1>2, LeavesTyped
  <2> QED
    BY <1>2, <1>3, <2>4, <2>5 DEF Searching
<1>5. z \in Ids
  BY <1>2, <1>4
<1>6. /\ Leaves(z) \in Seq(Ids) /\ Width(z) = Len(Leaves(z))
      /\ Before(node, kid) \in Nat /\ Before(node, kid + 1) = Before(node, kid) + Width(z)
  BY <1>2, <1>3, <1>4, BeforeNext
<1>7. Kid(z)
  <2>1. ~(kid > Len(kids))
    BY <1>2, <1>4
  <2> HIDE DEF z
  <2>2. Go(z) = z /\ Sound(z)
    BY <1>5, AllSound DEF WellFormed, MaybeIds
  <2> QED
    BY <2>1, <2>2 DEF Look, z
<1>8. num >= 0 /\ num < Len(Leaves(node)) - Before(node, kid) /\ Len(Leaves(node)) \in Nat
      /\ Width(z) \in Nat
  BY <1>2, <1>3, <1>5, <1>6, LeavesTyped DEF Searching
<1>9. LeavesFound(found) /\ page <= PageTotal
  BY DEF OrderOK
<1>10. ASSUME Skip(Width(z)), Width(z) <= num PROVE OrderOK'
  <2>1. kid' = kid + 1 /\ num' = num - Width(z) /\ UNCHANGED <<phase, node, found>>
    BY <1>10 DEF Skip
  <2> HIDE DEF z
  <2>2. Searching(node', kid', num')
    BY <1>2, <1>3, <1>6, <1>8, <1>10, <2>1 DEF Searching
  <2>3. LeavesFound(found)' /\ Searching(node, kid, num)' /\ PageTotal' = PageTotal
    BY <1>1, <1>9, <2>1, <2>2, TreeKept
  <2> QED
    BY <1>1, <1>9, <2>1, <2>3 DEF OrderOK
<1>11. file.type[z] \in {"Pages", "Page", "other"} /\ Type(z) = file.type[z]
  <2> HIDE DEF z
  <2> QED
    BY <1>2, <1>5, IdsAssumption DEF IsFile, Types, Type, None
<1>12. CASE file.type[z] = "Pages"
  <2>1. file.count[z] = Width(z) /\ file.count[z] = Len(Leaves(z))
    BY <1>6, <1>12 DEF Width
  <2>2. CASE num < file.count[z]
    <3>1. phase' = "enter" /\ node' = z /\ UNCHANGED <<num, kid, found>>
      BY <1>7, <1>11, <1>12, <2>2 DEF Kid, Descend
    <3> HIDE DEF z
    <3>2. Entering(node', num')
      BY <1>5, <1>8, <1>12, <2>1, <2>2, <3>1 DEF Entering
    <3>3. LeavesFound(found)' /\ Entering(node, num)' /\ PageTotal' = PageTotal
      BY <1>1, <1>9, <3>1, <3>2, TreeKept
    <3> QED
      BY <1>1, <1>9, <3>1, <3>3 DEF OrderOK
  <2>3. CASE ~(num < file.count[z])
    <3> HIDE DEF z
    <3> QED
      BY <1>2, <1>7, <1>8, <1>10, <1>11, <1>12, <2>1, <2>3 DEF Kid
  <2> QED
    BY <2>2, <2>3
<1>13. CASE file.type[z] = "Page"
  <2>1. CASE num = 0
    <3>1. phase' = "inherit" /\ found' = Append(found, z)
      BY <1>7, <1>11, <1>13, <2>1 DEF Kid, Give
    <3>2. Len(found) + 1 <= PageTotal /\ Leaves(file.root)[Len(found) + 1] = z
      BY <1>1, <1>4, <1>13, <2>1, FoundLeaf
    <3> HIDE DEF z
    <3>3. found \in Seq(MaybeIds) /\ z \in MaybeIds
      BY <1>5 DEF Inv, ShapesOK, MaybeIds
    <3>4. /\ DOMAIN found' = 1..Len(found) + 1 /\ DOMAIN found = 1..Len(found)
          /\ Len(found) \in Nat
          /\ \A i \in 1..Len(found) : found'[i] = found[i]
          /\ found'[Len(found) + 1] = z
      BY <3>1, <3>3, AppendProperties
    <3>5. \A i \in 1..Len(found) + 1 : i \in 1..Len(found) \/ i = Len(found) + 1
      BY <3>4
    <3>6. LeavesFound(found')
      BY <1>9, <3>2, <3>4, <3>5 DEF LeavesFound
    <3>7. LeavesFound(found)' /\ PageTotal' = PageTotal
      BY <1>1, <3>6, TreeKept
    <3> QED
      BY <1>1, <1>9, <3>1, <3>7 DEF OrderOK
  <2>2. CASE num # 0
    <3>1. Width(z) = 1
      BY <1>13 DEF Width
    <3> HIDE DEF z
    <3> QED
      BY <1>2, <1>7, <1>8, <1>10, <1>11, <1>13, <2>2, <3>1 DEF Kid
  <2> QED
    BY <2>1, <2>2
<1>14. CASE file.type[z] = "other"
  <2>1. Width(z) = 0
    BY <1>14 DEF Width
  <2> HIDE DEF z
  <2> QED
    BY <1>2, <1>7, <1>8, <1>10, <1>11, <1>14, <2>1 DEF Kid
<1> QED
  BY <1>11, <1>12, <1>13, <1>14

LEMMA StepOrder == Inv /\ WalkOK /\ PhasesOK /\ OrderOK /\ [Next]_vars => OrderOK'
<1> SUFFICES ASSUME Inv, WalkOK, PhasesOK, OrderOK, [Next]_vars,
                    file.use = "pages", WellFormed
             PROVE  OrderOK'
  BY GivenKept, TreeKept DEF OrderOK, given
<1>1. UNCHANGED given /\ phase # "outline" /\ IsFile(file)
  BY GivenKept DEF PhasesOK, Inv, ShapesOK
<1>2. ASSUME UNCHANGED <<page, found>>, phase' \in {"inherit", "text", "next", "failed"}
      PROVE  OrderOK'
  BY <1>1, <1>2, TreeKept DEF OrderOK
<1>3. CASE UNCHANGED vars
  <2>1. /\ LeavesFound(found)' = LeavesFound(found) /\ PageTotal' = PageTotal
        /\ Entering(node, num)' = Entering(node, num)
        /\ Searching(node, kid, num)' = Searching(node, kid, num)
    BY <1>1, <1>3, TreeKept DEF vars
  <2> QED
    BY <1>3, <2>1 DEF OrderOK, vars
<1>4. CASE LastPage
  <2>1. file.root \in MaybeIds /\ file.root # None
    BY <1>1, IdsAssumption DEF IsFile, MaybeIds, None
  <2>2. Go(file.root) = file.root /\ Sound(file.root)
    BY <2>1, AllSound DEF WellFormed
  <2>3. phase' = "done" /\ page >= PageTotal /\ UNCHANGED <<page, found>>
    <3>1. NumPage = PageTotal
      BY <2>1, <2>2, <1>1 DEF NumPage, PageTotal, WellFormed, IsFile
    <3> QED
      BY <1>4, <2>2, <3>1 DEF LastPage
  <2>4. page <= PageTotal /\ page \in Nat /\ PageTotal \in Nat /\ LeavesFound(found)
    BY <1>1, LeavesTyped DEF OrderOK, Inv, ShapesOK
  <2>5. page' = PageTotal
    BY <2>3, <2>4
  <2>6. LeavesFound(found)' /\ PageTotal' = PageTotal
    BY <1>1, <2>3, <2>4, TreeKept
  <2> QED
    BY <2>3, <2>4, <2>5, <2>6 DEF OrderOK
<1>5. CASE ReuseBuffer
  <2>1. UNCHANGED <<phase, page, found>> /\ phase = "done"
    BY <1>5 DEF ReuseBuffer
  <2>2. LeavesFound(found)' = LeavesFound(found) /\ PageTotal' = PageTotal
    BY <1>1, <2>1, TreeKept
  <2> QED
    BY <2>1, <2>2 DEF OrderOK
<1>6. CASE Inherit
  <2>1. node # None => file.parent[node] \in MaybeIds
    BY <1>1 DEF Inv, TypeOK, IsFile, MaybeIds
  <2>2. node # None => Sound(file.parent[node])
    BY <2>1, AllSound DEF WellFormed
  <2>3. phase' \in {"inherit", "text"} /\ UNCHANGED <<page, found>>
    BY <1>6, <2>2 DEF Inherit, Cache
  <2> QED
    BY <1>2, <2>3
<1>7. CASE Text
  <2>1. phase' \in {"next", "failed"} /\ UNCHANGED <<page, found>>
    BY <1>7 DEF Text, walk
  <2> QED
    BY <1>2, <2>1
<1>8. CASE StartOutline \/ Child
  BY <1>1, <1>8 DEF StartOutline, Child
<1> QED
  BY <1>3, <1>4, <1>5, <1>6, <1>7, <1>8, NextPageOrder, EnterOrder, LookOrder DEF Next

-----------------------------------------------------------------------------
(* The entries of an outline. *)

\* One step of EntriesFrom: the entries from y, when known has those from its first
\* child and from the next.
EntriesStep(known, y) ==
    IF y = None THEN << >> ELSE <<y>> \o known[file.first[y]] \o known[file.next[y]]

EntryTables == [MaybeIds -> Seq(Ids)]

LEMMA EntriesStepTyped ==
    ASSUME IsFile(file), NEW known \in EntryTables, NEW y \in MaybeIds
    PROVE  EntriesStep(known, y) \in Seq(Ids)
<1>1. CASE y = None
  BY <1>1, EmptySeq DEF EntriesStep
<1>2. CASE y # None
  <2> DEFINE a == known[file.first[y]]
             b == known[file.next[y]]
  <2>1. file.first[y] \in MaybeIds /\ file.next[y] \in MaybeIds /\ y \in Ids
    BY <1>2 DEF IsFile, MaybeIds
  <2>2. a \in Seq(Ids) /\ b \in Seq(Ids) /\ <<y>> \in Seq(Ids)
    BY <2>1 DEF EntryTables
  <2> HIDE DEF a, b
  <2>3. <<y>> \o a \in Seq(Ids)
    BY <2>2, ConcatProperties
  <2>4. (<<y>> \o a) \o b \in Seq(Ids)
    BY <2>2, <2>3, ConcatProperties
  <2> QED
    BY <1>2, <2>4 DEF EntriesStep, a, b
<1> QED
  BY <1>1, <1>2

\* The table that EntriesFrom builds.
LEMMA EntriesTable ==
    ASSUME IsFile(file)
    PROVE  \E f : /\ \A n \in 0..N : f[n] \in EntryTables
                  /\ \A n \in 1..N : \A y \in MaybeIds :
                        f[n][y] = EntriesStep(f[n - 1], y)
                  /\ \A n \in 0..N : f[n][None] = << >>
                  /\ \A y : EntriesFrom(y) = f[N][y]
<1> DEFINE Turn(known) == [y \in MaybeIds |-> EntriesStep(known, y)]
           base == [y \in MaybeIds |-> << >>]
           Rec(r) == r = [n \in 0..N |-> IF n = 0 THEN base ELSE Turn(r[n - 1])]
           Def(r) == r = [n \in 0..N |->
                            [y \in Ids \cup {None} |->
                               IF y = None \/ n = 0 THEN << >>
                               ELSE <<y>> \o r[n - 1][file.first[y]] \o r[n - 1][file.next[y]]]]
           step == [n \in 1..N |-> [known \in EntryTables |-> Turn(known)]]
<1>1. base \in EntryTables
  BY EmptySeq DEF EntryTables
<1>2. \A known \in EntryTables : Turn(known) \in EntryTables
  BY EntriesStepTyped DEF EntryTables
<1>3. \A r : Def(r) <=> Rec(r)
  <2> TAKE r
  <2> DEFINE D == [n \in 0..N |->
                      [y \in Ids \cup {None} |->
                         IF y = None \/ n = 0 THEN << >>
                         ELSE <<y>> \o r[n - 1][file.first[y]] \o r[n - 1][file.next[y]]]]
             E == [n \in 0..N |-> IF n = 0 THEN base ELSE Turn(r[n - 1])]
  <2>1. ASSUME NEW n \in 0..N PROVE D[n] = E[n]
    <3>1. CASE n = 0
      BY <3>1 DEF MaybeIds
    <3>2. CASE n # 0
      BY <3>2 DEF EntriesStep, MaybeIds
    <3> QED
      BY <3>1, <3>2
  <2>2. D = E
    BY <2>1
  <2> QED
    BY <2>2
<1>4. base[None] = << >> /\ \A known : Turn(known)[None] = << >>
  BY DEF EntriesStep, MaybeIds
<1> HIDE DEF base, Turn
<1>5. step \in [1..N -> [EntryTables -> EntryTables]]
  BY <1>2
<1>6. PICK g : TakesSteps(g, N, EntryTables, base, step)
  <2> HIDE DEF step
  <2> QED
    BY <1>1, <1>5, NType, RecursionExists
<1>7. Rec(g)
  <2>1. /\ g \in [0..N -> EntryTables] /\ g[0] = base
        /\ \A n \in 1..N : g[n] = step[n][g[n - 1]]
    BY <1>6 DEF TakesSteps
  <2>2. \A n \in 0..N : n # 0 => n \in 1..N /\ n - 1 \in 0..N
    BY NType
  <2> QED
    BY <2>1, <2>2
<1> DEFINE r == CHOOSE h : Def(h)
<1>8. Def(r)
  <2> HIDE DEF Def, Rec
  <2> QED
    BY <1>3, <1>7
<1>9. \A y : EntriesFrom(y) = r[N][y]
  BY DEF EntriesFrom, N
<1>10. Rec(r)
  <2> HIDE DEF Def, Rec, r
  <2> QED
    BY <1>3, <1>8
<1> HIDE DEF r
<1>11. r[0] = base /\ \A n \in 1..N : r[n] = Turn(r[n - 1])
  <2>1. \A n \in 0..N : r[n] = IF n = 0 THEN base ELSE Turn(r[n - 1])
    BY <1>10
  <2>2. 0 \in 0..N /\ \A n \in 1..N : n \in 0..N /\ n # 0
    BY NType
  <2> QED
    BY <2>1, <2>2
<1>12. \A n \in 0..N : r[n] \in EntryTables
  <2>1. r[0] \in EntryTables /\ \A n \in 1..N : r[n - 1] \in EntryTables => r[n] \in EntryTables
    BY <1>1, <1>2, <1>11
  <2> QED
    BY <2>1, NType, RecursionTyped
<1>13. \A n \in 0..N : r[n][None] = << >>
  <2>1. \A n \in 0..N : n = 0 \/ n \in 1..N
    BY NType
  <2> QED
    BY <1>4, <1>11, <2>1
<1>14. \A n \in 1..N : \A y \in MaybeIds : r[n][y] = EntriesStep(r[n - 1], y)
  BY <1>11 DEF Turn
<1> QED
  BY <1>9, <1>12, <1>13, <1>14

AllEntries == [y \in MaybeIds |-> EntriesFrom(y)]

\* In an outline in which each entry is named once: an entry, those below it, those
\* after it.  As with the leaves, there are enough steps for all of them.
LEMMA EntriesUnfold ==
    ASSUME IsFile(file), IsOutline
    PROVE  /\ AllEntries \in EntryTables /\ EntriesFrom(None) = << >>
           /\ \A y \in MaybeIds : EntriesFrom(y) = EntriesStep(AllEntries, y)
<1>1. PICK f : /\ \A n \in 0..N : f[n] \in EntryTables
               /\ \A n \in 1..N : \A y \in MaybeIds : f[n][y] = EntriesStep(f[n - 1], y)
               /\ \A n \in 0..N : f[n][None] = << >>
               /\ \A y : EntriesFrom(y) = f[N][y]
  BY EntriesTable
<1>2. PICK h : IsLevels(h, OutlineLinks) /\ h[N] = Ids
  BY Levels DEF IsOutline
<1>3. AllEntries = f[N]
  <2>1. f[N] \in EntryTables
    BY <1>1, NType
  <2> QED
    BY <1>1, <2>1 DEF AllEntries, EntryTables
<1>4. \A n \in 0..N : h[n] \subseteq Ids
  BY <1>2 DEF IsLevels
<1> DEFINE Settled(n) == \A y \in h[n] : \A m \in n..N : f[m][y] = f[n][y]
<1>5. ASSUME NEW n \in 1..N, NEW y \in h[n], NEW z \in {file.first[y], file.next[y]}
      PROVE  z \in h[n - 1] \cup {None}
  <2>1. y \in Ids /\ z \in MaybeIds
    BY <1>4, NType DEF IsFile, MaybeIds
  <2>2. z # None => <<y, z>> \in OutlineLinks
    BY <2>1 DEF OutlineLinks, MaybeIds
  <2>3. h[n] = {x \in Ids : \A w \in Ids : <<x, w>> \in OutlineLinks => w \in h[n - 1]}
    BY <1>2 DEF IsLevels
  <2> QED
    BY <2>1, <2>2, <2>3 DEF MaybeIds
<1>6. ASSUME NEW n \in 1..N, NEW y \in h[n], NEW a, NEW b, a[None] = b[None],
             \A z \in h[n - 1] : a[z] = b[z]
      PROVE  EntriesStep(a, y) = EntriesStep(b, y)
  <2>1. a[file.first[y]] = b[file.first[y]] /\ a[file.next[y]] = b[file.next[y]]
    BY <1>5, <1>6
  <2> QED
    BY <2>1 DEF EntriesStep
<1>7. \A n \in 0..N : Settled(n)
  <2> DEFINE T == {n \in Nat : n <= N => Settled(n)}
  <2>1. 0 \in T
    BY <1>2 DEF IsLevels
  <2>2. ASSUME NEW n \in Nat, n \in T PROVE n + 1 \in T
    <3> SUFFICES ASSUME n + 1 <= N, NEW y \in h[n + 1], NEW m \in n + 1..N
                 PROVE  f[m][y] = f[n + 1][y]
      OBVIOUS
    <3>1. /\ n + 1 \in 1..N /\ m \in 1..N /\ (n + 1) - 1 = n
          /\ m - 1 \in n..N /\ m - 1 \in 0..N /\ n \in 0..N /\ n + 1 \in 0..N /\ n <= N
      BY NType
    <3>2. y \in MaybeIds
      BY <1>4, <3>1 DEF MaybeIds
    <3>3. \A z \in h[n] : f[m - 1][z] = f[n][z]
      BY <2>2, <3>1
    <3>4. f[m - 1][None] = f[n][None]
      BY <1>1, <3>1
    <3>5. EntriesStep(f[m - 1], y) = EntriesStep(f[n], y)
      BY <1>6, <3>1, <3>3, <3>4
    <3> QED
      BY <1>1, <3>1, <3>2, <3>5
  <2> HIDE DEF T, Settled
  <2>3. Nat \subseteq T
    BY <2>1, <2>2, SetInduction
  <2> QED
    BY <2>3, NType DEF T
<1>8. EntriesFrom(None) = << >>
  BY <1>1, NType
<1>9. ASSUME NEW y \in Ids PROVE EntriesFrom(y) = EntriesStep(AllEntries, y)
  <2>1. N \in 1..N /\ N - 1 \in 0..N /\ N \in 0..N
    <3>1. N # 0
      BY <1>2, <1>9 DEF IsLevels
    <3> QED
      BY <3>1, NType
  <2>2. \A z \in h[N - 1] : f[N][z] = f[N - 1][z]
    <3>1. Settled(N - 1) /\ N \in (N - 1)..N
      BY <1>7, <2>1
    <3> QED
      BY <3>1
  <2>3. f[N][None] = f[N - 1][None]
    BY <1>1, <2>1
  <2>4. EntriesStep(f[N], y) = EntriesStep(f[N - 1], y)
    BY <1>2, <1>6, <2>1, <2>2, <2>3
  <2> QED
    BY <1>1, <1>3, <2>1, <2>4 DEF MaybeIds
<1>10. EntriesStep(AllEntries, None) = << >>
  BY DEF EntriesStep
<1> QED
  BY <1>1, <1>3, <1>8, <1>9, <1>10, NType DEF MaybeIds

Calls == Seq([entry : Ids, child : MaybeIds])

\* What the calls cs have still to add: rest[i] is it once call i is done with its
\* children, that is, the entries after it and what the calls before it have.
Awaits(rest, cs) ==
    /\ rest \in [1..Len(cs) -> Seq(Ids)]
    /\ rest[1] = << >>
    /\ \A i \in 2..Len(cs) :
          rest[i] = EntriesFrom(file.next[cs[i].entry]) \o rest[i - 1]

\* The entries in ts and those that the calls cs have still to add are all.
Completes(cs, ts) ==
    \E rest : /\ Awaits(rest, cs)
              /\ ts \o (EntriesFrom(cs[Len(cs)].child) \o rest[Len(cs)]) = Preorder

OutlineOK ==
    file.use = "outline" /\ IsOutline =>
        /\ phase = "outline" /\ calls # << >> => Completes(calls, titles)
        /\ phase = "done" => titles = Preorder

LEMMA OutlineKept ==
    ASSUME UNCHANGED given
    PROVE  /\ IsOutline' = IsOutline /\ Preorder' = Preorder
           /\ \A cs, ts : Completes(cs, ts)' = Completes(cs, ts)
<1>1. file' = file /\ where' = where
  BY DEF given
<1>2. \A y : EntriesFrom(y)' = EntriesFrom(y)
  BY <1>1 DEF EntriesFrom
<1>3. IsOutline' = IsOutline
  BY <1>1 DEF IsOutline, Acyclic, OutlineLinks, SoundStorage, Go
<1> HIDE DEF EntriesFrom
<1>4. Preorder' = Preorder
  BY <1>1, <1>2 DEF Preorder
<1>5. \A rest, cs : Awaits(rest, cs)' = Awaits(rest, cs)
  BY <1>1, <1>2 DEF Awaits
<1>6. \A cs, ts : Completes(cs, ts)' = Completes(cs, ts)
  BY <1>2, <1>4, <1>5 DEF Completes
<1> QED
  BY <1>3, <1>4, <1>6

LEMMA EntriesTyped ==
    ASSUME IsFile(file), IsOutline
    PROVE  /\ \A y \in MaybeIds : EntriesFrom(y) \in Seq(Ids)
           /\ EntriesFrom(None) = << >>
           /\ \A y \in Ids : /\ file.first[y] \in MaybeIds /\ file.next[y] \in MaybeIds
                             /\ EntriesFrom(y) = <<y>> \o EntriesFrom(file.first[y])
                                                  \o EntriesFrom(file.next[y])
<1>1. /\ AllEntries \in EntryTables /\ EntriesFrom(None) = << >>
      /\ \A y \in MaybeIds : EntriesFrom(y) = EntriesStep(AllEntries, y)
  BY EntriesUnfold
<1>2. \A y \in MaybeIds : EntriesFrom(y) \in Seq(Ids)
  BY <1>1 DEF AllEntries, EntryTables
<1>3. \A y \in Ids : y # None /\ y \in MaybeIds
                     /\ file.first[y] \in MaybeIds /\ file.next[y] \in MaybeIds
  BY IdsAssumption DEF IsFile, MaybeIds, None
<1>4. \A y \in Ids : EntriesFrom(y) = <<y>> \o EntriesFrom(file.first[y])
                                        \o EntriesFrom(file.next[y])
  BY <1>1, <1>3 DEF EntriesStep, AllEntries
<1> QED
  BY <1>1, <1>2, <1>3, <1>4

\* The call on the root has the whole outline to add.
LEMMA FirstCall ==
    ASSUME IsFile(file), IsOutline, NEW c,
           c = [entry |-> file.root, child |-> file.first[file.root]]
    PROVE  Completes(<<c>>, <<file.root>>)
<1> DEFINE rest == [i \in 1..1 |-> << >>]
           cs == <<c>>
           e == EntriesFrom(c.child)
<1>1. file.root \in Ids /\ c.child = file.first[file.root] /\ c.child \in MaybeIds
  BY DEF IsFile, MaybeIds
<1>2. e \in Seq(Ids) /\ e \o << >> = e
  <2>1. e \in Seq(Ids)
    BY <1>1, EntriesTyped
  <2> HIDE DEF e
  <2> QED
    BY <2>1, ConcatEmptySeq
<1>3. Len(cs) = 1 /\ cs[Len(cs)] = c
  OBVIOUS
<1>4. Awaits(rest, cs)
  BY <1>3, EmptySeq DEF Awaits
<1>5. rest[1] = << >>
  OBVIOUS
<1>6. Preorder = <<file.root>> \o e
  BY <1>1 DEF Preorder
<1> HIDE DEF e, cs, rest
<1>7. <<file.root>> \o (e \o rest[1]) = Preorder
  BY <1>2, <1>5, <1>6
<1>8. Completes(cs, <<file.root>>)
  BY <1>3, <1>4, <1>7 DEF Completes, e
<1> QED
  BY <1>8 DEF cs

\* Concatenations that are grouped in another way.
LEMMA ConcatTyped ==
    ASSUME NEW a \in Seq(Ids), NEW b \in Seq(Ids)
    PROVE  a \o b \in Seq(Ids)
BY ConcatProperties

Associate(a, b, c) == (a \o b) \o c = a \o (b \o c)

LEMMA ConcatAgain ==
    ASSUME NEW a \in Seq(Ids), NEW b \in Seq(Ids), NEW c \in Seq(Ids)
    PROVE  Associate(a, b, c)
BY ConcatAssociative DEF Associate

Moves(a, b, c, d, e) == (a \o b) \o (c \o (d \o e)) = a \o (((b \o c) \o d) \o e)

LEMMA ConcatMoved ==
    ASSUME NEW a \in Seq(Ids), NEW b \in Seq(Ids), NEW c \in Seq(Ids),
           NEW d \in Seq(Ids), NEW e \in Seq(Ids)
    PROVE  Moves(a, b, c, d, e)
<1>1. d \o e \in Seq(Ids) /\ b \o c \in Seq(Ids)
  BY ConcatTyped
<1>2. c \o (d \o e) \in Seq(Ids)
  BY <1>1, ConcatTyped
<1>3. /\ Associate(a, b, c \o (d \o e)) /\ Associate(b, c, d \o e)
      /\ Associate(b \o c, d, e)
  BY <1>1, <1>2, ConcatAgain
<1> QED
  BY <1>3 DEF Associate, Moves

\* A call on the child of the last call: its own entry, the entries below it and
\* those after it are what the last call had for this child.
LEMMA NextCall ==
    ASSUME IsFile(file), IsOutline, NEW cs \in Calls, cs # << >>, NEW ts \in Seq(Ids),
           Completes(cs, ts), NEW x \in Ids, x = cs[Len(cs)].child, NEW c,
           c = [entry |-> x, child |-> file.first[x]]
    PROVE  Completes(Append(cs, c), Append(ts, x))
<1> DEFINE n == Len(cs)
           below == EntriesFrom(file.first[x])
           after == EntriesFrom(file.next[x])
           more == Append(cs, c)
<1>1. PICK rest : Awaits(rest, cs) /\ ts \o (EntriesFrom(x) \o rest[n]) = Preorder
  BY DEF Completes
<1>2. n \in Nat \ {0} /\ n \in 1..n /\ rest \in [1..n -> Seq(Ids)] /\ rest[n] \in Seq(Ids)
  <2>1. n \in Nat \ {0} /\ n \in 1..n
    BY DEF Calls
  <2> QED
    BY <1>1, <2>1 DEF Awaits
<1>3. /\ below \in Seq(Ids) /\ after \in Seq(Ids)
      /\ EntriesFrom(x) = (<<x>> \o below) \o after
  BY EntriesTyped
<1>4. /\ Len(more) = n + 1 /\ more[n + 1] = c /\ \A i \in 1..n : more[i] = cs[i]
  <2>1. c \in [entry : Ids, child : MaybeIds]
    BY EntriesTyped
  <2> QED
    BY <2>1, AppendProperties DEF Calls
<1>5. c.entry = x /\ c.child = file.first[x]
  OBVIOUS
<1> HIDE DEF n, below, after, more
<1> DEFINE now == [i \in 1..n + 1 |-> IF i = n + 1 THEN after \o rest[n] ELSE rest[i]]
<1>6. after \o rest[n] \in Seq(Ids)
  BY <1>2, <1>3, ConcatProperties
<1>7. now \in [1..n + 1 -> Seq(Ids)] /\ now[1] = << >> /\ now[n + 1] = after \o rest[n]
  <2>1. \A i \in 1..n + 1 : i # n + 1 => i \in 1..n
    BY <1>2
  <2>2. 1 # n + 1 /\ 1 \in 1..n + 1 /\ n + 1 \in 1..n + 1
    BY <1>2
  <2> QED
    BY <1>1, <1>2, <1>6, <2>1, <2>2 DEF Awaits
<1>8. \A i \in 2..n + 1 :
         now[i] = EntriesFrom(file.next[more[i].entry]) \o now[i - 1]
  <2> TAKE i \in 2..n + 1
  <2>1. CASE i = n + 1
    <3>1. i - 1 = n /\ n \in 1..n + 1 /\ n # n + 1
      BY <1>2, <2>1
    <3>2. now[i - 1] = rest[n] /\ now[i] = after \o rest[n]
      BY <1>7, <2>1, <3>1
    <3>3. EntriesFrom(file.next[more[i].entry]) = after
      BY <1>4, <1>5, <2>1 DEF after
    <3> QED
      BY <3>2, <3>3
  <2>2. CASE i # n + 1
    <3>1. /\ i \in 2..n /\ i \in 1..n /\ i \in 1..n + 1
          /\ i - 1 \in 1..n + 1 /\ i - 1 # n + 1
      BY <1>2, <2>2
    <3>2. now[i] = rest[i] /\ now[i - 1] = rest[i - 1] /\ more[i] = cs[i]
      BY <1>4, <2>2, <3>1
    <3>3. rest[i] = EntriesFrom(file.next[cs[i].entry]) \o rest[i - 1]
      BY <1>1, <3>1 DEF Awaits, n
    <3> QED
      BY <3>2, <3>3
  <2> QED
    BY <2>1, <2>2
<1> HIDE DEF now
<1>9. Awaits(now, more)
  BY <1>4, <1>7, <1>8 DEF Awaits
<1>10. Append(ts, x) \o (below \o now[n + 1]) = Preorder
  <2> DEFINE r == rest[n]
             one == <<x>>
  <2>1. one \in Seq(Ids) /\ r \in Seq(Ids) /\ Append(ts, x) = ts \o one
    BY <1>2, AppendIsConcat
  <2> HIDE DEF r, one
  <2>2. below \in Seq(Ids) /\ after \in Seq(Ids)
    BY <1>3
  <2> HIDE DEF below, after
  <2>3. Moves(ts, one, below, after, r)
    BY <2>1, <2>2, ConcatMoved
  <2> QED
    BY <1>1, <1>3, <1>7, <2>1, <2>3 DEF r, one, Moves
<1>11. more[Len(more)].child = file.first[x]
  BY <1>4, <1>5
<1>12. Completes(more, Append(ts, x))
  BY <1>4, <1>9, <1>10, <1>11 DEF Completes, below
<1> QED
  BY <1>12 DEF more

\* The return of the last call, when it has no further child.
LEMMA LastReturns ==
    ASSUME IsFile(file), IsOutline, NEW cs \in Calls, cs # << >>, NEW ts \in Seq(Ids),
           Completes(cs, ts), cs[Len(cs)].child = None
    PROVE  /\ Len(cs) = 1 => ts = Preorder
           /\ \A fewer :
                 /\ Len(cs) # 1 /\ Len(fewer) = Len(cs) - 1
                 /\ \A i \in 1..Len(cs) - 1 : fewer[i].entry = cs[i].entry
                 /\ fewer[Len(fewer)].child = file.next[cs[Len(cs)].entry]
                 => Completes(fewer, ts)
<1> DEFINE n == Len(cs)
<1>1. PICK rest : /\ Awaits(rest, cs)
                  /\ ts \o (EntriesFrom(None) \o rest[n]) = Preorder
  BY DEF Completes
<1>2. n \in Nat \ {0} /\ n \in 1..n /\ rest \in [1..n -> Seq(Ids)] /\ rest[n] \in Seq(Ids)
  <2>1. n \in Nat \ {0} /\ n \in 1..n
    BY DEF Calls
  <2> QED
    BY <1>1, <2>1 DEF Awaits
<1>3. ts \o rest[n] = Preorder
  <2>1. << >> \o rest[n] = rest[n]
    BY <1>2, ConcatEmptySeq
  <2> QED
    BY <1>1, <2>1, EntriesTyped
<1>4. n = 1 => ts = Preorder
  <2> SUFFICES ASSUME n = 1 PROVE ts = Preorder
    OBVIOUS
  <2>1. rest[n] = << >>
    BY <1>1 DEF Awaits
  <2>2. ts \o << >> = ts
    BY ConcatEmptySeq
  <2> QED
    BY <1>3, <2>1, <2>2
<1> HIDE DEF n
<1>5. ASSUME NEW fewer, n # 1, Len(fewer) = n - 1,
             \A i \in 1..n - 1 : fewer[i].entry = cs[i].entry,
             fewer[Len(fewer)].child = file.next[cs[n].entry]
      PROVE  Completes(fewer, ts)
  <2> DEFINE now == [i \in 1..n - 1 |-> rest[i]]
  <2>1. /\ n - 1 \in Nat \ {0} /\ n - 1 \in 1..n - 1 /\ 1 \in 1..n - 1
        /\ n \in 2..n /\ \A i \in 1..n - 1 : i \in 1..n
    BY <1>2, <1>5
  <2>2. now \in [1..n - 1 -> Seq(Ids)] /\ now[1] = << >> /\ now[n - 1] = rest[n - 1]
    BY <1>1, <1>2, <2>1 DEF Awaits
  <2>3. \A i \in 2..n - 1 :
           now[i] = EntriesFrom(file.next[fewer[i].entry]) \o now[i - 1]
    <3> TAKE i \in 2..n - 1
    <3>1. i \in 1..n - 1 /\ i - 1 \in 1..n - 1 /\ i \in 2..n
      BY <2>1
    <3>2. rest[i] = EntriesFrom(file.next[cs[i].entry]) \o rest[i - 1]
      BY <1>1, <3>1 DEF Awaits, n
    <3> QED
      BY <1>5, <3>1, <3>2
  <2> HIDE DEF now
  <2>4. Awaits(now, fewer)
    BY <1>5, <2>2, <2>3 DEF Awaits
  <2>5. rest[n] = EntriesFrom(file.next[cs[n].entry]) \o rest[n - 1]
    BY <1>1, <2>1 DEF Awaits, n
  <2>6. ts \o (EntriesFrom(fewer[Len(fewer)].child) \o now[Len(fewer)]) = Preorder
    BY <1>3, <1>5, <2>2, <2>5
  <2> QED
    BY <2>4, <2>6 DEF Completes
<1> QED
  BY <1>4, <1>5 DEF n

LEMMA StartOutlineOrder == Inv /\ OutlineOK /\ StartOutline => OutlineOK'
<1> SUFFICES ASSUME Inv, OutlineOK, StartOutline, file.use = "outline", IsOutline
             PROVE  OutlineOK'
  BY OutlineKept DEF StartOutline, OutlineOK, given
<1>1. /\ UNCHANGED given /\ phase = "outline" /\ calls = << >> /\ titles = << >>
      /\ IsFile(file)
  BY DEF StartOutline, Inv, ShapesOK
<1>2. file.root \in Ids /\ Go(file.root) = file.root /\ Sound(file.root)
  BY <1>1, AllSound DEF IsFile, MaybeIds, IsOutline
<1>3. Call(file.root)
  BY <1>2, IdsAssumption DEF StartOutline, None
<1>4. CASE used = OutlineBudget
  BY <1>3, <1>4 DEF Call, OutlineOK
<1>5. CASE used # OutlineBudget
  <2> DEFINE c == [entry |-> file.root, child |-> file.first[file.root]]
  <2>1. titles' = Append(titles, file.root) /\ calls' = Append(calls, c) /\ phase' = phase
    BY <1>3, <1>5 DEF Call
  <2> HIDE DEF c
  <2>2. titles' = <<file.root>> /\ calls' = <<c>>
    BY <1>1, <2>1
  <2>3. Completes(calls', titles')
    BY <1>1, <2>2, FirstCall DEF c
  <2>4. Completes(calls, titles)'
    BY <1>1, <2>3, OutlineKept
  <2> QED
    BY <1>1, <2>1, <2>4 DEF OutlineOK
<1> QED
  BY <1>4, <1>5

LEMMA ChildOrder == Inv /\ OutlineOK /\ Child => OutlineOK'
<1> SUFFICES ASSUME Inv, OutlineOK, Child, file.use = "outline", IsOutline
             PROVE  OutlineOK'
  BY OutlineKept DEF Child, OutlineOK, given
<1> DEFINE n == Len(calls)
           child == calls[n].child
<1>1. /\ UNCHANGED given /\ phase = "outline" /\ calls # << >> /\ IsFile(file)
      /\ calls \in Calls /\ titles \in Seq(Ids) /\ Completes(calls, titles)
  BY DEF Child, Inv, ShapesOK, OutlineOK, Calls, MaybeIds
<1> DEFINE C == [entry : Ids, child : MaybeIds]
<1> HIDE DEF C
<1>2. n \in Nat \ {0} /\ n \in 1..n /\ calls[n] \in C /\ calls \in Seq(C)
  <2>1. calls \in Seq(C)
    BY <1>1 DEF Calls, C
  <2> QED
    BY <1>1, <2>1, LastIndex
<1>3. Last(calls) = calls[n] /\ child \in MaybeIds
  BY <1>2 DEF Last, C
<1>4. Go(child) = child /\ Sound(child)
  <2> HIDE DEF child
  <2> QED
    BY <1>3, AllSound DEF IsOutline
<1>5. CASE child # None
  <2>1. Call(child) /\ child \in Ids
    BY <1>3, <1>4, <1>5 DEF Child, MaybeIds
  <2>2. CASE used = OutlineBudget
    BY <2>1, <2>2 DEF Call, OutlineOK
  <2>3. CASE used # OutlineBudget
    <3> DEFINE c == [entry |-> child, child |-> file.first[child]]
    <3>1. titles' = Append(titles, child) /\ calls' = Append(calls, c) /\ phase' = phase
      BY <2>1, <2>3 DEF Call
    <3> HIDE DEF child
    <3>2. Completes(Append(calls, c), Append(titles, child))
      BY <1>1, <2>1, NextCall DEF child
    <3> HIDE DEF c
    <3>3. Completes(calls', titles')
      BY <3>1, <3>2
    <3>4. Completes(calls, titles)'
      BY <1>1, <3>3, OutlineKept
    <3> QED
      BY <1>1, <3>1, <3>4 DEF OutlineOK
  <2> QED
    BY <2>2, <2>3
<1>6. CASE child = None
  <2>1. /\ Return /\ titles' = titles
        /\ phase' = IF n = 1 THEN "done" ELSE phase
    BY <1>3, <1>4, <1>6 DEF Child
  <2>2. /\ n = 1 => titles = Preorder
        /\ \A fewer :
              /\ n # 1 /\ Len(fewer) = n - 1
              /\ \A i \in 1..n - 1 : fewer[i].entry = calls[i].entry
              /\ fewer[Len(fewer)].child = file.next[calls[n].entry]
              => Completes(fewer, titles)
    BY <1>1, <1>6, LastReturns
  <2>3. CASE n = 1
    BY <1>1, <2>1, <2>2, <2>3, OutlineKept DEF OutlineOK
  <2>4. CASE n # 1
    <3> DEFINE rest == Front(calls)
    <3>1. /\ rest \in Seq(C) /\ Len(rest) = n - 1 /\ n - 1 \in 1..n - 1
          /\ rest # << >> /\ \A i \in 1..n - 1 : rest[i] = calls[i]
      <4>1. rest \in Seq(C) /\ Len(rest) = n - 1
        BY <1>1, <1>2, FrontOf
      <4>2. n - 1 \in 1..n - 1
        <5>1. \A k \in Nat \ {0} : k # 1 => k - 1 \in 1..k - 1
          OBVIOUS
        <5> QED
          BY <1>2, <2>4, <5>1, Zenon
      <4>3. 1 \in Int /\ n - 1 \in Int /\ \A i \in 1..n - 1 : calls[i] \in C
        BY <1>2
      <4>4. \A i \in 1..(n - 1) - 1 + 1 : SubSeq(calls, 1, n - 1)[i] = calls[1 + i - 1]
        BY <4>3, SubSeqProperties
      <4>5. (n - 1) - 1 + 1 = n - 1 /\ \A i \in 1..n - 1 : 1 + i - 1 = i
        BY <1>2
      <4>6. \A i \in 1..n - 1 : rest[i] = calls[i]
        BY <4>4, <4>5 DEF Front
      <4>7. rest # << >>
        BY <4>1, <4>2
      <4> QED
        BY <4>1, <4>2, <4>6, <4>7
    <3> HIDE DEF rest
    <3>2. calls' = [rest EXCEPT ![Len(rest)].child = file.next[calls[n].entry]]
      BY <1>3, <2>1, <3>1 DEF Return, rest
    <3> HIDE DEF n
    <3>3. DOMAIN rest = 1..n - 1 /\ Len(rest) = n - 1
      BY <3>1
    <3> DEFINE m == n - 1
               last == [rest[m] EXCEPT !.child = file.next[calls[n].entry]]
    <3>4. calls' = [rest EXCEPT ![m] = last]
      BY <3>2, <3>3
    <3>5. /\ last \in C
          /\ last.entry = rest[m].entry /\ last.child = file.next[calls[n].entry]
      <4>1. rest[m] \in C
        BY <3>1, <3>3
      <4>2. file.next[calls[n].entry] \in MaybeIds
        BY <1>1, <1>2, EntriesTyped DEF n, C
      <4> QED
        BY <4>1, <4>2 DEF C
    <3> HIDE DEF last, m
    <3>6. /\ Len(calls') = n - 1
          /\ \A i \in 1..n - 1 : calls'[i].entry = calls[i].entry
          /\ calls'[Len(calls')].child = file.next[calls[n].entry]
      <4>1. m \in 1..n - 1 /\ m = n - 1
        BY <3>1 DEF m
      <4>2. Len(calls') = Len(rest)
        <5>1. m \in 1..Len(rest)
          BY <3>3, <4>1
        <5> QED
          BY <3>1, <3>4, <3>5, <5>1, ExceptSeq
      <4>3. calls'[m] = last /\ \A i \in 1..n - 1 : i # m => calls'[i] = rest[i]
        BY <3>3, <3>4, <4>1
      <4> QED
        BY <3>1, <3>3, <3>5, <4>1, <4>2, <4>3
    <3>7. Completes(calls', titles)
      BY <2>2, <2>4, <3>6 DEF n
    <3>8. Completes(calls, titles)'
      BY <1>1, <2>1, <3>7, OutlineKept
    <3> QED
      BY <1>1, <2>1, <2>4, <3>8 DEF OutlineOK, n
  <2> QED
    BY <2>3, <2>4
<1> QED
  BY <1>5, <1>6

LEMMA StepOutline == Inv /\ PhasesOK /\ OutlineOK /\ [Next]_vars => OutlineOK'
<1> SUFFICES ASSUME Inv, PhasesOK, OutlineOK, [Next]_vars,
                    file.use = "outline", IsOutline
             PROVE  OutlineOK'
  BY GivenKept, OutlineKept DEF OutlineOK, given
<1>1. UNCHANGED given /\ phase \in {"outline"} \cup Stops
  BY GivenKept DEF PhasesOK
<1>2. CASE UNCHANGED vars
  <2>1. Completes(calls, titles)' = Completes(calls, titles) /\ Preorder' = Preorder
    BY <1>1, <1>2, OutlineKept DEF vars
  <2> QED
    BY <1>2, <2>1 DEF OutlineOK, vars
<1>3. CASE ReuseBuffer
  <2>1. phase = "done" /\ phase' = "done" /\ titles' = titles
    BY <1>3 DEF ReuseBuffer, outline
  <2> QED
    BY <1>1, <2>1, OutlineKept DEF OutlineOK
<1>4. CASE NextPage \/ LastPage \/ Enter \/ Look \/ Inherit \/ Text
  BY <1>1, <1>4 DEF NextPage, LastPage, Enter, Look, Inherit, Text, Stops
<1> QED
  BY <1>2, <1>3, <1>4, StartOutlineOrder, ChildOrder DEF Next

\* On a tree with true Counts Page(i) (page.go 28) is the i-th leaf, for every number
\* up to Count, and the walk does not panic; on any tree no page is given for two
\* numbers; an outline (page.go 1412) that ends has all its entries in reading order.
THEOREM InTreeOrderCorrect == Spec => []InTreeOrder
<1> DEFINE All == Inv /\ WalkOK /\ PhasesOK /\ OrderOK /\ OutlineOK
<1>1. Init => WalkOK /\ PhasesOK /\ OrderOK /\ OutlineOK
  <2> SUFFICES ASSUME Init PROVE WalkOK /\ PhasesOK /\ OrderOK /\ OutlineOK
    OBVIOUS
  <2>1. WalkOK
    BY DEF Init, WalkOK
  <2>2. PhasesOK
    BY DEF Init, PhasesOK
  <2>3. OrderOK
    <3> SUFFICES ASSUME WellFormed, file.use = "pages" PROVE OrderOK
      BY DEF OrderOK
    <3>1. IsFile(file)
      BY FilesAssumption DEF Init
    <3>2. 0 <= PageTotal
      BY <3>1, LeavesTyped
    <3>3. LeavesFound(found)
      BY DEF Init, LeavesFound
    <3> QED
      BY <3>2, <3>3 DEF Init, OrderOK
  <2>4. OutlineOK
    BY DEF Init, OutlineOK
  <2> QED
    BY <2>1, <2>2, <2>3, <2>4
<1>2. All /\ [Next]_vars => All'
  BY StepInv, StepWalk, StepPhases, StepOrder, StepOutline
<1>3. All /\ NoPageTwice => InTreeOrder
  <2> SUFFICES ASSUME All, NoPageTwice PROVE InTreeOrder
    OBVIOUS
  <2>1. ASSUME file.use = "pages", WellFormed
        PROVE  /\ phase \notin {"panicked", "endless"}
               /\ IsPrefix(found, Leaves(file.root))
               /\ phase = "done" => found = Leaves(file.root)
    <3> DEFINE leaves == Leaves(file.root)
    <3>1. /\ phase \notin {"panicked", "endless"} /\ LeavesFound(found)
          /\ phase = "done" => page = PageTotal
      BY <2>1 DEF OrderOK
    <3>2. leaves \in Seq(Ids) /\ Len(leaves) \in Nat /\ PageTotal = Len(leaves)
      BY <2>1, LeavesTyped DEF Inv, ShapesOK, PageTotal
    <3>3. found \in Seq(MaybeIds) /\ Len(found) \in Nat /\ DOMAIN found = 1..Len(found)
      BY DEF Inv, ShapesOK, MaybeIds
    <3>4. leaves \in Seq(MaybeIds)
      <4>1. Ids \subseteq MaybeIds
        BY DEF MaybeIds
      <4> HIDE DEF leaves
      <4> QED
        BY <3>2, <4>1
    <3> HIDE DEF leaves
    <3>5. \A i \in 1..Len(found) : i <= Len(leaves) /\ found[i] = leaves[i]
      BY <3>1, <3>2, <3>3 DEF LeavesFound, leaves
    <3>6. Len(found) <= Len(leaves)
      BY <3>2, <3>3, <3>5
    <3>7. IsPrefix(found, leaves)
      <4>1. SubSeq(found, 1, Len(found)) = found
        BY <3>3, SubSeqFull
      <4>2. 1 \in Int /\ Len(found) \in Int /\ \A i \in 1..Len(found) : leaves[i] \in MaybeIds
        BY <3>2, <3>3, <3>4, <3>6
      <4> DEFINE part == SubSeq(leaves, 1, Len(found))
      <4>3. /\ part \in Seq(MaybeIds)
            /\ Len(part) = IF 1 <= Len(found) THEN Len(found) - 1 + 1 ELSE 0
            /\ \A i \in 1..Len(found) - 1 + 1 : part[i] = leaves[1 + i - 1]
        BY <4>2, SubSeqProperties
      <4>4. \A k \in Nat : k - 1 + 1 = k /\ (IF 1 <= k THEN k - 1 + 1 ELSE 0) = k
        OBVIOUS
      <4>5. Len(found) - 1 + 1 = Len(found)
            /\ (IF 1 <= Len(found) THEN Len(found) - 1 + 1 ELSE 0) = Len(found)
        BY <3>3, <4>4, Zenon
      <4>6. \A i \in 1..Len(found) : 1 + i - 1 = i
        OBVIOUS
      <4> HIDE DEF part
      <4>7. Len(part) = Len(found) /\ \A i \in 1..Len(found) : part[i] = found[i]
        BY <3>5, <4>3, <4>5, <4>6
      <4>8. found = part
        BY <3>3, <4>3, <4>7, SeqEqual
      <4> QED
        BY <3>6, <4>1, <4>8 DEF IsPrefix, part
    <3>8. ASSUME phase = "done" PROVE found = leaves
      <4>1. Len(found) = Len(leaves)
        BY <3>1, <3>2, <3>8 DEF Inv, TypeOK
      <4> QED
        BY <3>3, <3>4, <3>5, <4>1, SeqEqual
    <3> QED
      BY <3>1, <3>7, <3>8 DEF leaves
  <2>2. file.use = "outline" /\ phase = "done" /\ IsOutline => titles = Preorder
    BY DEF OutlineOK
  <2> HIDE DEF All
  <2> QED
    BY <2>1, <2>2 DEF InTreeOrder
<1>4. Init => Inv
  BY InitInv
<1> HIDE DEF All
<1>5. Spec => []All
  <2>1. Init => All
    BY <1>1, <1>4 DEF All
  <2> QED
    BY <1>2, <2>1, PTL DEF Spec
<1> QED
  BY <1>3, <1>5, NoPageTwiceCorrect, PTL

=============================================================================
