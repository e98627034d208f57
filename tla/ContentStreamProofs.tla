-------------------------- MODULE ContentStreamProofs --------------------------
(***************************************************************************)
(* What holds of the three readers of a page for any fonts, any operands   *)
(* and programs of any length: the invariant Inv of ContentStream.         *)
(*                                                                         *)
(* The module goes from the inside out.  Glyphs, the arrays of TJ and      *)
(* their like are recursive functions; RecursionExists and RecursionTyped  *)
(* say once and for all that such a function exists and where its values   *)
(* lie.  Each reader has a lemma on what every operator does to its state, *)
(* its decoder and its glyphs (PlainDoStep, RowsDoStep, ContentDoStep), in *)
(* the same words (Shows, NewDecoder), so that AgreeStep needs to look at  *)
(* no operator any more.  What Interpret does to its stacks and to the     *)
(* heap (BuiltinMachine, MeaningKnown) gives the operands their types.     *)
(*                                                                         *)
(* The second half is about what the callers get.  The pieces are counted  *)
(* (CountAppend, CountFlattened), sorting is insertion and keeps counts    *)
(* (SortedCount) and gives the order (SortedInOrder), the grouping of      *)
(* Found is an invariant over the pieces taken so far (FoundIs), and the   *)
(* joining of glyphs is one over the glyphs (SentencesKeep).               *)
(*                                                                         *)
(* The last part is about Encodings, an instance here: the lemmas on the   *)
(* machine and on recursive functions serve both.  The reading of a map is *)
(* an invariant over keywords (MapStepInv): what an orderly program has    *)
(* listed is what the map holds (HeldAfter).  DecodedCodes is induction    *)
(* over the codes of a string: each is cut off (WidthIs) and shown as      *)
(* listed (CodeTextIs).  DecodeByteIs and PlaceNext do the same for the    *)
(* elements of Differences.                                                *)
(***************************************************************************)
EXTENDS ContentStream, SequenceTheorems, FiniteSetTheorems, WellFoundedInduction, TLAPS

(* Numbers. *)

\* A set of natural numbers has a least one.
LEMMA LeastOfSet ==
    ASSUME NEW T \in SUBSET Nat, T # {}
    PROVE  \E x \in T : \A y \in T : x <= y
<1>1. PICK x \in T : \A y \in T : <<y, x>> \notin OpToRel(<, Nat)
  BY WFMin, NatLessThanWellFounded, Zenon
<1>2. \A y \in T : ~(y < x)
  <2> SUFFICES ASSUME NEW y \in T, y < x PROVE FALSE
    OBVIOUS
  <2>1. <<y, x>> \in Nat \X Nat /\ <<y, x>>[1] = y /\ <<y, x>>[2] = x
    BY <1>1
  <2>2. <<y, x>> \in OpToRel(<, Nat)
    BY <2>1, Zenon DEF OpToRel
  <2> QED
    BY <1>1, <2>2, Zenon
<1> QED
  BY <1>2

\* Induction, for a set of natural numbers.
LEMMA SetInduction ==
    ASSUME NEW S, 0 \in S, \A n \in Nat : n \in S => n + 1 \in S
    PROVE  Nat \subseteq S
<1> SUFFICES ASSUME Nat \ S # {} PROVE FALSE
  OBVIOUS
<1>1. PICK x \in Nat \ S : \A y \in Nat \ S : x <= y
  BY LeastOfSet
<1>2. x # 0 /\ x - 1 \in Nat /\ (x - 1) + 1 = x
  BY <1>1
<1>3. x - 1 \in S
  BY <1>1, <1>2
<1> QED
  BY <1>1, <1>2, <1>3

\* A set of numbers up to N that is not empty has a greatest one.
LEMMA GreatestOfSet ==
    ASSUME NEW N \in Nat, NEW T \in SUBSET (1..N), T # {}
    PROVE  \E x \in T : \A y \in T : y <= x
<1> DEFINE Bounds == {n \in Nat : \A y \in T : y <= n}
<1>1. PICK x \in Bounds : \A n \in Bounds : x <= n
  <2>1. Bounds \in SUBSET Nat /\ N \in Bounds
    OBVIOUS
  <2> HIDE DEF Bounds
  <2> QED
    BY <2>1, LeastOfSet
<1>2. x \in T
  <2> SUFFICES ASSUME x \notin T PROVE FALSE
    OBVIOUS
  <2> PICK y \in T : TRUE
    OBVIOUS
  <2>1. y < x
    BY <1>1
  <2>2. x - 1 \in Nat /\ \A z \in T : z <= x - 1
    BY <1>1, <2>1
  <2> QED
    BY <1>1, <2>2
<1> QED
  BY <1>1, <1>2

-----------------------------------------------------------------------------
(* Recursive functions. *)

\* The function f takes the steps one after the other, from base.
TakesSteps(f, N, S, base, step) ==
    /\ f \in [0..N -> S]
    /\ f[0] = base
    /\ \A n \in 1..N : f[n] = step[n][f[n - 1]]

\* A function with values in S can be built from the value before.
LEMMA RecursionExists ==
    ASSUME NEW N \in Nat, NEW S, NEW base \in S, NEW step \in [1..N -> [S -> S]]
    PROVE  \E f : TakesSteps(f, N, S, base, step)
<1> USE DEF TakesSteps
<1> DEFINE Builds(k, f) == TakesSteps(f, k, S, base, step)
           T == {k \in Nat : k <= N => \E f : Builds(k, f)}
<1>1. 0 \in T
  <2>1. Builds(0, [n \in 0..0 |-> base])
    OBVIOUS
  <2> QED
    BY <2>1
<1>2. ASSUME NEW k \in Nat, k \in T PROVE k + 1 \in T
  <2> SUFFICES ASSUME k + 1 <= N PROVE \E f : Builds(k + 1, f)
    OBVIOUS
  <2>1. PICK f : Builds(k, f)
    BY <1>2
  <2> DEFINE g == [n \in 0..k + 1 |-> IF n = k + 1 THEN step[k + 1][f[k]] ELSE f[n]]
  <2>2. k + 1 \in 1..N /\ step[k + 1] \in [S -> S] /\ f[k] \in S
    BY <2>1
  <2>3. g \in [0..k + 1 -> S]
    BY <2>1, <2>2
  <2>4. g[0] = base
    BY <2>1
  <2>5. ASSUME NEW n \in 1..k + 1 PROVE g[n] = step[n][g[n - 1]]
    <3>1. CASE n = k + 1
      BY <3>1
    <3>2. CASE n # k + 1
      <4>1. n \in 1..k /\ n - 1 \in 0..k /\ n - 1 # k + 1
        BY <3>2
      <4> QED
        BY <2>1, <4>1
    <3> QED
      BY <3>1, <3>2
  <2> HIDE DEF g
  <2> QED
    BY <2>3, <2>4, <2>5
<1> HIDE DEF T
<1>3. Nat \subseteq T
  BY <1>1, <1>2, SetInduction
<1> QED
  BY <1>3 DEF T

\* All values of a recursion are in S if no step leaves it.
LEMMA RecursionTyped ==
    ASSUME NEW N \in Nat, NEW S, NEW g, g[0] \in S,
           \A n \in 1..N : g[n - 1] \in S => g[n] \in S
    PROVE  \A n \in 0..N : g[n] \in S
<1> DEFINE T == {n \in Nat : n <= N => g[n] \in S}
<1>1. 0 \in T
  OBVIOUS
<1>2. ASSUME NEW n \in Nat, n \in T PROVE n + 1 \in T
  <2> SUFFICES ASSUME n + 1 <= N PROVE g[n + 1] \in S
    OBVIOUS
  <2>1. n + 1 \in 1..N /\ n <= N /\ (n + 1) - 1 = n
    OBVIOUS
  <2> QED
    BY <1>2, <2>1
<1> HIDE DEF T
<1>3. Nat \subseteq T
  BY <1>1, <1>2, SetInduction
<1> QED
  BY <1>3 DEF T

-----------------------------------------------------------------------------
(* The glyphs of a sequence. *)

GlyphSeq == Seq(Encoders \X Strings)

\* A sequence of something shown: of what GetPlainText writes, of pieces or of glyphs.
IsShown(out) ==
    /\ Len(out) \in Nat
    /\ \A i \in 1..Len(out) : out[i].enc \in Encoders /\ out[i].s \in Strings

LEMMA AndGlyphTyped ==
    ASSUME NEW gs \in GlyphSeq, NEW enc \in Encoders, NEW s \in Strings
    PROVE  AndGlyph(gs, enc, s) \in GlyphSeq
<1> DEFINE e == <<Decoder(enc), s>>
           P == Encoders \X Strings
<1>1. e \in P
  BY DEF Decoder, Encoders, NoFontEncoders
<1>2. AndGlyph(gs, enc, s) \in {gs, Append(gs, e)}
  BY DEF AndGlyph
<1> HIDE DEF e, P
<1>3. Append(gs, e) \in Seq(P)
  BY <1>1, AppendProperties DEF GlyphSeq, P
<1> QED
  BY <1>2, <1>3 DEF GlyphSeq, P

\* Glyphs is what its recursion says.
LEMMA GlyphsBuilt ==
    ASSUME NEW out, IsShown(out)
    PROVE  \E f : /\ \A n \in 0..Len(out) : f[n] \in GlyphSeq
                  /\ f[0] = << >>
                  /\ \A n \in 1..Len(out) :
                        f[n] = AndGlyph(f[n - 1], out[n].enc, out[n].s)
                  /\ Glyphs(out) = f[Len(out)]
<1> DEFINE N == Len(out)
           Step(n, gs) == AndGlyph(gs, out[n].enc, out[n].s)
           Rec(f) == f = [n \in 0..N |-> IF n = 0 THEN << >> ELSE Step(n, f[n - 1])]
           step == [n \in 1..N |-> [gs \in GlyphSeq |-> Step(n, gs)]]
           base == << >>
<1>1. N \in Nat /\ base \in GlyphSeq
  BY DEF IsShown, GlyphSeq
<1>2. \A n \in 1..N, gs \in GlyphSeq : Step(n, gs) \in GlyphSeq
  BY AndGlyphTyped DEF IsShown
<1>3. step \in [1..N -> [GlyphSeq -> GlyphSeq]]
  BY <1>2
<1>4. \A n \in 1..N, gs \in GlyphSeq : step[n][gs] = Step(n, gs)
  OBVIOUS
<1> HIDE DEF N, Step, step, base
<1>5. PICK f : TakesSteps(f, N, GlyphSeq, base, step)
  BY <1>1, <1>3, RecursionExists
<1>6. \A n \in 0..N : n # 0 => n \in 1..N /\ n - 1 \in 0..N
  BY <1>1
<1>7. \A n \in 0..N : f[n] = IF n = 0 THEN << >> ELSE Step(n, f[n - 1])
  BY <1>4, <1>5, <1>6 DEF base, TakesSteps
<1>8. Rec(f)
  BY <1>5, <1>7 DEF TakesSteps
<1> DEFINE g == CHOOSE g : Rec(g)
<1>9. Rec(g)
  BY <1>8
<1>10. Glyphs(out) = g[N]
  BY DEF Glyphs, N, Step
<1> HIDE DEF g
<1>11. \A n \in 0..N : g[n] = IF n = 0 THEN << >> ELSE Step(n, g[n - 1])
  BY <1>9
<1> HIDE DEF Rec
<1>12. \A n \in 1..N : n \in 0..N /\ n # 0
  BY <1>1
<1>13. \A n \in 1..N : g[n - 1] \in GlyphSeq => g[n] \in GlyphSeq
  BY <1>2, <1>11, <1>12
<1>14. 0 \in 0..N /\ g[0] = base
  BY <1>1, <1>11 DEF base
<1>15. \A n \in 0..N : g[n] \in GlyphSeq
  BY <1>1, <1>13, <1>14, RecursionTyped
<1>16. \A n \in 1..N : g[n] = AndGlyph(g[n - 1], out[n].enc, out[n].s)
  BY <1>11, <1>12 DEF Step
<1> QED
  BY <1>1, <1>10, <1>14, <1>15, <1>16 DEF N, base

LEMMA GlyphsEmpty == Glyphs(<< >>) = << >>
<1>1. IsShown(<< >>) /\ Len(<< >>) = 0
  BY DEF IsShown
<1> QED
  BY <1>1, GlyphsBuilt

LEMMA GlyphsTyped ==
    ASSUME NEW out, IsShown(out)
    PROVE  Glyphs(out) \in GlyphSeq
<1>1. Len(out) \in 0..Len(out)
  BY DEF IsShown
<1> QED
  BY <1>1, GlyphsBuilt

\* One more string adds its glyph.
LEMMA GlyphsAppend ==
    ASSUME NEW L, NEW out \in Seq(L), NEW e \in L,
           \A l \in L : l.enc \in Encoders /\ l.s \in Strings
    PROVE  Glyphs(Append(out, e)) = AndGlyph(Glyphs(out), e.enc, e.s)
<1> DEFINE N == Len(out)
           more == Append(out, e)
<1>1. /\ N \in Nat /\ Len(more) = N + 1 /\ more[N + 1] = e
      /\ \A n \in 1..N : more[n] = out[n]
  OBVIOUS
<1>2. IsShown(out) /\ IsShown(more)
  BY DEF IsShown
<1> HIDE DEF N, more
<1>3. PICK f : /\ f[0] = << >>
               /\ \A n \in 1..N : f[n] = AndGlyph(f[n - 1], out[n].enc, out[n].s)
               /\ Glyphs(out) = f[N]
  BY <1>2, GlyphsBuilt DEF N
<1>4. PICK g : /\ g[0] = << >>
               /\ \A n \in 1..N + 1 : g[n] = AndGlyph(g[n - 1], more[n].enc, more[n].s)
               /\ Glyphs(more) = g[N + 1]
  BY <1>1, <1>2, GlyphsBuilt
<1> DEFINE T == {n \in Nat : n \in 0..N => g[n] = f[n]}
<1>5. 0 \in T
  BY <1>3, <1>4
<1>6. ASSUME NEW n \in Nat, n \in T PROVE n + 1 \in T
  <2> SUFFICES ASSUME n + 1 \in 0..N PROVE g[n + 1] = f[n + 1]
    OBVIOUS
  <2>1. n \in 0..N /\ n + 1 \in 1..N /\ n + 1 \in 1..N + 1 /\ (n + 1) - 1 = n
    BY <1>1
  <2> QED
    BY <1>1, <1>3, <1>4, <1>6, <2>1
<1> HIDE DEF T
<1>7. Nat \subseteq T
  BY <1>5, <1>6, SetInduction
<1>8. N \in 0..N /\ N + 1 \in 1..N + 1 /\ (N + 1) - 1 = N
  BY <1>1
<1>9. g[N] = f[N]
  BY <1>1, <1>7, <1>8 DEF T
<1> QED
  BY <1>1, <1>3, <1>4, <1>8, <1>9 DEF more

-----------------------------------------------------------------------------
(* What an array shows. *)

LEMMA OperandTyped ==
    ASSUME NEW v \in Value
    PROVE  Number(v) \in Int /\ RawString(v) \in Strings /\ Elements(v) \in Seq(Element)
<1>1. << >> \in Seq(Element)
  OBVIOUS
<1>2. "" \in Strings
  BY DEF Strings
<1>3. \/ v \in [kind : {"num"}, n : Int]
      \/ v \in [kind : {"name"}, name : STRING]
      \/ v \in [kind : {"string"}, s : Strings]
      \/ v \in [kind : {"array"}, elems : Seq(Element)]
      \/ v \in [kind : {"dict"}, ref : Nat]
  BY DEF Value, Operand, Element
<1>4. Number(v) \in Int
  BY <1>3 DEF Number
<1>5. RawString(v) \in Strings
  BY <1>2, <1>3 DEF RawString
<1>6. Elements(v) \in Seq(Element)
  BY <1>1, <1>3 DEF Elements
<1> QED
  BY <1>4, <1>5, <1>6

LEMMA ArgTyped ==
    ASSUME NEW args \in Seq(Value), NEW i \in 1..Len(args)
    PROVE  Number(args[i]) \in Int /\ RawString(args[i]) \in Strings
<1>1. args[i] \in Value
  OBVIOUS
<1> QED
  BY <1>1, OperandTyped

\* The strings of elems, decoded with enc, lead from the glyphs gs to the glyphs hs.
Adds(gs, enc, elems, hs) ==
    \E h : /\ h[0] = gs
           /\ \A n \in 1..Len(elems) : h[n] = AndGlyph(h[n - 1], enc, RawString(elems[n]))
           /\ h[Len(elems)] = hs

\* Readers with the same decoder show the same of an array.
LEMMA AddsTheSame ==
    ASSUME NEW elems \in Seq(Element), NEW gs, NEW enc, NEW enc2, NEW hs, NEW hs2,
           Decoder(enc) = Decoder(enc2),
           Adds(gs, enc, elems, hs), Adds(gs, enc2, elems, hs2)
    PROVE  hs = hs2
<1> DEFINE N == Len(elems)
<1>1. N \in Nat
  OBVIOUS
<1> HIDE DEF N
<1>2. PICK f : /\ f[0] = gs
               /\ \A n \in 1..N : f[n] = AndGlyph(f[n - 1], enc, RawString(elems[n]))
               /\ f[N] = hs
  BY DEF Adds, N
<1>3. PICK g : /\ g[0] = gs
               /\ \A n \in 1..N : g[n] = AndGlyph(g[n - 1], enc2, RawString(elems[n]))
               /\ g[N] = hs2
  BY DEF Adds, N
<1>4. \A a, s : AndGlyph(a, enc, s) = AndGlyph(a, enc2, s)
  BY DEF AndGlyph
<1> DEFINE T == {n \in Nat : n <= N => g[n] = f[n]}
<1>5. 0 \in T
  BY <1>2, <1>3
<1>6. ASSUME NEW n \in Nat, n \in T PROVE n + 1 \in T
  <2> SUFFICES ASSUME n + 1 <= N PROVE g[n + 1] = f[n + 1]
    OBVIOUS
  <2>1. n + 1 \in 1..N /\ n <= N /\ (n + 1) - 1 = n
    BY <1>1
  <2> QED
    BY <1>2, <1>3, <1>4, <1>6, <2>1
<1> HIDE DEF T
<1>7. Nat \subseteq T
  BY <1>5, <1>6, SetInduction
<1> QED
  BY <1>1, <1>2, <1>3, <1>7 DEF T

\* GetPlainText after a string.
LEMMA PlainShowStep ==
    ASSUME NEW p \in PlainState, NEW s \in Strings
    PROVE  /\ PlainShow(p, s) \in PlainState
           /\ PlainShow(p, s).status = p.status /\ PlainShow(p, s).enc = p.enc
           /\ Glyphs(PlainShow(p, s).out) = AndGlyph(Glyphs(p.out), p.enc, s)
<1> DEFINE L == [enc : Encoders, s : Strings]
           e == [enc |-> p.enc, s |-> s]
<1>1. e \in L /\ p.out \in Seq(L) /\ e.enc = p.enc /\ e.s = s
      /\ \A l \in L : l.enc \in Encoders /\ l.s \in Strings
  BY DEF PlainState
<1> HIDE DEF L, e
<1>2. Append(p.out, e) \in Seq(L) /\
      Glyphs(Append(p.out, e)) = AndGlyph(Glyphs(p.out), p.enc, s)
  BY <1>1, GlyphsAppend, AppendProperties
<1>3. CASE s = ""
  BY <1>3 DEF PlainShow, AndGlyph
<1>4. CASE s # ""
  <2>1. PlainShow(p, s) = [p EXCEPT !.out = Append(p.out, e)]
    BY <1>4 DEF PlainShow, e
  <2> QED
    BY <1>2, <2>1 DEF PlainState, L
<1> QED
  BY <1>3, <1>4

\* GetPlainText after an array.
LEMMA PlainArrayStep ==
    ASSUME NEW p \in PlainState, NEW elems \in Seq(Element)
    PROVE  /\ PlainArray(p, elems) \in PlainState
           /\ PlainArray(p, elems).status = p.status
           /\ PlainArray(p, elems).enc = p.enc
           /\ Adds(Glyphs(p.out), p.enc, elems, Glyphs(PlainArray(p, elems).out))
<1> DEFINE N == Len(elems)
           Step(n, q) == PlainShow(q, RawString(elems[n]))
           Rec(f) == f = [n \in 0..N |-> IF n = 0 THEN p ELSE Step(n, f[n - 1])]
           S == {q \in PlainState : q.status = p.status /\ q.enc = p.enc}
           step == [n \in 1..N |-> [q \in S |-> Step(n, q)]]
<1>1. N \in Nat /\ p \in S
  OBVIOUS
<1>2. \A n \in 1..N : RawString(elems[n]) \in Strings
  BY OperandTyped DEF Value, Operand
<1>3. \A n \in 1..N, q \in S :
         /\ Step(n, q) \in S
         /\ Glyphs(Step(n, q).out) = AndGlyph(Glyphs(q.out), p.enc, RawString(elems[n]))
  BY <1>2, PlainShowStep
<1>4. step \in [1..N -> [S -> S]]
  BY <1>3
<1>5. \A n \in 1..N, q \in S : step[n][q] = Step(n, q)
  OBVIOUS
<1> HIDE DEF N, Step, step, S
<1>6. PICK f : TakesSteps(f, N, S, p, step)
  BY <1>1, <1>4, RecursionExists
<1>7. \A n \in 0..N : n # 0 => n \in 1..N /\ n - 1 \in 0..N
  BY <1>1
<1>8. Rec(f)
  BY <1>5, <1>6, <1>7 DEF TakesSteps
<1> DEFINE g == CHOOSE g : Rec(g)
<1>9. Rec(g)
  BY <1>8
<1>10. PlainArray(p, elems) = g[N]
  BY DEF PlainArray, N, Step
<1> HIDE DEF g
<1>11. g[0] = p /\ \A n \in 1..N : g[n] = Step(n, g[n - 1])
  BY <1>1, <1>9
<1> HIDE DEF Rec
<1>12. \A n \in 0..N : g[n] \in S
  BY <1>1, <1>3, <1>11, RecursionTyped
<1> DEFINE h == [n \in 0..N |-> Glyphs(g[n].out)]
<1>13. \A n \in 1..N : h[n] = AndGlyph(h[n - 1], p.enc, RawString(elems[n]))
  <2> TAKE n \in 1..N
  <2>1. n \in 0..N /\ n - 1 \in 0..N
    BY <1>1
  <2> QED
    BY <1>3, <1>11, <1>12, <2>1
<1>14. h[0] = Glyphs(p.out) /\ h[N] = Glyphs(g[N].out)
  BY <1>1, <1>11
<1> HIDE DEF h
<1>15. Adds(Glyphs(p.out), p.enc, elems, Glyphs(g[N].out))
  BY <1>13, <1>14 DEF Adds, N
<1> QED
  BY <1>1, <1>10, <1>12, <1>15 DEF S

\* walkTextBlocks after a piece.
LEMMA WalkerStep ==
    ASSUME NEW w \in RowsState, NEW s \in Strings
    PROVE  /\ Walker(w, s) \in RowsState
           /\ Walker(w, s).status = w.status /\ Walker(w, s).enc = w.enc
           /\ Glyphs(Walker(w, s).out) = AndGlyph(Glyphs(w.out), w.enc, s)
<1> DEFINE L == [enc : Encoders, s : Strings, x : Int, y : Int]
           e == Piece(w, s)
<1>1. e \in L /\ w.out \in Seq(L) /\ e.enc = w.enc /\ e.s = s
      /\ \A l \in L : l.enc \in Encoders /\ l.s \in Strings
  BY DEF RowsState, Piece, Place
<1>2. Walker(w, s) = [w EXCEPT !.out = Append(w.out, e)]
  BY DEF Walker
<1> HIDE DEF L, e
<1>3. Append(w.out, e) \in Seq(L) /\
      Glyphs(Append(w.out, e)) = AndGlyph(Glyphs(w.out), w.enc, s)
  BY <1>1, GlyphsAppend, AppendProperties
<1> QED
  BY <1>2, <1>3 DEF RowsState, L

\* walkTextBlocks after an array.
LEMMA WalkArrayStep ==
    ASSUME NEW w \in RowsState, NEW elems \in Seq(Element)
    PROVE  /\ WalkArray(w, elems) \in RowsState
           /\ WalkArray(w, elems).status = w.status
           /\ WalkArray(w, elems).enc = w.enc
           /\ Adds(Glyphs(w.out), w.enc, elems, Glyphs(WalkArray(w, elems).out))
<1> DEFINE N == Len(elems)
           Step(n, q) == WalkElement(q, elems[n])
           Rec(f) == f = [n \in 0..N |-> IF n = 0 THEN w ELSE Step(n, f[n - 1])]
           S == {q \in RowsState : q.status = w.status /\ q.enc = w.enc}
           step == [n \in 1..N |-> [q \in S |-> Step(n, q)]]
<1>1. N \in Nat /\ w \in S
  OBVIOUS
<1>2. \A n \in 1..N : RawString(elems[n]) \in Strings
  BY OperandTyped DEF Value, Operand
<1>3. \A n \in 1..N, q \in S :
         /\ Step(n, q) \in S
         /\ Glyphs(Step(n, q).out) = AndGlyph(Glyphs(q.out), w.enc, RawString(elems[n]))
  <2> TAKE n \in 1..N, q \in S
  <2>1. CASE elems[n].kind = "string"
    <3>1. RawString(elems[n]) = elems[n].s /\ Step(n, q) = Walker(q, RawString(elems[n]))
      BY <2>1 DEF RawString, WalkElement
    <3> HIDE DEF Step
    <3> QED
      BY <1>2, <3>1, WalkerStep
  <2>2. CASE elems[n].kind # "string"
    BY <2>2 DEF RawString, WalkElement, AndGlyph
  <2> QED
    BY <2>1, <2>2
<1>4. step \in [1..N -> [S -> S]]
  BY <1>3
<1>5. \A n \in 1..N, q \in S : step[n][q] = Step(n, q)
  OBVIOUS
<1> HIDE DEF N, Step, step, S
<1>6. PICK f : TakesSteps(f, N, S, w, step)
  BY <1>1, <1>4, RecursionExists
<1>7. \A n \in 0..N : n # 0 => n \in 1..N /\ n - 1 \in 0..N
  BY <1>1
<1>8. Rec(f)
  BY <1>5, <1>6, <1>7 DEF TakesSteps
<1> DEFINE g == CHOOSE g : Rec(g)
<1>9. Rec(g)
  BY <1>8
<1>10. WalkArray(w, elems) = g[N]
  BY DEF WalkArray, N, Step
<1> HIDE DEF g
<1>11. g[0] = w /\ \A n \in 1..N : g[n] = Step(n, g[n - 1])
  BY <1>1, <1>9
<1> HIDE DEF Rec
<1>12. \A n \in 0..N : g[n] \in S
  BY <1>1, <1>3, <1>11, RecursionTyped
<1> DEFINE h == [n \in 0..N |-> Glyphs(g[n].out)]
<1>13. \A n \in 1..N : h[n] = AndGlyph(h[n - 1], w.enc, RawString(elems[n]))
  <2> TAKE n \in 1..N
  <2>1. n \in 0..N /\ n - 1 \in 0..N
    BY <1>1
  <2> QED
    BY <1>3, <1>11, <1>12, <2>1
<1>14. h[0] = Glyphs(w.out) /\ h[N] = Glyphs(g[N].out)
  BY <1>1, <1>11
<1> HIDE DEF h
<1>15. Adds(Glyphs(w.out), w.enc, elems, Glyphs(g[N].out))
  BY <1>13, <1>14 DEF Adds, N
<1> QED
  BY <1>1, <1>10, <1>12, <1>15 DEF S

\* The glyphs of a call of Content, and the next one, have the encoder of their font.
Labelled(c) ==
    /\ \/ c.restored
       \/ c.enc = c.g.tf
       \/ c.g.tf = NoFont /\ c.enc \in NoFontEncoders
    /\ \A i \in DOMAIN c.text :
          \/ c.text[i].restored
          \/ c.text[i].enc = c.text[i].font
          \/ c.text[i].font = NoFont /\ c.text[i].enc \in NoFontEncoders

\* The call d is the call c with more text, or at another place.
Continues(d, c) ==
    /\ d \in ContentState
    /\ d.status = c.status /\ d.enc = c.enc /\ d.quoted = c.quoted
    /\ Labelled(c) => Labelled(d)

LEMMA MovedStep ==
    ASSUME NEW c \in ContentState, NEW g \in GState, g.tf = c.g.tf
    PROVE  Continues([c EXCEPT !.g = g], c) /\ [c EXCEPT !.g = g].text = c.text
<1>1. [c EXCEPT !.g = g] \in ContentState
  BY DEF ContentState
<1>2. /\ [c EXCEPT !.g = g].status = c.status /\ [c EXCEPT !.g = g].enc = c.enc
      /\ [c EXCEPT !.g = g].quoted = c.quoted /\ [c EXCEPT !.g = g].text = c.text
      /\ [c EXCEPT !.g = g].restored = c.restored /\ [c EXCEPT !.g = g].g = g
  BY DEF ContentState
<1> QED
  BY <1>1, <1>2 DEF Continues, Labelled

LEMMA MovedTyped ==
    ASSUME NEW place \in Matrix, NEW d \in Int \X Int
    PROVE  Moved(place, d) \in Matrix
<1>1. CASE place = Nowhere
  BY <1>1 DEF Moved
<1>2. CASE place # Nowhere
  <2>1. place \in Int \X Int /\ Moved(place, d) = Add(d, place)
    BY <1>2, Zenon DEF Matrix, Place, Moved
  <2>2. Add(d, place) \in Int \X Int
    BY <2>1 DEF Add
  <2> QED
    BY <2>1, <2>2, Zenon DEF Matrix, Place
<1> QED
  BY <1>1, <1>2

LEMMA AdvanceStep ==
    ASSUME NEW c \in ContentState, NEW d \in Int
    PROVE  Continues(Advance(c, d), c) /\ Advance(c, d).text = c.text
<1> DEFINE tm == Moved(c.g.tm, <<d, 0>>)
           g == [c.g EXCEPT !.tm = tm]
<1>1. c.g \in GState /\ c.g.tm \in Matrix
  BY DEF ContentState, GState
<1>2. tm \in Matrix
  <2>1. <<d, 0>> \in Int \X Int
    OBVIOUS
  <2> QED
    BY <1>1, <2>1, MovedTyped
<1>3. Advance(c, d) = [c EXCEPT !.g = g]
  BY <1>1 DEF Advance, ContentState
<1> HIDE DEF tm
<1>4. g \in GState /\ g.tf = c.g.tf
  BY <1>1, <1>2 DEF GState
<1> HIDE DEF g
<1> QED
  BY <1>3, <1>4, MovedStep

\* Content after a string.
LEMMA ShowTextStep ==
    ASSUME NEW c \in ContentState, NEW s \in Strings
    PROVE  /\ Continues(ShowText(c, s), c)
           /\ Glyphs(ShowText(c, s).text) = AndGlyph(Glyphs(c.text), c.enc, s)
<1>1. CASE s = ""
  BY <1>1 DEF ShowText, Continues, AndGlyph
<1>2. CASE s # ""
  <2> DEFINE L == [font : Fonts \cup {NoFont}, enc : Encoders, s : Strings, size : Int,
                   at : Place, restored : BOOLEAN]
             size == IF c.g.tm = Nowhere THEN 0 ELSE c.g.tfs
             at == IF c.g.tm = Nowhere THEN Origin ELSE Add(c.g.tm, c.g.ctm)
             e == Glyph(c, s)
             more == [c EXCEPT !.text = Append(c.text, e)]
  <2>1. c.g \in GState /\ c.g.tm \in Matrix /\ c.g.ctm \in Int \X Int /\ c.g.tfs \in Int
    BY DEF ContentState, GState, Place
  <2>2. size \in Int /\ at \in Place
    <3>1. CASE c.g.tm = Nowhere
      BY <3>1 DEF Origin, Place
    <3>2. CASE c.g.tm # Nowhere
      <4>1. c.g.tm \in Int \X Int
        BY <2>1, <3>2, Zenon DEF Matrix, Place
      <4> QED
        BY <2>1, <3>2, <4>1 DEF Add, Place
    <3> QED
      BY <3>1, <3>2
  <2>3. /\ e \in L /\ c.text \in Seq(L)
        /\ e.enc = c.enc /\ e.s = s /\ e.font = c.g.tf /\ e.restored = c.restored
    <3>1. e = [font |-> c.g.tf, enc |-> c.enc, s |-> s, size |-> size, at |-> at,
               restored |-> c.restored]
      BY DEF Glyph
    <3> HIDE DEF e, size, at
    <3> QED
      BY <2>1, <2>2, <3>1 DEF ContentState, GState
  <2>4. \A l \in L : l.enc \in Encoders /\ l.s \in Strings
    OBVIOUS
  <2> HIDE DEF L, e
  <2>5. /\ Append(c.text, e) \in Seq(L)
        /\ Glyphs(Append(c.text, e)) = AndGlyph(Glyphs(c.text), c.enc, s)
        /\ DOMAIN Append(c.text, e) = 1..Len(c.text) + 1 /\ DOMAIN c.text = 1..Len(c.text)
        /\ Append(c.text, e)[Len(c.text) + 1] = e
        /\ \A i \in 1..Len(c.text) : Append(c.text, e)[i] = c.text[i]
    BY <2>3, <2>4, GlyphsAppend, AppendProperties
  <2>6. more \in ContentState
    BY <2>5 DEF ContentState, L
  <2>7. /\ more.status = c.status /\ more.enc = c.enc /\ more.quoted = c.quoted
        /\ more.text = Append(c.text, e) /\ more.restored = c.restored /\ more.g = c.g
    BY DEF ContentState
  <2> HIDE DEF more
  <2>8. \A i \in 1..Len(c.text) + 1 : i = Len(c.text) + 1 \/ i \in 1..Len(c.text)
    BY <2>3
  <2>9. Labelled(c) => Labelled(more)
    BY <2>3, <2>5, <2>7, <2>8 DEF Labelled
  <2>10. 1 + c.g.tc \in Int
    BY <2>1 DEF GState
  <2>11. ShowText(c, s) = Advance(more, 1 + c.g.tc)
    BY <1>2 DEF ShowText, more, e
  <2>12. Continues(Advance(more, 1 + c.g.tc), more) /\
         Advance(more, 1 + c.g.tc).text = more.text
    BY <2>6, <2>10, AdvanceStep
  <2> QED
    BY <2>5, <2>7, <2>9, <2>11, <2>12 DEF Continues
<1> QED
  BY <1>1, <1>2

\* Content after an element of an array.
LEMMA ShowElementStep ==
    ASSUME NEW c \in ContentState, NEW v \in Element
    PROVE  /\ Continues(ShowElement(c, v), c)
           /\ Glyphs(ShowElement(c, v).text) =
                 AndGlyph(Glyphs(c.text), c.enc, RawString(v))
<1>1. RawString(v) \in Strings /\ Number(v) \in Int
  BY OperandTyped DEF Value, Operand
<1>2. CASE v.kind = "string"
  <2>1. ShowElement(c, v) = ShowText(c, RawString(v))
    BY <1>2 DEF ShowElement, RawString
  <2> QED
    BY <1>1, <2>1, ShowTextStep
<1>3. CASE v.kind # "string"
  <2>1. ShowElement(c, v) = Advance(c, -Number(v)) /\ RawString(v) = ""
    BY <1>3 DEF ShowElement, RawString
  <2>2. -Number(v) \in Int
    BY <1>1
  <2>3. Continues(Advance(c, -Number(v)), c) /\ Advance(c, -Number(v)).text = c.text
    BY <2>2, AdvanceStep
  <2> QED
    BY <2>1, <2>3 DEF AndGlyph
<1> QED
  BY <1>2, <1>3

\* Content after an array.
LEMMA ShowArrayStep ==
    ASSUME NEW c \in ContentState, NEW elems \in Seq(Element)
    PROVE  /\ Continues(ShowArray(c, elems), c)
           /\ Adds(Glyphs(c.text), c.enc, elems, Glyphs(ShowArray(c, elems).text))
<1> DEFINE N == Len(elems)
           Step(n, q) == ShowElement(q, elems[n])
           Rec(f) == f = [n \in 0..N |-> IF n = 0 THEN c ELSE Step(n, f[n - 1])]
           S == {q \in ContentState : Continues(q, c)}
           step == [n \in 1..N |-> [q \in S |-> Step(n, q)]]
<1>1. N \in Nat /\ c \in S
  BY DEF Continues
<1>2. \A n \in 1..N, q \in S :
         /\ Step(n, q) \in S
         /\ Glyphs(Step(n, q).text) = AndGlyph(Glyphs(q.text), c.enc, RawString(elems[n]))
  <2> TAKE n \in 1..N, q \in S
  <2>1. q \in ContentState /\ Continues(q, c) /\ elems[n] \in Element
    OBVIOUS
  <2>2. /\ Continues(Step(n, q), q)
        /\ Glyphs(Step(n, q).text) = AndGlyph(Glyphs(q.text), q.enc, RawString(elems[n]))
    BY <2>1, ShowElementStep
  <2> HIDE DEF Step
  <2> QED
    BY <2>1, <2>2 DEF Continues
<1>3. step \in [1..N -> [S -> S]]
  BY <1>2
<1>4. \A n \in 1..N, q \in S : step[n][q] = Step(n, q)
  OBVIOUS
<1> HIDE DEF N, Step, step, S
<1>5. PICK f : TakesSteps(f, N, S, c, step)
  BY <1>1, <1>3, RecursionExists
<1>6. \A n \in 0..N : n # 0 => n \in 1..N /\ n - 1 \in 0..N
  BY <1>1
<1>7. Rec(f)
  BY <1>4, <1>5, <1>6 DEF TakesSteps
<1> DEFINE g == CHOOSE g : Rec(g)
<1>8. Rec(g)
  BY <1>7
<1>9. ShowArray(c, elems) = g[N]
  BY DEF ShowArray, N, Step
<1> HIDE DEF g
<1>10. g[0] = c /\ \A n \in 1..N : g[n] = Step(n, g[n - 1])
  BY <1>1, <1>8
<1> HIDE DEF Rec
<1>11. \A n \in 0..N : g[n] \in S
  BY <1>1, <1>2, <1>10, RecursionTyped
<1> DEFINE h == [n \in 0..N |-> Glyphs(g[n].text)]
<1>12. \A n \in 1..N : h[n] = AndGlyph(h[n - 1], c.enc, RawString(elems[n]))
  <2> TAKE n \in 1..N
  <2>1. n \in 0..N /\ n - 1 \in 0..N
    BY <1>1
  <2> QED
    BY <1>2, <1>10, <1>11, <2>1
<1>13. h[0] = Glyphs(c.text) /\ h[N] = Glyphs(g[N].text)
  BY <1>1, <1>10
<1> HIDE DEF h
<1>14. Adds(Glyphs(c.text), c.enc, elems, Glyphs(g[N].text))
  BY <1>12, <1>13 DEF Adds, N
<1> QED
  BY <1>1, <1>9, <1>11, <1>14 DEF S

-----------------------------------------------------------------------------
(* What an operator shows, and the encoder it leaves. *)

\* The operator op leads from the glyphs gs to the glyphs hs.
Shows(op, args, gs, enc, hs) ==
    /\ op = "TJ" => Adds(gs, enc, Elements(args[1]), hs)
    /\ op \in {"'", "Tj"} => hs = AndGlyph(gs, enc, RawString(args[1]))
    /\ op \notin {"TJ", "'", "Tj"} => hs = gs

\* The decoder after op.
NewDecoder(op, args, enc) ==
    IF op = "Tf" THEN Decoder(Lookup(op, args, enc)) ELSE Decoder(enc)

LEMMA LookupTyped ==
    ASSUME NEW op, NEW args, NEW enc
    PROVE  Lookup(op, args, enc) \in Encoders
BY DEF Lookup, Encoders, NoFontEncoders, HasFont

LEMMA PlainDoStep ==
    ASSUME NEW p \in PlainState, NEW op, NEW args \in Seq(Value), ~TextPanics(op, args)
    PROVE  /\ PlainDo(p, op, args) \in PlainState
           /\ PlainDo(p, op, args).status = p.status
           /\ Decoder(PlainDo(p, op, args).enc) = NewDecoder(op, args, p.enc)
           /\ Shows(op, args, Glyphs(p.out), p.enc, Glyphs(PlainDo(p, op, args).out))
<1> DEFINE q == PlainDo(p, op, args)
<1>1. NL \in Strings
  BY DEF Strings
<1>2. CASE op = "BT"
  <2> DEFINE L == [enc : Encoders, s : Strings]
             e == [enc |-> "none", s |-> NL]
  <2>1. e \in L /\ p.out \in Seq(L) /\ e.enc = "none" /\ e.s = NL
        /\ \A l \in L : l.enc \in Encoders /\ l.s \in Strings
    BY <1>1 DEF PlainState, Encoders
  <2>2. q = [p EXCEPT !.out = Append(p.out, e)]
    BY <1>2 DEF PlainDo
  <2> HIDE DEF L, e, q
  <2>3. Append(p.out, e) \in Seq(L) /\
        Glyphs(Append(p.out, e)) = AndGlyph(Glyphs(p.out), "none", NL)
    BY <2>1, GlyphsAppend, AppendProperties
  <2>4. Glyphs(q.out) = Glyphs(p.out) /\ q \in PlainState /\ q.status = p.status /\
        q.enc = p.enc
    BY <2>2, <2>3 DEF AndGlyph, PlainState, L
  <2> QED
    BY <1>2, <2>4 DEF Shows, NewDecoder, q
<1>3. CASE op = "T*"
  <2>1. q = PlainShow(p, NL)
    BY <1>3 DEF PlainDo
  <2> HIDE DEF q
  <2>2. /\ q \in PlainState /\ q.status = p.status /\ q.enc = p.enc
        /\ Glyphs(q.out) = Glyphs(p.out)
    BY <1>1, <2>1, PlainShowStep DEF AndGlyph
  <2> QED
    BY <1>3, <2>2 DEF Shows, NewDecoder, q
<1>4. CASE op = "Tf"
  <2>1. q = [p EXCEPT !.enc = Lookup(op, args, p.enc)]
    BY <1>4 DEF PlainDo
  <2> HIDE DEF q
  <2>2. /\ q \in PlainState /\ q.status = p.status /\ q.out = p.out
        /\ q.enc = Lookup(op, args, p.enc)
    BY <2>1, LookupTyped DEF PlainState
  <2> QED
    BY <1>4, <2>2 DEF Shows, NewDecoder, q
<1>5. CASE op \in {"'", "Tj"}
  <2>1. q = PlainShow(p, RawString(args[1])) /\ args[1] \in Value
    <3>1. Len(args) = 1 /\ args[1] \in Value
      <4>1. Len(args) = 1
        BY <1>5, Zenon DEF TextPanics
      <4> QED
        BY <4>1
    <3>2. q = PlainShow(p, RawString(args[1]))
      <4>1. CASE op = "'"
        BY <4>1 DEF PlainDo
      <4>2. CASE op = "Tj"
        BY <4>2 DEF PlainDo
      <4> QED
        BY <1>5, <4>1, <4>2
    <3> QED
      BY <3>1, <3>2
  <2>2. RawString(args[1]) \in Strings
    BY <2>1, OperandTyped
  <2> HIDE DEF q
  <2>3. /\ q \in PlainState /\ q.status = p.status /\ q.enc = p.enc
        /\ Glyphs(q.out) = AndGlyph(Glyphs(p.out), p.enc, RawString(args[1]))
    BY <2>1, <2>2, PlainShowStep
  <2> QED
    BY <1>5, <2>3 DEF Shows, NewDecoder, q
<1>6. CASE op = "TJ"
  <2>1. q = PlainArray(p, Elements(args[1])) /\ args[1] \in Value
    BY <1>6 DEF PlainDo, TextPanics
  <2>2. Elements(args[1]) \in Seq(Element)
    BY <2>1, OperandTyped
  <2> HIDE DEF q
  <2>3. /\ q \in PlainState /\ q.status = p.status /\ q.enc = p.enc
        /\ Adds(Glyphs(p.out), p.enc, Elements(args[1]), Glyphs(q.out))
    BY <2>1, <2>2, PlainArrayStep
  <2> QED
    BY <1>6, <2>3 DEF Shows, NewDecoder, q
<1>7. CASE op \notin {"BT", "T*", "Tf", "'", "Tj", "TJ"}
  BY <1>7 DEF PlainDo, Shows, NewDecoder
<1> QED
  BY <1>2, <1>3, <1>4, <1>5, <1>6, <1>7

LEMMA RowsDoStep ==
    ASSUME NEW w \in RowsState, NEW op, NEW args \in Seq(Value),
           ~TextPanics(op, args), op = "Tm" => Len(args) >= 6
    PROVE  /\ RowsDo(w, op, args) \in RowsState
           /\ RowsDo(w, op, args).status = w.status
           /\ Decoder(RowsDo(w, op, args).enc) = NewDecoder(op, args, w.enc)
           /\ Shows(op, args, Glyphs(w.out), w.enc, Glyphs(RowsDo(w, op, args).out))
<1> DEFINE q == RowsDo(w, op, args)
<1>1. "" \in Strings
  BY DEF Strings
<1>2. CASE op = "Tf"
  <2>1. q = [w EXCEPT !.enc = Lookup(op, args, w.enc)]
    BY <1>2 DEF RowsDo
  <2> HIDE DEF q
  <2>2. /\ q \in RowsState /\ q.status = w.status /\ q.out = w.out
        /\ q.enc = Lookup(op, args, w.enc)
    BY <2>1, LookupTyped DEF RowsState
  <2> QED
    BY <1>2, <2>2 DEF Shows, NewDecoder, q
<1>3. CASE op \in {"'", "Tj"}
  <2>1. q = Walker(w, RawString(args[1])) /\ args[1] \in Value
    <3>1. Len(args) = 1 /\ args[1] \in Value
      <4>1. Len(args) = 1
        BY <1>3, Zenon DEF TextPanics
      <4> QED
        BY <4>1
    <3>2. q = Walker(w, RawString(args[1]))
      <4>1. CASE op = "'"
        BY <4>1 DEF RowsDo
      <4>2. CASE op = "Tj"
        BY <4>2 DEF RowsDo
      <4> QED
        BY <1>3, <4>1, <4>2
    <3> QED
      BY <3>1, <3>2
  <2>2. RawString(args[1]) \in Strings
    BY <2>1, OperandTyped
  <2> HIDE DEF q
  <2>3. /\ q \in RowsState /\ q.status = w.status /\ q.enc = w.enc
        /\ Glyphs(q.out) = AndGlyph(Glyphs(w.out), w.enc, RawString(args[1]))
    BY <2>1, <2>2, WalkerStep
  <2> QED
    BY <1>3, <2>3 DEF Shows, NewDecoder, q
<1>4. CASE op = "TJ"
  <2>1. q = WalkArray(w, Elements(args[1])) /\ args[1] \in Value
    BY <1>4 DEF RowsDo, TextPanics
  <2>2. Elements(args[1]) \in Seq(Element)
    BY <2>1, OperandTyped
  <2> HIDE DEF q
  <2>3. /\ q \in RowsState /\ q.status = w.status /\ q.enc = w.enc
        /\ Adds(Glyphs(w.out), w.enc, Elements(args[1]), Glyphs(q.out))
    BY <2>1, <2>2, WalkArrayStep
  <2> QED
    BY <1>4, <2>3 DEF Shows, NewDecoder, q
<1>5. CASE op = "Td"
  <2>1. q = Walker(w, "")
    BY <1>5 DEF RowsDo
  <2> HIDE DEF q
  <2>2. /\ q \in RowsState /\ q.status = w.status /\ q.enc = w.enc
        /\ Glyphs(q.out) = Glyphs(w.out)
    BY <1>1, <2>1, WalkerStep DEF AndGlyph
  <2> QED
    BY <1>5, <2>2 DEF Shows, NewDecoder, q
<1>6. CASE op = "Tm"
  <2>1. args[5] \in Value /\ args[6] \in Value
    BY <1>6
  <2>2. Number(args[5]) \in Int /\ Number(args[6]) \in Int
    BY <2>1, OperandTyped
  <2>3. q = [w EXCEPT !.at = <<Number(args[5]), Number(args[6])>>]
    BY <1>6 DEF RowsDo
  <2> HIDE DEF q
  <2>4. /\ q \in RowsState /\ q.status = w.status /\ q.enc = w.enc /\ q.out = w.out
    BY <2>2, <2>3 DEF RowsState, Place
  <2> QED
    BY <1>6, <2>4 DEF Shows, NewDecoder, q
<1>7. CASE op \notin {"Tf", "'", "Tj", "TJ", "Td", "Tm"}
  BY <1>7 DEF RowsDo, Shows, NewDecoder
<1> QED
  BY <1>2, <1>3, <1>4, <1>5, <1>6, <1>7

StateOps == {"BT", "cm", "Tc", "TL", "Tm"}

LineOps == {"Td", "TD", "T*", "'", "\""}

QuoteOps == {"'", "\""}

\* The parts of the graphics state that place a glyph leave its font alone.
LEMMA SetStateStep ==
    ASSUME NEW c \in ContentState, NEW op \in StateOps,
           NEW args \in Seq(Value), ~ContentPanics(c, op, args)
    PROVE  Continues(SetState(c, op, args), c) /\ SetState(c, op, args).text = c.text
<1>1. c.g \in GState /\ c.g.ctm \in Int \X Int /\ Origin \in Int \X Int
  BY DEF ContentState, GState, Place, Origin
<1>2. \A g \in GState : g.tf = c.g.tf =>
         Continues([c EXCEPT !.g = g], c) /\ [c EXCEPT !.g = g].text = c.text
  BY MovedStep
<1>3. CASE op = "BT"
  <2> DEFINE g == [c.g EXCEPT !.tm = Origin, !.tlm = Origin]
  <2>1. SetState(c, op, args) = [c EXCEPT !.g = g]
    BY <1>1, <1>3 DEF SetState, ContentState, GState
  <2>2. g \in GState /\ g.tf = c.g.tf
    <3>1. Origin \in Matrix
      BY <1>1 DEF Matrix, Place
    <3> HIDE DEF g
    <3> QED
      BY <1>1, <3>1 DEF GState, g
  <2> HIDE DEF g
  <2> QED
    BY <1>2, <2>1, <2>2
<1>4. CASE op \in {"cm", "Tm"}
  <2>1. Len(args) = 6
    BY <1>4, Zenon DEF ContentPanics
  <2>2. 5 \in 1..Len(args) /\ 6 \in 1..Len(args)
    BY <2>1
  <2> DEFINE to == <<Number(args[5]), Number(args[6])>>
  <2>3. to \in Int \X Int
    BY <2>2, ArgTyped
  <2>4. Add(to, c.g.ctm) \in Int \X Int
    BY <1>1, <2>3, SMTT(30) DEF Add
  <2> HIDE DEF to
  <2>5. CASE op = "cm"
    <3> DEFINE g == [c.g EXCEPT !.ctm = Add(to, c.g.ctm)]
    <3>1. SetState(c, op, args) = [c EXCEPT !.g = g]
      BY <1>1, <2>5 DEF SetState, ContentState, GState, to
    <3>2. g \in GState /\ g.tf = c.g.tf
      BY <1>1, <2>4 DEF GState, Place
    <3> HIDE DEF g
    <3> QED
      BY <1>2, <3>1, <3>2
  <2>6. CASE op = "Tm"
    <3> DEFINE g == [c.g EXCEPT !.tm = to, !.tlm = to]
    <3>1. SetState(c, op, args) = [c EXCEPT !.g = g]
      BY <1>1, <2>6 DEF SetState, ContentState, GState, to
    <3>2. g \in GState /\ g.tf = c.g.tf
      <4>1. to \in Matrix
        BY <2>3 DEF Matrix, Place
      <4> QED
        BY <1>1, <4>1 DEF GState
    <3> HIDE DEF g
    <3> QED
      BY <1>2, <3>1, <3>2
  <2> QED
    BY <1>4, <2>5, <2>6
<1>5. CASE op \in {"Tc", "TL"}
  <2>1. Len(args) = 1
    BY <1>5, Zenon DEF ContentPanics, OneOperand
  <2>2. Number(args[1]) \in Int
    BY <2>1, OperandTyped
  <2> DEFINE g == IF op = "Tc" THEN [c.g EXCEPT !.tc = Number(args[1])]
                  ELSE [c.g EXCEPT !.tl = Number(args[1])]
  <2>3. SetState(c, op, args) = [c EXCEPT !.g = g]
    BY <1>1, <1>5 DEF SetState, ContentState, GState
  <2>4. g \in GState /\ g.tf = c.g.tf
    BY <1>1, <2>2 DEF GState
  <2> HIDE DEF g
  <2> QED
    BY <1>2, <2>3, <2>4
<1> QED
  BY <1>3, <1>4, <1>5 DEF StateOps

LEMMA NextLineStep ==
    ASSUME NEW c \in ContentState, NEW d \in Int \X Int
    PROVE  Continues(NextLine(c, d), c) /\ NextLine(c, d).text = c.text
<1> DEFINE there == Moved(c.g.tlm, d)
           g == [c.g EXCEPT !.tlm = there, !.tm = there]
<1>1. c.g \in GState /\ c.g.tlm \in Matrix
  BY DEF ContentState, GState
<1>2. there \in Matrix
  BY <1>1, MovedTyped
<1>3. NextLine(c, d) = [c EXCEPT !.g = g]
  BY <1>1 DEF NextLine, ContentState, GState
<1> HIDE DEF there
<1>4. g \in GState /\ g.tf = c.g.tf
  BY <1>1, <1>2 DEF GState
<1> HIDE DEF g
<1> QED
  BY <1>3, <1>4, MovedStep

\* The operators that start a line show nothing themselves.
LEMMA MoveLineStep ==
    ASSUME NEW c \in ContentState, NEW op \in LineOps,
           NEW args \in Seq(Value), ~ContentPanics(c, op, args)
    PROVE  Continues(MoveLine(c, op, args), c) /\ MoveLine(c, op, args).text = c.text
<1>1. c.g \in GState /\ c.g.tl \in Int
  BY DEF ContentState, GState
<1>2. <<0, -c.g.tl>> \in Int \X Int
  BY <1>1
<1>3. CASE op \in {"Td", "TD"}
  <2>1. Len(args) = 2
    BY <1>3, Zenon DEF ContentPanics
  <2>2. 1 \in 1..Len(args) /\ 2 \in 1..Len(args)
    BY <2>1
  <2> DEFINE d == <<Number(args[1]), Number(args[2])>>
  <2>3. d \in Int \X Int /\ -Number(args[2]) \in Int
    BY <2>2, ArgTyped
  <2>4. CASE op = "Td"
    <3>1. MoveLine(c, op, args) = NextLine(c, d)
      BY <2>4 DEF MoveLine
    <3> HIDE DEF d
    <3> QED
      BY <2>3, <3>1, NextLineStep
  <2>5. CASE op = "TD"
    <3> DEFINE g == [c.g EXCEPT !.tl = -Number(args[2])]
               b == [c EXCEPT !.g = g]
    <3>1. MoveLine(c, op, args) = NextLine(b, d)
      BY <1>1, <2>5 DEF MoveLine, ContentState, GState
    <3>2. g \in GState /\ g.tf = c.g.tf
      BY <1>1, <2>3 DEF GState
    <3> HIDE DEF g, d
    <3>3. Continues(b, c) /\ b.text = c.text
      BY <3>2, MovedStep
    <3> HIDE DEF b
    <3>4. Continues(NextLine(b, d), b) /\ NextLine(b, d).text = b.text
      BY <2>3, <3>3, NextLineStep DEF Continues
    <3> QED
      BY <3>1, <3>3, <3>4 DEF Continues
  <2> QED
    BY <1>3, <2>4, <2>5
<1>4. CASE op \in {"T*", "'"}
  <2>1. MoveLine(c, op, args) = NextLine(c, <<0, -c.g.tl>>)
    <3>1. CASE op = "T*"
      BY <3>1 DEF MoveLine
    <3>2. CASE op = "'"
      BY <3>2 DEF MoveLine
    <3> QED
      BY <1>4, <3>1, <3>2
  <2> QED
    BY <1>2, <2>1, NextLineStep
<1>5. CASE op = "\""
  <2>1. Len(args) = 3
    BY <1>5, Zenon DEF ContentPanics
  <2>2. Number(args[2]) \in Int
    <3>1. 2 \in 1..Len(args)
      BY <2>1
    <3> QED
      BY <3>1, ArgTyped
  <2> DEFINE g == [c.g EXCEPT !.tc = Number(args[2])]
             b == [c EXCEPT !.g = g]
             d == <<0, -c.g.tl>>
  <2>3. MoveLine(c, op, args) = NextLine(b, d)
    BY <1>1, <1>5 DEF MoveLine, ContentState, GState
  <2>4. g \in GState /\ g.tf = c.g.tf
    BY <1>1, <2>2 DEF GState
  <2>5. d \in Int \X Int
    BY <1>2
  <2> HIDE DEF g, d
  <2>6. Continues(b, c) /\ b.text = c.text
    BY <2>4, MovedStep
  <2> HIDE DEF b
  <2>7. Continues(NextLine(b, d), b) /\ NextLine(b, d).text = b.text
    BY <2>5, <2>6, NextLineStep DEF Continues
  <2> QED
    BY <2>3, <2>6, <2>7 DEF Continues
<1> QED
  BY <1>3, <1>4, <1>5 DEF LineOps

LEMMA SetFontStep ==
    ASSUME NEW c \in ContentState, NEW op, op = "Tf", NEW args \in Seq(Value), Len(args) = 2
    PROVE  /\ SetFont(c, args) \in ContentState
           /\ SetFont(c, args).status = c.status
           /\ SetFont(c, args).quoted = c.quoted
           /\ SetFont(c, args).text = c.text
           /\ Labelled(c) => Labelled(SetFont(c, args))
           /\ Decoder(SetFont(c, args).enc) = Decoder(Lookup(op, args, c.enc))
<1> DEFINE f == Name(args[1])
           tf == FontLabel(f)
           enc == FontEncoder(f)
           tfs == Number(args[2])
           g == [c.g EXCEPT !.tf = tf, !.tfs = tfs]
           d == SetFont(c, args)
<1>1. c.g \in GState
  BY DEF ContentState
<1>2. d = [c EXCEPT !.g = g, !.enc = enc, !.restored = FALSE]
  BY <1>1 DEF SetFont, ContentState, GState
<1>3. enc \in Encoders /\ tf \in Fonts \cup {NoFont} /\ tfs \in Int
  <2>1. 2 \in 1..Len(args)
    OBVIOUS
  <2>2. tfs \in Int
    BY <2>1, ArgTyped
  <2> QED
    BY <2>2 DEF Encoders, NoFontEncoders, FontEncoder, FontLabel, HasFont
<1>4. enc = tf \/ (tf = NoFont /\ enc \in NoFontEncoders)
  BY DEF FontEncoder, FontLabel, NoFontEncoders
<1>5. Decoder(enc) = Decoder(Lookup(op, args, c.enc))
  <2>1. CASE HasFont(f)
    BY <2>1 DEF Lookup, FontEncoder
  <2>2. CASE ~HasFont(f)
    BY <2>2 DEF Decoder, Lookup, FontEncoder, NoFontEncoders
  <2> QED
    BY <2>1, <2>2
<1> HIDE DEF enc, tf, tfs, d
<1>6. g \in GState /\ g.tf = tf
  BY <1>1, <1>3 DEF GState
<1> HIDE DEF g
<1>7. /\ d \in ContentState /\ d.status = c.status /\ d.quoted = c.quoted
      /\ d.text = c.text /\ d.g = g /\ d.enc = enc
  BY <1>2, <1>3, <1>6 DEF ContentState
<1>8. Labelled(c) => Labelled(d)
  BY <1>4, <1>6, <1>7 DEF Labelled
<1> QED
  BY <1>5, <1>7, <1>8 DEF d

\* Q leaves the encoder, and notes if it brings back another font.
LEMMA RestoreStep ==
    ASSUME NEW c \in ContentState, c.gstack # << >>
    PROVE  Continues(Restore(c), c) /\ Restore(c).text = c.text
<1> DEFINE g == Last(c.gstack)
           other == g.tf # c.g.tf
           d == Restore(c)
<1>1. c.gstack \in Seq(GState) /\ Len(c.gstack) \in 1..Len(c.gstack)
  BY DEF ContentState
<1>2. g \in GState
  BY <1>1 DEF Last
<1>3. Front(c.gstack) \in Seq(GState)
  BY <1>1 DEF Front
<1>4. d = [c EXCEPT !.g = g, !.gstack = Front(c.gstack), !.restored = c.restored \/ other]
  BY DEF Restore
<1> HIDE DEF d, g
<1>5. /\ d \in ContentState /\ d.status = c.status /\ d.quoted = c.quoted
      /\ d.text = c.text /\ d.g = g /\ d.enc = c.enc
  BY <1>2, <1>3, <1>4 DEF ContentState
<1>6. d.restored = (c.restored \/ g.tf # c.g.tf)
  BY <1>4 DEF ContentState
<1>7. Labelled(c) => Labelled(d)
  BY <1>5, <1>6 DEF Labelled
<1> QED
  BY <1>5, <1>7 DEF Continues, d

LEMMA LastArgTyped ==
    ASSUME NEW args \in Seq(Value), Len(args) = 1 \/ Len(args) = 3
    PROVE  RawString(args[Len(args)]) \in Strings
<1>1. Len(args) \in 1..Len(args)
  OBVIOUS
<1> QED
  BY <1>1, ArgTyped

\* The strings of the operators ' and " come after the move to the next line.
LEMMA QuoteStep ==
    ASSUME NEW c \in ContentState, NEW op \in QuoteOps,
           NEW args \in Seq(Value), ~ContentPanics(c, op, args)
    PROVE  LET d == ContentDo(c, op, args)
           IN /\ d \in ContentState /\ d.status = c.status /\ d.enc = c.enc
              /\ d.quoted = (c.quoted \/ op = "\"")
              /\ Labelled(c) => Labelled(d)
              /\ op = "'" =>
                    Glyphs(d.text) = AndGlyph(Glyphs(c.text), c.enc, RawString(args[1]))
<1> DEFINE s == RawString(args[Len(args)])
           quote == (op = "\"")
           b == MoveLine(c, op, args)
           m == [b EXCEPT !.quoted = b.quoted \/ quote]
<1>1. /\ op = "'" => Len(args) = 1
      /\ op = "\"" => Len(args) = 3
  BY Zenon DEF ContentPanics, OneOperand
<1>2. op = "'" \/ op = "\""
  BY DEF QuoteOps
<1>3. s \in Strings
  <2>1. Len(args) = 1 \/ Len(args) = 3
    BY <1>1, <1>2, Zenon
  <2> QED
    BY <2>1, LastArgTyped, Zenon
<1>4. ContentDo(c, op, args) = ShowText(m, s)
  <2>1. CASE op = "'"
    BY <2>1 DEF ContentDo
  <2>2. CASE op = "\""
    BY <2>2 DEF ContentDo
  <2> QED
    BY <1>2, <2>1, <2>2
<1>5. op \in LineOps
  BY <1>2 DEF LineOps
<1>6. Continues(b, c) /\ b.text = c.text
  BY <1>5, MoveLineStep
<1> HIDE DEF b, s
<1>7. /\ m \in ContentState /\ m.status = b.status /\ m.enc = b.enc /\ m.text = b.text
      /\ m.g = b.g /\ m.restored = b.restored /\ m.quoted = (b.quoted \/ quote)
  <2> HIDE DEF quote
  <2>1. (b.quoted \/ quote) \in BOOLEAN
    OBVIOUS
  <2> QED
    BY <1>6, <2>1 DEF Continues, ContentState
<1> HIDE DEF m
<1>8. Labelled(c) => Labelled(m)
  BY <1>6, <1>7 DEF Continues, Labelled
<1>9. /\ Continues(ShowText(m, s), m)
      /\ Glyphs(ShowText(m, s).text) = AndGlyph(Glyphs(m.text), m.enc, s)
  BY <1>3, <1>7, ShowTextStep
<1>10. op = "'" => s = RawString(args[1])
  BY <1>1 DEF s
<1> QED
  BY <1>4, <1>6, <1>7, <1>8, <1>9, <1>10 DEF Continues

\* What an operator on a call of Content leads to.
DoneWell(d, c, op, args) ==
    /\ d \in ContentState /\ d.status = c.status
    /\ d.quoted = (c.quoted \/ op = "\"")
    /\ Labelled(c) => Labelled(d)
    /\ op # "\"" => /\ Decoder(d.enc) = NewDecoder(op, args, c.enc)
                    /\ Shows(op, args, Glyphs(c.text), c.enc, Glyphs(d.text))

\* An operator that shows nothing and is not Tf.
LEMMA QuietStep ==
    ASSUME NEW c \in ContentState, NEW d, NEW op, NEW args,
           op \notin {"TJ", "'", "Tj", "Tf", "\""},
           Continues(d, c), d.text = c.text
    PROVE  DoneWell(d, c, op, args)
<1>1. op # "TJ" /\ op # "'" /\ op # "Tj" /\ op # "Tf" /\ op # "\""
  OBVIOUS
<1>2. d.quoted = (c.quoted \/ op = "\"")
  BY <1>1 DEF Continues, ContentState
<1> QED
  BY <1>1, <1>2 DEF Continues, DoneWell, Shows, NewDecoder

LEMMA ContentDoStep ==
    ASSUME NEW c \in ContentState, NEW op, NEW args \in Seq(Value),
           ~ContentPanics(c, op, args)
    PROVE  DoneWell(ContentDo(c, op, args), c, op, args)
<1> DEFINE d == ContentDo(c, op, args)
<1>1. CASE op \in StateOps
  <2>1. d = SetState(c, op, args)
    BY <1>1 DEF ContentDo, StateOps
  <2>2. Continues(SetState(c, op, args), c) /\ SetState(c, op, args).text = c.text
    BY <1>1, SetStateStep
  <2>3. op \notin {"TJ", "'", "Tj", "Tf", "\""}
    BY <1>1 DEF StateOps
  <2> HIDE DEF d
  <2>4. DoneWell(d, c, op, args)
    BY <2>1, <2>2, <2>3, QuietStep
  <2> QED
    BY <2>4 DEF d
<1>2. CASE op = "Tf"
  <2>1. d = SetFont(c, args)
    BY <1>2 DEF ContentDo, SetState
  <2> HIDE DEF d
  <2>2. /\ d \in ContentState /\ d.status = c.status /\ d.quoted = c.quoted
        /\ d.text = c.text /\ (Labelled(c) => Labelled(d))
        /\ Decoder(d.enc) = Decoder(Lookup(op, args, c.enc))
    <3>1. Len(args) = 2
      BY <1>2, Zenon DEF ContentPanics
    <3> QED
      BY <1>2, <2>1, <3>1, SetFontStep
  <2>3. op # "TJ" /\ op # "'" /\ op # "Tj" /\ op # "\""
    BY <1>2
  <2>4. d.quoted = (c.quoted \/ op = "\"")
    BY <2>2, <2>3 DEF ContentState
  <2>5. DoneWell(d, c, op, args)
    BY <1>2, <2>2, <2>3, <2>4 DEF DoneWell, Shows, NewDecoder
  <2> QED
    BY <2>5 DEF d
<1>3. CASE op = "q"
  <2> DEFINE stack == Append(c.gstack, c.g)
  <2>1. d = [c EXCEPT !.gstack = stack]
    BY <1>3 DEF ContentDo
  <2>2. stack \in Seq(GState)
    BY DEF ContentState
  <2> HIDE DEF d, stack
  <2>3. /\ d \in ContentState /\ d.status = c.status /\ d.quoted = c.quoted
        /\ d.text = c.text /\ d.g = c.g /\ d.enc = c.enc /\ d.restored = c.restored
    BY <2>1, <2>2 DEF ContentState
  <2>4. Continues(d, c)
    BY <2>3 DEF Continues, Labelled
  <2>5. op \notin {"TJ", "'", "Tj", "Tf", "\""}
    BY <1>3
  <2>6. DoneWell(d, c, op, args)
    BY <2>3, <2>4, <2>5, QuietStep
  <2> QED
    BY <2>6 DEF d
<1>4. CASE op = "Q"
  <2>1. d = Restore(c) /\ c.gstack # << >>
    BY <1>4 DEF ContentDo, ContentPanics
  <2> HIDE DEF d
  <2>2. Continues(d, c) /\ d.text = c.text
    BY <2>1, RestoreStep
  <2>3. op \notin {"TJ", "'", "Tj", "Tf", "\""}
    BY <1>4
  <2>4. DoneWell(d, c, op, args)
    BY <2>2, <2>3, QuietStep
  <2> QED
    BY <2>4 DEF d
<1>5. CASE op \in {"Td", "TD", "T*"}
  <2>1. d = MoveLine(c, op, args)
    BY <1>5 DEF ContentDo
  <2>2. op \in LineOps
    BY <1>5 DEF LineOps
  <2> HIDE DEF d
  <2>3. Continues(d, c) /\ d.text = c.text
    BY <2>1, <2>2, MoveLineStep
  <2>4. op \notin {"TJ", "'", "Tj", "Tf", "\""}
    BY <1>5
  <2>5. DoneWell(d, c, op, args)
    BY <2>3, <2>4, QuietStep
  <2> QED
    BY <2>5 DEF d
<1>6. CASE op \in QuoteOps
  <2> HIDE DEF d
  <2>1. /\ d \in ContentState /\ d.status = c.status /\ d.enc = c.enc
        /\ d.quoted = (c.quoted \/ op = "\"")
        /\ Labelled(c) => Labelled(d)
        /\ op = "'" =>
              Glyphs(d.text) = AndGlyph(Glyphs(c.text), c.enc, RawString(args[1]))
    BY <1>6, QuoteStep DEF d
  <2>2. op # "\"" => op = "'"
    BY <1>6 DEF QuoteOps
  <2>3. op # "TJ" /\ op # "Tj" /\ op # "Tf"
    BY <1>6 DEF QuoteOps
  <2>4. DoneWell(d, c, op, args)
    BY <2>1, <2>2, <2>3 DEF DoneWell, Shows, NewDecoder
  <2> QED
    BY <2>4 DEF d
<1>7. CASE op = "Tj"
  <2>1. Len(args) = 1
    BY <1>7, Zenon DEF ContentPanics, OneOperand
  <2>2. RawString(args[1]) \in Strings
    <3>1. 1 \in 1..Len(args)
      BY <2>1
    <3> QED
      BY <3>1, ArgTyped
  <2>3. d = ShowText(c, RawString(args[1]))
    BY <1>7 DEF ContentDo
  <2> HIDE DEF d
  <2>4. /\ Continues(d, c)
        /\ Glyphs(d.text) = AndGlyph(Glyphs(c.text), c.enc, RawString(args[1]))
    BY <2>2, <2>3, ShowTextStep
  <2>5. op # "TJ" /\ op # "Tf" /\ op # "\""
    BY <1>7
  <2>6. d.quoted = (c.quoted \/ op = "\"")
    BY <2>4, <2>5 DEF Continues, ContentState
  <2>7. DoneWell(d, c, op, args)
    BY <1>7, <2>4, <2>5, <2>6 DEF Continues, DoneWell, Shows, NewDecoder
  <2> QED
    BY <2>7 DEF d
<1>8. CASE op = "TJ"
  <2> DEFINE b == ShowArray(c, Elements(args[1]))
  <2>1. args # << >>
    BY <1>8 DEF ContentPanics
  <2>2. Elements(args[1]) \in Seq(Element)
    BY <2>1, OperandTyped
  <2>3. d = ShowText(b, NL)
    BY <1>8 DEF ContentDo
  <2> HIDE DEF d, b
  <2>4. Continues(b, c) /\ Adds(Glyphs(c.text), c.enc, Elements(args[1]), Glyphs(b.text))
    BY <2>2, ShowArrayStep DEF b
  <2>5. Continues(d, b) /\ Glyphs(d.text) = Glyphs(b.text)
    BY <2>3, <2>4, ShowTextStep DEF Continues, AndGlyph, Strings
  <2>6. Continues(d, c)
    BY <2>4, <2>5 DEF Continues
  <2>7. op # "Tj" /\ op # "'" /\ op # "Tf" /\ op # "\""
    BY <1>8
  <2>8. d.quoted = (c.quoted \/ op = "\"")
    BY <2>6, <2>7 DEF Continues, ContentState
  <2>9. DoneWell(d, c, op, args)
    BY <1>8, <2>4, <2>5, <2>6, <2>7, <2>8 DEF Continues, DoneWell, Shows, NewDecoder
  <2> QED
    BY <2>9 DEF d
<1>9. CASE /\ op \notin StateOps /\ op \notin QuoteOps
           /\ op \notin {"Tf", "q", "Q", "Td", "TD", "T*", "Tj", "TJ"}
  <2>1. d = c
    BY <1>9 DEF ContentDo, StateOps, QuoteOps
  <2>2. op \notin {"TJ", "'", "Tj", "Tf", "\""}
    BY <1>9 DEF QuoteOps
  <2>3. Continues(c, c)
    BY DEF Continues
  <2> HIDE DEF d
  <2>4. DoneWell(d, c, op, args)
    BY <2>1, <2>2, <2>3, QuietStep
  <2> QED
    BY <2>4 DEF d
<1> QED
  BY <1>1, <1>2, <1>3, <1>4, <1>5, <1>6, <1>7, <1>8, <1>9

-----------------------------------------------------------------------------
(* The machine of Interpret. *)

\* Whatever the values are, newDict is one of them.
HasDicts(V) == \A r \in Nat : Dict(r) \in V

LEMMA ValueHasDicts == HasDicts(Value)
BY DEF HasDicts, Value, Dict

LEMMA RecordExcept ==
    ASSUME NEW a, NEW b, NEW c, NEW r, r = [stk |-> a, dicts |-> b, heap |-> c], NEW x
    PROVE  /\ [r EXCEPT !.stk = x] = [stk |-> x, dicts |-> b, heap |-> c]
           /\ [r EXCEPT !.heap = x] = [stk |-> a, dicts |-> b, heap |-> x]
OBVIOUS

LEMMA MachineExcept ==
    ASSUME NEW V, NEW m, IsMachine(V, m), NEW s
    PROVE  /\ [m EXCEPT !.stk = s] = [stk |-> s, dicts |-> m.dicts, heap |-> m.heap]
           /\ [m EXCEPT !.dicts = s] = [stk |-> m.stk, dicts |-> s, heap |-> m.heap]
<1>1. PICK a, b, c : m = [stk |-> a, dicts |-> b, heap |-> c]
  BY DEF IsMachine
<1> QED
  BY <1>1

\* A machine with other stacks over the same dictionaries.
LEMMA StacksMachine ==
    ASSUME NEW V, NEW m, IsMachine(V, m), NEW stk \in Seq(V), NEW dicts \in Seq(DOMAIN m.heap),
           \A i \in DOMAIN stk : Known(V, m, stk[i]),
           NEW k, k = [stk |-> stk, dicts |-> dicts, heap |-> m.heap]
    PROVE  IsMachine(V, k)
<1>1. k.stk = stk /\ k.dicts = dicts /\ k.heap = m.heap
  OBVIOUS
<1>2. \A v : Known(V, k, v) <=> Known(V, m, v)
  BY <1>1 DEF Known
<1> QED
  BY <1>1, <1>2 DEF IsMachine

LEMMA StartMachine ==
    ASSUME NEW V
    PROVE  IsMachine(V, Start)
<1>1. Start.stk = << >> /\ Start.dicts = << >> /\ Start.heap = << >>
  BY DEF Start
<1>2. Len(<< >>) = 0 /\ << >> \in Seq(V) /\ << >> \in Seq(DOMAIN Start.heap)
      /\ DOMAIN << >> = {}
  BY EmptySeq
<1>3. << >> = [r \in 1..0 |-> << >>[r]]
  OBVIOUS
<1>4. Start = [stk |-> Start.stk, dicts |-> Start.dicts, heap |-> Start.heap]
  BY DEF Start
<1> QED
  BY <1>1, <1>2, <1>3, <1>4 DEF IsMachine

LEMMA PushMachine ==
    ASSUME NEW V, NEW m, IsMachine(V, m), NEW v, Known(V, m, v)
    PROVE  IsMachine(V, Push(m, v)) /\ Push(m, v).heap = m.heap
<1> DEFINE stk == Append(m.stk, v)
<1>1. v \in V /\ m.stk \in Seq(V)
  BY DEF IsMachine, Known
<1>2. /\ stk \in Seq(V) /\ DOMAIN stk = 1..Len(m.stk) + 1
      /\ stk[Len(m.stk) + 1] = v /\ \A i \in 1..Len(m.stk) : stk[i] = m.stk[i]
      /\ DOMAIN m.stk = 1..Len(m.stk) /\ Len(m.stk) \in Nat
  BY <1>1, AppendProperties
<1>3. Push(m, v) = [stk |-> stk, dicts |-> m.dicts, heap |-> m.heap]
  BY MachineExcept DEF Push
<1> HIDE DEF stk
<1>4. \A i \in DOMAIN stk : Known(V, m, stk[i])
  <2> SUFFICES ASSUME NEW i \in 1..Len(m.stk) + 1 PROVE Known(V, m, stk[i])
    BY <1>2
  <2>1. i = Len(m.stk) + 1 \/ i \in 1..Len(m.stk)
    BY <1>2
  <2> QED
    BY <1>2, <2>1 DEF IsMachine
<1>5. m.dicts \in Seq(DOMAIN m.heap)
  BY DEF IsMachine
<1>6. IsMachine(V, Push(m, v))
  BY <1>2, <1>3, <1>4, <1>5, StacksMachine
<1> QED
  BY <1>3, <1>6

LEMMA PoppedMachine ==
    ASSUME NEW V, NEW m, IsMachine(V, m)
    PROVE  /\ IsMachine(V, Popped(m)) /\ Popped(m).heap = m.heap /\ Popped(m).dicts = m.dicts
           /\ m.stk # << >> => Known(V, m, Top(m))
<1>1. m.stk \in Seq(V) /\ m.dicts \in Seq(DOMAIN m.heap)
  BY DEF IsMachine
<1>2. CASE m.stk = << >>
  BY <1>2 DEF Popped
<1>3. CASE m.stk # << >>
  <2> DEFINE stk == Front(m.stk)
  <2>1. /\ stk \in Seq(V) /\ Len(m.stk) \in 1..Len(m.stk)
        /\ DOMAIN stk \subseteq 1..Len(m.stk) /\ DOMAIN m.stk = 1..Len(m.stk)
        /\ \A i \in DOMAIN stk : stk[i] = m.stk[i]
    BY <1>1, <1>3 DEF Front
  <2>2. Popped(m) = [stk |-> stk, dicts |-> m.dicts, heap |-> m.heap]
    BY <1>3, MachineExcept DEF Popped
  <2> HIDE DEF stk
  <2>3. \A i \in DOMAIN stk : Known(V, m, stk[i])
    BY <2>1 DEF IsMachine
  <2>4. IsMachine(V, Popped(m))
    BY <1>1, <2>1, <2>2, <2>3, StacksMachine
  <2>5. Known(V, m, Top(m))
    BY <1>3, <2>1 DEF Top, Last, IsMachine
  <2> QED
    BY <2>2, <2>4, <2>5
<1> QED
  BY <1>2, <1>3

\* What is not null came from the stack.
LEMMA TopKnown ==
    ASSUME NEW V, NEW m, IsMachine(V, m), Top(m).kind # "null"
    PROVE  m.stk # << >> /\ Known(V, m, Top(m))
<1>1. m.stk # << >>
  BY DEF Top, Null
<1> QED
  BY <1>1, PoppedMachine

\* A machine with more dictionaries, or with other ones at the same places.
LEMMA HeapMachine ==
    ASSUME NEW V, NEW m, IsMachine(V, m), NEW heap,
           heap = [r \in 1..Len(heap) |-> heap[r]], Len(heap) \in Nat,
           DOMAIN m.heap \subseteq DOMAIN heap,
           NEW k, k = [stk |-> m.stk, dicts |-> m.dicts, heap |-> heap],
           \A r \in DOMAIN heap : \A n \in DOMAIN heap[r] : Known(V, k, heap[r][n])
    PROVE  IsMachine(V, k)
<1>1. k.stk = m.stk /\ k.dicts = m.dicts /\ k.heap = heap
  OBVIOUS
<1>2. \A v : Known(V, m, v) => Known(V, k, v)
  BY <1>1 DEF Known
<1>3. k.dicts \in Seq(DOMAIN heap)
  BY <1>1, SeqMonotonic DEF IsMachine
<1> QED
  BY <1>1, <1>2, <1>3 DEF IsMachine

\* A sequence is one of its own elements and of one more.
LEMMA HeapAppend ==
    ASSUME NEW heap, heap = [r \in 1..Len(heap) |-> heap[r]], Len(heap) \in Nat, NEW d
    PROVE  LET more == Append(heap, d)
           IN /\ more = [r \in 1..Len(more) |-> more[r]] /\ Len(more) = Len(heap) + 1
              /\ \A r \in 1..Len(heap) : more[r] = heap[r]
              /\ more[Len(heap) + 1] = d
<1> DEFINE n == Len(heap)
           T == {heap[r] : r \in 1..n} \cup {d}
<1>1. heap \in [1..n -> T]
  <2>1. \A r \in 1..n : heap[r] \in T
    OBVIOUS
  <2> HIDE DEF T
  <2> QED
    BY <2>1
<1> HIDE DEF T
<1>2. heap \in Seq(T)
  BY <1>1, SeqDef
<1>3. d \in T
  BY DEF T
<1>4. Append(heap, d) \in Seq(T)
  BY <1>2, <1>3, AppendProperties
<1>5. Append(heap, d) = [r \in 1..Len(Append(heap, d)) |-> Append(heap, d)[r]]
  BY <1>4, LenProperties
<1> QED
  BY <1>2, <1>3, <1>5, AppendProperties

LEMMA PushDictMachine ==
    ASSUME NEW V, NEW m, IsMachine(V, m), HasDicts(V)
    PROVE  IsMachine(V, PushDict(m))
<1> DEFINE more == Append(m.heap, << >>)
           k == [stk |-> m.stk, dicts |-> m.dicts, heap |-> more]
           top == Dict(Len(m.heap) + 1)
<1>1. m.heap = [r \in 1..Len(m.heap) |-> m.heap[r]] /\ Len(m.heap) \in Nat
      /\ DOMAIN m.heap = 1..Len(m.heap)
  <2>1. m.heap = [r \in 1..Len(m.heap) |-> m.heap[r]] /\ Len(m.heap) \in Nat
    BY DEF IsMachine
  <2>2. DOMAIN [r \in 1..Len(m.heap) |-> m.heap[r]] = 1..Len(m.heap)
    OBVIOUS
  <2> QED
    BY <2>1, <2>2, Zenon
<1>2. /\ more = [r \in 1..Len(more) |-> more[r]] /\ Len(more) = Len(m.heap) + 1
      /\ \A r \in 1..Len(m.heap) : more[r] = m.heap[r]
      /\ more[Len(m.heap) + 1] = << >>
  BY <1>1, HeapAppend
<1>3. PushDict(m) = Push(k, top)
  <2>1. PICK a, b, c : m = [stk |-> a, dicts |-> b, heap |-> c]
    BY DEF IsMachine
  <2> DEFINE stk == Append(m.stk, top)
  <2>2. PushDict(m) = [m EXCEPT !.heap = more, !.stk = stk]
    BY DEF PushDict
  <2>3. Push(k, top) = [k EXCEPT !.stk = stk]
    BY DEF Push
  <2>4. k = [stk |-> a, dicts |-> b, heap |-> more]
    BY <2>1
  <2> HIDE DEF more, stk, k
  <2> DEFINE q == [m EXCEPT !.heap = more]
  <2>5. q = [stk |-> a, dicts |-> b, heap |-> more]
    BY <2>1, RecordExcept
  <2> HIDE DEF q
  <2>6. /\ [q EXCEPT !.stk = stk] = [stk |-> stk, dicts |-> b, heap |-> more]
        /\ [k EXCEPT !.stk = stk] = [stk |-> stk, dicts |-> b, heap |-> more]
    BY <2>4, <2>5, RecordExcept
  <2> QED
    BY <2>2, <2>3, <2>6 DEF q
<1> HIDE DEF more
<1>4. k.stk = m.stk /\ k.dicts = m.dicts /\ k.heap = more
  OBVIOUS
<1> HIDE DEF k
<1>5. DOMAIN more = 1..Len(m.heap) + 1
  <2>1. DOMAIN [r \in 1..Len(more) |-> more[r]] = 1..Len(more)
    OBVIOUS
  <2> QED
    BY <1>2, <2>1, Zenon
<1>6. \A r \in DOMAIN more : \A n \in DOMAIN more[r] : Known(V, k, more[r][n])
  <2> SUFFICES ASSUME NEW r \in 1..Len(m.heap) + 1, NEW n \in DOMAIN more[r]
               PROVE  Known(V, k, more[r][n])
    BY <1>5
  <2>1. r # Len(m.heap) + 1
    BY <1>2, EmptySeq
  <2>2. r \in 1..Len(m.heap)
    BY <1>1, <2>1
  <2>3. Known(V, m, m.heap[r][n])
    BY <1>1, <1>2, <2>2 DEF IsMachine
  <2> QED
    BY <1>1, <1>2, <1>4, <1>5, <2>2, <2>3 DEF Known
<1>7. IsMachine(V, k)
  <2>1. DOMAIN m.heap \subseteq DOMAIN more /\ Len(more) \in Nat
    BY <1>1, <1>2, <1>5
  <2> QED
    BY <1>2, <1>4, <1>6, <2>1, HeapMachine DEF k
<1>8. Known(V, k, top)
  BY <1>1, <1>4, <1>5 DEF Known, HasDicts, Dict
<1> QED
  BY <1>3, <1>7, <1>8, PushMachine

\* def: the new meaning is a value that was on the stack.
LEMMA DefineMachine ==
    ASSUME NEW V, NEW m, IsMachine(V, m), m.dicts # << >>
    PROVE  IsMachine(V, Define(m))
<1> DEFINE key == Top(Popped(m))
           rest == Popped(Popped(m))
           d == Last(m.dicts)
           meaning == WithMeaning(m.heap[d], key.name, Top(m))
           heap == [m.heap EXCEPT ![d] = meaning]
           k == [stk |-> rest.stk, dicts |-> rest.dicts, heap |-> heap]
<1>1. IsMachine(V, rest) /\ rest.heap = m.heap /\ rest.dicts = m.dicts
  BY PoppedMachine
<1>2. CASE key.kind # "name"
  BY <1>1, <1>2 DEF Define
<1>3. CASE key.kind = "name"
  <2>1. m.stk # << >>
    <3> SUFFICES ASSUME m.stk = << >> PROVE FALSE
      OBVIOUS
    <3>1. key = Null
      BY DEF Popped, Top
    <3> QED
      BY <1>3, <3>1 DEF Null
  <2>2. Known(V, m, Top(m))
    BY <2>1, PoppedMachine
  <2>3. m.heap = [r \in 1..Len(m.heap) |-> m.heap[r]] /\ Len(m.heap) \in Nat
        /\ DOMAIN m.heap = 1..Len(m.heap)
    <3>1. m.heap = [r \in 1..Len(m.heap) |-> m.heap[r]] /\ Len(m.heap) \in Nat
      BY DEF IsMachine
    <3>2. DOMAIN [r \in 1..Len(m.heap) |-> m.heap[r]] = 1..Len(m.heap)
      OBVIOUS
    <3> QED
      BY <3>1, <3>2, Zenon
  <2>4. d \in DOMAIN m.heap
    <3>1. m.dicts \in Seq(DOMAIN m.heap) /\ Len(m.dicts) \in 1..Len(m.dicts)
      BY DEF IsMachine
    <3> QED
      BY <3>1 DEF Last
  <2>5. Define(m) = k
    <3>1. PICK a, b, c : rest = [stk |-> a, dicts |-> b, heap |-> c]
      BY <1>1 DEF IsMachine
    <3>2. Define(m) = [rest EXCEPT !.heap[d] = WithMeaning(@, key.name, Top(m))]
      BY <1>3 DEF Define
    <3> HIDE DEF rest, d, key
    <3> QED
      BY <1>1, <3>1, <3>2
  <2>6. \A n \in DOMAIN meaning : Known(V, m, meaning[n])
    <3>1. /\ DOMAIN meaning = {key.name} \cup DOMAIN m.heap[d]
          /\ \A n \in DOMAIN meaning :
                meaning[n] = Top(m) \/ (n \in DOMAIN m.heap[d] /\ meaning[n] = m.heap[d][n])
      BY DEF WithMeaning
    <3> HIDE DEF meaning
    <3> QED
      BY <2>2, <2>4, <3>1 DEF IsMachine
  <2> HIDE DEF meaning, d
  <2>7. DOMAIN heap = DOMAIN m.heap
    OBVIOUS
  <2>8. \A r \in DOMAIN heap : \A n \in DOMAIN heap[r] : Known(V, m, heap[r][n])
    <3> TAKE r \in DOMAIN heap
    <3>1. CASE r = d
      BY <2>3, <2>4, <2>6, <3>1
    <3>2. CASE r # d
      <4>1. heap[r] = m.heap[r]
        BY <2>3, <3>2
      <4> QED
        BY <2>7, <4>1 DEF IsMachine
    <3> QED
      BY <3>1, <3>2
  <2>9. heap = [r \in 1..Len(m.heap) |-> heap[r]] /\ Len(heap) = Len(m.heap)
    <3>1. \A a : m.heap = [r \in 1..Len(m.heap) |-> m.heap[r]] =>
              [m.heap EXCEPT ![d] = a] = [r \in 1..Len(m.heap) |-> [m.heap EXCEPT ![d] = a][r]]
      OBVIOUS
    <3>2. heap = [r \in 1..Len(m.heap) |-> heap[r]]
      BY <2>3, <3>1
    <3>3. heap \in Seq({heap[r] : r \in 1..Len(m.heap)})
      <4> HIDE DEF heap
      <4>1. heap \in [1..Len(m.heap) -> {heap[r] : r \in 1..Len(m.heap)}]
        BY <3>2
      <4> QED
        BY <2>3, <4>1, SeqDef
    <3>4. DOMAIN heap = 1..Len(heap) /\ Len(heap) \in Nat
      BY <3>3, LenProperties
    <3>5. Len(heap) = Len(m.heap)
      BY <2>3, <2>7, <3>4
    <3> QED
      BY <3>2, <3>5
  <2> HIDE DEF heap
  <2>10. k.stk = rest.stk /\ k.dicts = rest.dicts /\ k.heap = heap
    OBVIOUS
  <2> HIDE DEF rest
  <2>11. \A v : Known(V, m, v) => Known(V, k, v)
    BY <2>7, <2>10 DEF Known
  <2> HIDE DEF k
  <2>12. heap = [r \in 1..Len(heap) |-> heap[r]] /\ Len(heap) \in Nat
    BY <2>3, <2>9
  <2>13. \A r \in DOMAIN heap : \A n \in DOMAIN heap[r] : Known(V, k, heap[r][n])
    BY <2>8, <2>11
  <2>14. DOMAIN rest.heap \subseteq DOMAIN heap
    BY <1>1, <2>7
  <2>15. IsMachine(V, k)
    BY <1>1, <2>12, <2>13, <2>14, HeapMachine DEF k
  <2> QED
    BY <2>5, <2>15
<1> QED
  BY <1>2, <1>3

LEMMA HeapDomain ==
    ASSUME NEW V, NEW m, IsMachine(V, m)
    PROVE  DOMAIN m.heap = 1..Len(m.heap) /\ Len(m.heap) \in Nat
<1>1. m.heap = [r \in 1..Len(m.heap) |-> m.heap[r]] /\ Len(m.heap) \in Nat
  BY DEF IsMachine
<1>2. DOMAIN [r \in 1..Len(m.heap) |-> m.heap[r]] = 1..Len(m.heap)
  OBVIOUS
<1> QED
  BY <1>1, <1>2, Zenon

LEMMA StacksTyped ==
    ASSUME NEW S, NEW s \in Seq(S)
    PROVE  /\ \A x \in S : Append(s, x) \in Seq(S)
           /\ s # << >> => Front(s) \in Seq(S)
BY AppendProperties DEF Front

\* The keywords that Interpret handles itself keep the machine well formed.
LEMMA BuiltinMachine ==
    ASSUME NEW V, NEW m, IsMachine(V, m), HasDicts(V), NEW kw \in Builtins, ~BuiltinPanics(m, kw)
    PROVE  IsMachine(V, AfterBuiltin(m, kw))
<1>1. m.stk \in Seq(V) /\ m.dicts \in Seq(DOMAIN m.heap)
      /\ \A i \in DOMAIN m.stk : Known(V, m, m.stk[i])
  BY DEF IsMachine
<1>2. CASE kw = "dict"
  <2>1. AfterBuiltin(m, kw) = PushDict(Popped(m))
    BY <1>2 DEF AfterBuiltin
  <2> QED
    BY <2>1, PoppedMachine, PushDictMachine
<1>3. CASE kw = "currentdict"
  <2>1. AfterBuiltin(m, kw) = Push(m, Dict(Last(m.dicts))) /\ m.dicts # << >>
    BY <1>3 DEF AfterBuiltin, BuiltinPanics
  <2>2. Last(m.dicts) \in DOMAIN m.heap
    BY <1>1, <2>1 DEF Last
  <2>3. Known(V, m, Dict(Last(m.dicts)))
    BY <2>2, HeapDomain DEF Known, HasDicts, Dict
  <2> QED
    BY <2>1, <2>3, PushMachine
<1>4. CASE kw = "begin"
  <2> DEFINE q == Popped(m)
             dicts == Append(q.dicts, Top(m).ref)
  <2>1. AfterBuiltin(m, kw) = [q EXCEPT !.dicts = dicts] /\ Top(m).kind = "dict"
    BY <1>4 DEF AfterBuiltin, BuiltinPanics
  <2>2. Top(m).ref \in DOMAIN m.heap
    BY <2>1, TopKnown DEF Known
  <2>3. IsMachine(V, q) /\ q.heap = m.heap /\ q.dicts = m.dicts
    BY PoppedMachine
  <2> HIDE DEF q
  <2>4. dicts \in Seq(DOMAIN q.heap)
    BY <1>1, <2>2, <2>3, StacksTyped, Zenon
  <2> HIDE DEF dicts
  <2>5. [q EXCEPT !.dicts = dicts] = [stk |-> q.stk, dicts |-> dicts, heap |-> q.heap]
    BY <2>3, MachineExcept
  <2>6. q.stk \in Seq(V) /\ \A i \in DOMAIN q.stk : Known(V, q, q.stk[i])
    BY <2>3 DEF IsMachine
  <2> QED
    BY <2>1, <2>3, <2>4, <2>5, <2>6, StacksMachine
<1>5. CASE kw = "end"
  <2> DEFINE dicts == Front(m.dicts)
  <2>1. AfterBuiltin(m, kw) = [m EXCEPT !.dicts = dicts] /\ m.dicts # << >>
    BY <1>5 DEF AfterBuiltin, BuiltinPanics
  <2>2. dicts \in Seq(DOMAIN m.heap)
    BY <1>1, <2>1, StacksTyped, Zenon
  <2> HIDE DEF dicts
  <2>3. [m EXCEPT !.dicts = dicts] = [stk |-> m.stk, dicts |-> dicts, heap |-> m.heap]
    BY MachineExcept
  <2> QED
    BY <1>1, <2>1, <2>2, <2>3, StacksMachine
<1>6. CASE kw = "def"
  BY <1>6, DefineMachine DEF AfterBuiltin, BuiltinPanics
<1>7. CASE kw = "pop"
  BY <1>7, PoppedMachine DEF AfterBuiltin
<1> QED
  BY <1>2, <1>3, <1>4, <1>5, <1>6, <1>7 DEF Builtins

\* What a keyword stands for is a value that def put into an open dictionary.
LEMMA MeaningKnown ==
    ASSUME NEW V, NEW m, IsMachine(V, m), NEW kw, Defining(m, kw) # {}
    PROVE  Known(V, m, Meaning(m, kw))
<1> DEFINE T == Defining(m, kw)
<1>1. m.dicts \in Seq(DOMAIN m.heap) /\ DOMAIN m.dicts = 1..Len(m.dicts)
      /\ Len(m.dicts) \in Nat
  BY DEF IsMachine
<1>2. T \subseteq 1..Len(m.dicts)
  BY <1>1 DEF Defining
<1> HIDE DEF T
<1>3. T \in SUBSET Nat
  BY <1>1, <1>2
<1>4. PICK x \in T : \A y \in T : y <= x
  BY <1>1, <1>2, GreatestOfSet DEF T
<1>5. Max(T) \in T
  <2>1. \A y \in T : x >= y
    BY <1>3, <1>4
  <2> QED
    BY <2>1 DEF Max
<1>6. m.dicts[Max(T)] \in DOMAIN m.heap /\ kw \in DOMAIN m.heap[m.dicts[Max(T)]]
  <2>1. \A i \in T : i \in DOMAIN m.dicts /\ kw \in DOMAIN m.heap[m.dicts[i]]
    BY DEF T, Defining
  <2>2. \A i \in DOMAIN m.dicts : m.dicts[i] \in DOMAIN m.heap
    BY <1>1
  <2> QED
    BY <1>5, <2>1, <2>2, Zenon
<1> QED
  BY <1>6 DEF Meaning, T, IsMachine

-----------------------------------------------------------------------------
(* An operator in the three calls. *)

\* The call b, with the glyphs hs, is the call a with the glyphs gs after op.
Follows(a, gs, b, hs, op, args) ==
    Decoder(b.enc) = NewDecoder(op, args, a.enc) /\ Shows(op, args, gs, a.enc, hs)

\* Two calls have shown the same, and decode the next string alike.
Together(a, gs, b, hs) == Decoder(a.enc) = Decoder(b.enc) /\ gs = hs

Agree(a, gs, b, hs) == Goes(a) /\ Goes(b) => Together(a, gs, b, hs)

RowsPanics(op, args) == TextPanics(op, args) \/ (op = "Tm" /\ Len(args) < 6)

\* A call that has not ended goes on or has failed.
LEMMA NotDone ==
    ASSUME NEW p, p.status \in Statuses, p.status # "done"
    PROVE  p.status = "running" <=> Goes(p)
BY DEF Statuses, Goes, Failed

LEMMA AgreeStep ==
    ASSUME NEW a, NEW gs, NEW b, NEW hs, NEW a1, NEW gs1, NEW b1, NEW hs1,
           NEW op, NEW args \in Seq(Value), ~TextPanics(op, args),
           Together(a, gs, b, hs),
           Follows(a, gs, a1, gs1, op, args), Follows(b, hs, b1, hs1, op, args)
    PROVE  Together(a1, gs1, b1, hs1)
<1>1. Decoder(a1.enc) = Decoder(b1.enc) /\ Decoder(a.enc) = Decoder(b.enc) /\ gs = hs
  BY DEF Follows, NewDecoder, Lookup, Together
<1>2. CASE op = "TJ"
  <2>1. args # << >>
    BY <1>2 DEF TextPanics
  <2>2. Elements(args[1]) \in Seq(Element)
    BY <2>1, OperandTyped
  <2>3. /\ Adds(gs, a.enc, Elements(args[1]), gs1)
        /\ Adds(gs, b.enc, Elements(args[1]), hs1)
    BY <1>1, <1>2 DEF Follows, Shows
  <2> QED
    BY <1>1, <2>2, <2>3, AddsTheSame DEF Together
<1>3. CASE op # "TJ"
  BY <1>1, <1>3 DEF Follows, Shows, AndGlyph, Together
<1> QED
  BY <1>2, <1>3

LEMMA FailedPlain ==
    ASSUME NEW how \in Failed
    PROVE  /\ PlainFailed(how) \in PlainState /\ PlainFailed(how).status = how
           /\ PlainFailed(how).out = << >>
BY DEF PlainFailed, PlainState, Statuses, Encoders, NoFontEncoders, Failed

LEMMA FailedRows ==
    ASSUME NEW how \in Failed
    PROVE  /\ RowsFailed(how) \in RowsState /\ RowsFailed(how).status = how
           /\ RowsFailed(how).out = << >>
BY DEF RowsFailed, RowsState, Statuses, Encoders, NoFontEncoders, Failed, Origin, Place

LEMMA FailedContent ==
    /\ \A how \in Failed :
          /\ ContentFailed(how) \in ContentState /\ ContentFailed(how).status = how
          /\ ContentFailed(how).text = << >> /\ ContentFailed(how).gstack = << >>
          /\ Labelled(ContentFailed(how))
    /\ ContentStart \in ContentState /\ Labelled(ContentStart)
    /\ ContentStart.text = << >> /\ ContentStart.enc = "nop"
    /\ ContentStart.status = "running" /\ ContentStart.quoted = FALSE
<1>1. InitialG \in GState /\ InitialG.tf = NoFont
  BY DEF InitialG, GState, Origin, Place, Matrix
<1>2. \A S : << >> \in Seq(S) /\ DOMAIN << >> = {}
  BY EmptySeq
<1>3. /\ ContentStart \in ContentState /\ ContentStart.g = InitialG
      /\ ContentStart.text = << >> /\ ContentStart.enc = "nop"
      /\ ContentStart.gstack = << >>
      /\ ContentStart.status = "running" /\ ContentStart.quoted = FALSE
  BY <1>1, <1>2 DEF ContentStart, ContentState, Statuses, Encoders, NoFontEncoders
<1> HIDE DEF ContentStart
<1>4. ASSUME NEW how \in Failed
      PROVE  /\ ContentFailed(how) \in ContentState /\ ContentFailed(how).status = how
             /\ ContentFailed(how).g = InitialG /\ ContentFailed(how).text = << >>
             /\ ContentFailed(how).gstack = << >> /\ ContentFailed(how).enc = "nop"
  BY <1>3 DEF ContentFailed, ContentState, Statuses, Failed
<1> QED
  BY <1>1, <1>2, <1>3, <1>4 DEF Labelled, NoFontEncoders

LEMMA PlainAfterStep ==
    ASSUME NEW p \in PlainState, p.status # "done", NEW op, NEW args \in Seq(Value)
    PROVE  LET q == PlainAfter(p, op, args)
           IN /\ q \in PlainState /\ q.status # "done"
              /\ Goes(q) => /\ Goes(p) /\ ~TextPanics(op, args)
                            /\ Follows(p, Glyphs(p.out), q, Glyphs(q.out), op, args)
              /\ q.status = "panicked" => p.status = "panicked" \/ TextPanics(op, args)
              /\ ~Goes(q) => q = p \/ q.out = << >>
<1>1. p.status = "running" <=> Goes(p)
  BY NotDone DEF PlainState
<1>2. CASE p.status # "running"
  BY <1>1, <1>2 DEF PlainAfter
<1>3. CASE p.status = "running" /\ TextPanics(op, args)
  <2> DEFINE q == PlainFailed("panicked")
  <2>1. PlainAfter(p, op, args) = q
    BY <1>3 DEF PlainAfter
  <2>2. q \in PlainState /\ q.status = "panicked" /\ q.out = << >> /\ ~Goes(q)
    BY FailedPlain DEF Goes, Failed
  <2> HIDE DEF q
  <2> QED
    BY <1>3, <2>1, <2>2
<1>4. CASE p.status = "running" /\ ~TextPanics(op, args)
  <2> DEFINE q == PlainDo(p, op, args)
  <2>1. PlainAfter(p, op, args) = q
    BY <1>4 DEF PlainAfter
  <2>2. /\ q \in PlainState /\ q.status = p.status
        /\ Follows(p, Glyphs(p.out), q, Glyphs(q.out), op, args)
    BY <1>4, PlainDoStep DEF Follows
  <2> HIDE DEF q
  <2>3. Goes(q)
    BY <1>4, <2>2 DEF Goes, Failed
  <2> QED
    BY <1>1, <1>4, <2>1, <2>2, <2>3
<1> QED
  BY <1>2, <1>3, <1>4

LEMMA RowsAfterStep ==
    ASSUME NEW w \in RowsState, w.status # "done", NEW op, NEW args \in Seq(Value)
    PROVE  LET q == RowsAfter(w, op, args)
           IN /\ q \in RowsState /\ q.status # "done"
              /\ Goes(q) => /\ Goes(w) /\ ~RowsPanics(op, args)
                            /\ Follows(w, Glyphs(w.out), q, Glyphs(q.out), op, args)
              /\ q.status = "panicked" => w.status = "panicked" \/ RowsPanics(op, args)
              /\ ~Goes(q) => q = w \/ q.out = << >>
<1>1. w.status = "running" <=> Goes(w)
  BY NotDone DEF RowsState
<1>2. CASE w.status # "running"
  BY <1>1, <1>2 DEF RowsAfter
<1>3. CASE w.status = "running" /\ RowsPanics(op, args)
  <2> DEFINE q == RowsFailed("panicked")
  <2>1. RowsAfter(w, op, args) = q
    BY <1>3 DEF RowsAfter, RowsPanics
  <2>2. q \in RowsState /\ q.status = "panicked" /\ q.out = << >> /\ ~Goes(q)
    BY FailedRows DEF Goes, Failed
  <2> HIDE DEF q
  <2> QED
    BY <1>3, <2>1, <2>2
<1>4. CASE w.status = "running" /\ ~RowsPanics(op, args)
  <2> DEFINE q == RowsDo(w, op, args)
  <2>1. RowsAfter(w, op, args) = q
    BY <1>4 DEF RowsAfter, RowsPanics
  <2>2. ~TextPanics(op, args) /\ (op = "Tm" => Len(args) >= 6)
    <3>1. Len(args) \in Nat
      OBVIOUS
    <3> HIDE DEF TextPanics
    <3> QED
      BY <1>4, <3>1 DEF RowsPanics
  <2>3. /\ q \in RowsState /\ q.status = w.status
        /\ Follows(w, Glyphs(w.out), q, Glyphs(q.out), op, args)
    BY <1>4, <2>2, RowsDoStep DEF Follows
  <2> HIDE DEF q
  <2>4. Goes(q)
    BY <1>4, <2>3 DEF Goes, Failed
  <2> QED
    BY <1>1, <1>4, <2>1, <2>3, <2>4
<1> QED
  BY <1>2, <1>3, <1>4

\* The call d of Content is the call c after op.
ContentGoes(c, d, op, args) ==
    /\ d \in ContentState /\ d.status # "done"
    /\ Labelled(c) => Labelled(d)
    /\ Goes(d) =>
          /\ Goes(c) /\ ~ContentPanics(c, op, args)
          /\ d.quoted = (c.quoted \/ op = "\"")
          /\ op # "\"" => Follows(c, Glyphs(c.text), d, Glyphs(d.text), op, args)
    /\ ~Goes(d) => d = c \/ (d.text = << >> /\ d.gstack = << >>)

LEMMA ContentAfterStep ==
    ASSUME NEW c \in ContentState, c.status # "done", NEW op, NEW args \in Seq(Value)
    PROVE  ContentGoes(c, ContentAfter(c, op, args), op, args)
<1>1. c.status = "running" <=> Goes(c)
  BY NotDone DEF ContentState
<1>2. CASE c.status # "running"
  BY <1>1, <1>2 DEF ContentAfter, ContentGoes
<1>3. CASE c.status = "running" /\ ContentPanics(c, op, args)
  <2> DEFINE d == ContentFailed("panicked")
  <2>1. ContentAfter(c, op, args) = d
    BY <1>3 DEF ContentAfter
  <2>2. /\ d \in ContentState /\ d.status = "panicked" /\ ~Goes(d) /\ Labelled(d)
        /\ d.text = << >> /\ d.gstack = << >>
    BY FailedContent DEF Goes, Failed
  <2> HIDE DEF d
  <2> QED
    BY <1>3, <2>1, <2>2 DEF ContentGoes
<1>4. CASE c.status = "running" /\ ~ContentPanics(c, op, args)
  <2> DEFINE d == ContentDo(c, op, args)
  <2>1. ContentAfter(c, op, args) = d
    BY <1>4 DEF ContentAfter
  <2>2. DoneWell(d, c, op, args)
    BY <1>4, ContentDoStep
  <2> HIDE DEF d
  <2>3. Goes(d) /\ d.status # "done"
    BY <1>4, <2>2 DEF DoneWell, Goes, Failed
  <2>4. op # "\"" => Follows(c, Glyphs(c.text), d, Glyphs(d.text), op, args)
    BY <2>2 DEF DoneWell, Follows
  <2>5. /\ d \in ContentState /\ (Labelled(c) => Labelled(d))
        /\ d.quoted = (c.quoted \/ op = "\"")
    BY <2>2 DEF DoneWell
  <2> QED
    BY <1>1, <1>4, <2>1, <2>3, <2>4, <2>5 DEF ContentGoes
<1> QED
  BY <1>2, <1>3, <1>4

\* Where Content goes on and the operator is not ", the other two go on too.
LEMMA OperandsNest ==
    ASSUME NEW c, NEW op, NEW args \in Seq(Value), ~ContentPanics(c, op, args),
           op # "\""
    PROVE  ~RowsPanics(op, args)
<1>1. Len(args) \in Nat
  BY LenProperties, Zenon
<1>2. op = "Tm" => Len(args) = 6
  BY Zenon DEF ContentPanics
<1>3. op = "Tf" => Len(args) = 2
  BY Zenon DEF ContentPanics
<1>4. op \in {"'", "Tj"} => Len(args) = 1
  BY Zenon DEF ContentPanics, OneOperand
<1>5. op = "TJ" => args # << >>
  BY Zenon DEF ContentPanics
<1>6. ~(op = "Tm" /\ Len(args) < 6)
  <2> DEFINE n == Len(args)
  <2> HIDE DEF n
  <2> SUFFICES ASSUME op = "Tm" PROVE ~(n < 6)
    BY DEF n
  <2>1. n = 6
    BY <1>2 DEF n
  <2> QED
    BY <2>1
<1> QED
  BY <1>3, <1>4, <1>5, <1>6, Zenon DEF RowsPanics, TextPanics

\* The calls that failed hold nothing.
HoldNothing(p, w, c) ==
    /\ ~Goes(p) => p.out = << >>
    /\ ~Goes(w) => w.out = << >>
    /\ ~Goes(c) => c.text = << >> /\ c.gstack = << >>

\* What the invariant says of the three calls.
CallsOK(p, w, c) ==
    /\ p \in PlainState /\ w \in RowsState /\ c \in ContentState
    /\ Labelled(c)
    /\ HoldNothing(p, w, c)
    /\ Goes(c) /\ ~c.quoted => w.status # "panicked"
    /\ Goes(w) => p.status # "panicked"
    /\ Agree(p, Glyphs(p.out), w, Glyphs(w.out))
    /\ Agree(p, Glyphs(p.out), c, Glyphs(c.text))
    /\ Agree(w, Glyphs(w.out), c, Glyphs(c.text))

NoneDone(p, w, c) == p.status # "done" /\ w.status # "done" /\ c.status # "done"

\* An operator keeps the three calls together.
LEMMA OperatorCalls ==
    ASSUME NEW p, NEW w, NEW c, CallsOK(p, w, c), NoneDone(p, w, c),
           NEW op, NEW args \in Seq(Value),
           NEW p1, p1 = PlainAfter(p, op, args),
           NEW w1, w1 = RowsAfter(w, op, args),
           NEW c1, c1 = ContentAfter(c, op, args)
    PROVE  CallsOK(p1, w1, c1) /\ NoneDone(p1, w1, c1)
<1>1. /\ p1 \in PlainState /\ p1.status # "done"
      /\ Goes(p1) => /\ Goes(p) /\ ~TextPanics(op, args)
                     /\ Follows(p, Glyphs(p.out), p1, Glyphs(p1.out), op, args)
      /\ p1.status = "panicked" => p.status = "panicked" \/ TextPanics(op, args)
      /\ ~Goes(p1) => p1 = p \/ p1.out = << >>
  BY PlainAfterStep DEF CallsOK, NoneDone
<1>2. /\ w1 \in RowsState /\ w1.status # "done"
      /\ Goes(w1) => /\ Goes(w) /\ ~RowsPanics(op, args)
                     /\ Follows(w, Glyphs(w.out), w1, Glyphs(w1.out), op, args)
      /\ w1.status = "panicked" => w.status = "panicked" \/ RowsPanics(op, args)
      /\ ~Goes(w1) => w1 = w \/ w1.out = << >>
  BY RowsAfterStep DEF CallsOK, NoneDone
<1>3. ContentGoes(c, c1, op, args)
  <2>1. c \in ContentState /\ c.status # "done"
    BY DEF CallsOK, NoneDone
  <2> QED
    BY <2>1, ContentAfterStep
<1>4. TextPanics(op, args) => RowsPanics(op, args)
  BY DEF RowsPanics
<1>5. op = "\"" => TextPanics(op, args)
  BY DEF TextPanics
<1>6. Goes(c1) /\ ~c1.quoted => w1.status # "panicked"
  BY <1>2, <1>3, OperandsNest DEF CallsOK, ContentGoes
<1>7. Goes(w1) => p1.status # "panicked"
  BY <1>1, <1>2, <1>4 DEF CallsOK
<1>8. Agree(p1, Glyphs(p1.out), w1, Glyphs(w1.out))
  BY <1>1, <1>2, AgreeStep DEF CallsOK, Agree
<1>9. Agree(p1, Glyphs(p1.out), c1, Glyphs(c1.text))
  <2> SUFFICES ASSUME Goes(p1), Goes(c1)
               PROVE  Together(p1, Glyphs(p1.out), c1, Glyphs(c1.text))
    BY DEF Agree
  <2>1. /\ ~TextPanics(op, args)
        /\ Follows(p, Glyphs(p.out), p1, Glyphs(p1.out), op, args)
        /\ Follows(c, Glyphs(c.text), c1, Glyphs(c1.text), op, args)
        /\ Goes(p) /\ Goes(c)
    BY <1>1, <1>3, <1>5 DEF ContentGoes
  <2>2. Together(p, Glyphs(p.out), c, Glyphs(c.text))
    BY <2>1 DEF CallsOK, Agree
  <2> QED
    BY <2>1, <2>2, AgreeStep
<1>10. Agree(w1, Glyphs(w1.out), c1, Glyphs(c1.text))
  <2> SUFFICES ASSUME Goes(w1), Goes(c1)
               PROVE  Together(w1, Glyphs(w1.out), c1, Glyphs(c1.text))
    BY DEF Agree
  <2>1. /\ ~TextPanics(op, args)
        /\ Follows(w, Glyphs(w.out), w1, Glyphs(w1.out), op, args)
        /\ Follows(c, Glyphs(c.text), c1, Glyphs(c1.text), op, args)
        /\ Goes(w) /\ Goes(c)
    BY <1>2, <1>3, <1>4, <1>5 DEF ContentGoes
  <2>2. Together(w, Glyphs(w.out), c, Glyphs(c.text))
    BY <2>1 DEF CallsOK, Agree
  <2> QED
    BY <2>1, <2>2, AgreeStep
<1>11. HoldNothing(p1, w1, c1)
  BY <1>1, <1>2, <1>3 DEF CallsOK, HoldNothing, ContentGoes
<1> QED
  BY <1>1, <1>2, <1>3, <1>6, <1>7, <1>8, <1>9, <1>10, <1>11
     DEF CallsOK, NoneDone, ContentGoes

\* A panic in all of them.
LEMMA PanickedCalls ==
    ASSUME NEW p, NEW w, NEW c, CallsOK(p, w, c), NoneDone(p, w, c),
           NEW p1, p1 = Fail(p, PlainFailed("panicked")),
           NEW w1, w1 = Fail(w, RowsFailed("panicked")),
           NEW c1, c1 = Fail(c, ContentFailed("panicked"))
    PROVE  CallsOK(p1, w1, c1) /\ NoneDone(p1, w1, c1)
<1>1. p1 \in PlainState /\ ~Goes(p1) /\ p1.status # "done" /\ p1.out = << >>
  <2>1. p \in PlainState /\ (p.status = "running" <=> Goes(p)) /\ (~Goes(p) => p.out = << >>)
    BY NotDone DEF CallsOK, NoneDone, PlainState, HoldNothing
  <2> QED
    BY <2>1, FailedPlain DEF Fail, Goes, Failed, NoneDone
<1>2. w1 \in RowsState /\ ~Goes(w1) /\ w1.status # "done" /\ w1.out = << >>
  <2>1. w \in RowsState /\ (w.status = "running" <=> Goes(w)) /\ (~Goes(w) => w.out = << >>)
    BY NotDone DEF CallsOK, NoneDone, RowsState, HoldNothing
  <2> QED
    BY <2>1, FailedRows DEF Fail, Goes, Failed, NoneDone
<1>3. /\ c1 \in ContentState /\ ~Goes(c1) /\ c1.status # "done" /\ Labelled(c1)
      /\ c1.text = << >> /\ c1.gstack = << >>
  <2>1. /\ c \in ContentState /\ (c.status = "running" <=> Goes(c)) /\ Labelled(c)
        /\ ~Goes(c) => c.text = << >> /\ c.gstack = << >>
    BY NotDone DEF CallsOK, NoneDone, ContentState, HoldNothing
  <2> QED
    BY <2>1, FailedContent DEF Fail, Goes, Failed, NoneDone
<1> QED
  BY <1>1, <1>2, <1>3 DEF CallsOK, NoneDone, Agree, HoldNothing

\* One of them stops.
LEMMA StoppedCalls ==
    ASSUME NEW p, NEW w, NEW c, CallsOK(p, w, c), NoneDone(p, w, c), NEW p1, NEW w1, NEW c1,
           \/ p1 = PlainFailed("stopped") /\ w1 = w /\ c1 = c
           \/ p1 = p /\ w1 = RowsFailed("stopped") /\ c1 = c
           \/ p1 = p /\ w1 = w /\ c1 = ContentFailed("stopped")
    PROVE  CallsOK(p1, w1, c1) /\ NoneDone(p1, w1, c1)
<1>1. /\ p1 \in PlainState /\ p1.status # "done"
      /\ p1 = p \/ (p1.status = "stopped" /\ ~Goes(p1) /\ p1.out = << >>)
  BY FailedPlain DEF CallsOK, NoneDone, Goes, Failed
<1>2. /\ w1 \in RowsState /\ w1.status # "done"
      /\ w1 = w \/ (w1.status = "stopped" /\ ~Goes(w1) /\ w1.out = << >>)
  BY FailedRows DEF CallsOK, NoneDone, Goes, Failed
<1>3. /\ c1 \in ContentState /\ c1.status # "done" /\ Labelled(c1)
      /\ c1 = c \/ (~Goes(c1) /\ c1.text = << >> /\ c1.gstack = << >>)
  BY FailedContent DEF CallsOK, NoneDone, Goes, Failed
<1> QED
  BY <1>1, <1>2, <1>3 DEF CallsOK, NoneDone, Agree, HoldNothing

\* The end of the program.
LEMMA EndedCalls ==
    ASSUME NEW p, NEW w, NEW c, CallsOK(p, w, c),
           NEW p1, p1 = Ended(p), NEW w1, w1 = Ended(w), NEW c1, c1 = Ended(c)
    PROVE  /\ CallsOK(p1, w1, c1)
           /\ p1.status # "running" /\ w1.status # "running" /\ c1.status # "running"
<1>1. /\ p1 \in PlainState /\ p1.status # "running" /\ p1.enc = p.enc /\ p1.out = p.out
      /\ p1.status = "panicked" <=> p.status = "panicked"
      /\ Goes(p1) <=> Goes(p)
  BY DEF CallsOK, Ended, PlainState, Statuses, Goes, Failed
<1>2. /\ w1 \in RowsState /\ w1.status # "running" /\ w1.enc = w.enc /\ w1.out = w.out
      /\ w1.status = "panicked" <=> w.status = "panicked"
      /\ Goes(w1) <=> Goes(w)
  BY DEF CallsOK, Ended, RowsState, Statuses, Goes, Failed
<1>3. /\ c1 \in ContentState /\ c1.status # "running" /\ c1.enc = c.enc
      /\ c1.text = c.text /\ c1.g = c.g /\ c1.restored = c.restored
      /\ c1.quoted = c.quoted /\ c1.gstack = c.gstack
      /\ Goes(c1) <=> Goes(c)
  BY DEF CallsOK, Ended, ContentState, Statuses, Goes, Failed
<1>4. Labelled(c1)
  BY <1>3 DEF CallsOK, Labelled
<1> QED
  BY <1>1, <1>2, <1>3, <1>4 DEF CallsOK, Agree, Together, HoldNothing

LEMMA StartCalls ==
    CallsOK(PlainStart, RowsStart, ContentStart) /\
    NoneDone(PlainStart, RowsStart, ContentStart)
<1>1. /\ PlainStart \in PlainState /\ PlainStart.status = "running"
      /\ PlainStart.enc = "nop" /\ PlainStart.out = << >> /\ Goes(PlainStart)
  BY DEF PlainStart, PlainState, Statuses, Encoders, NoFontEncoders, Goes, Failed
<1>2. /\ RowsStart \in RowsState /\ RowsStart.status = "running"
      /\ RowsStart.enc = "nop" /\ RowsStart.out = << >> /\ Goes(RowsStart)
  BY DEF RowsStart, RowsState, Statuses, Encoders, NoFontEncoders, Origin, Place, Goes, Failed
<1>3. Goes(ContentStart)
  BY FailedContent DEF Goes, Failed
<1> QED
  BY <1>1, <1>2, <1>3, FailedContent DEF CallsOK, NoneDone, Agree, Together, HoldNothing

\* The parts of the invariant about the calls, in this state and in the next one.
CallsPart ==
    /\ ReadersOK /\ FailedIsEmpty /\ ChecksNest
    /\ FontOK /\ DecodedByItsFont /\ SameDecoder /\ SameText

LEMMA CallsInv ==
    /\ CallsPart <=> CallsOK(plain, rows, content)
    /\ CallsPart' <=> CallsOK(plain', rows', content')
<1>1. CallsPart <=> CallsOK(plain, rows, content)
  BY DEF CallsPart, ReadersOK, FailedIsEmpty, ChecksNest, FontOK, DecodedByItsFont,
         SameDecoder, SameText, CallsOK, HoldNothing, Agree, Together, Labelled
<1>2. CallsPart' <=> CallsOK(plain', rows', content')
  BY DEF CallsPart, ReadersOK, FailedIsEmpty, ChecksNest, FontOK, DecodedByItsFont,
         SameDecoder, SameText, CallsOK, HoldNothing, Agree, Together, Labelled
<1> QED
  BY <1>1, <1>2

-----------------------------------------------------------------------------
(* The invariant. *)

LEMMA InitInv == Init => Inv
<1> SUFFICES ASSUME Init PROVE Inv
  OBVIOUS
<1>1. ps = Start /\ plain = PlainStart /\ rows = RowsStart /\ content = ContentStart
      /\ stream = 0 /\ read = 0 /\ result = NoResult
  BY DEF Init
<1>2. IsMachine(Value, ps)
  BY <1>1, StartMachine
<1>3. CallsOK(plain, rows, content) /\ NoneDone(plain, rows, content)
  BY <1>1, StartCalls
<1>4. stream \in 0..MaxStreams /\ read \in 0..MaxKeywords
  BY <1>1, ContentAssumption
<1>5. EndTogether
  BY <1>3 DEF EndTogether, NoneDone
<1> QED
  BY <1>1, <1>2, <1>3, <1>4, <1>5, CallsInv DEF Inv, CallsPart

\* Operands are values that name no dictionary.
LEMMA OperandsMachine ==
    ASSUME IsMachine(Value, ps), ps.stk = << >>, NEW run \in Runs
    PROVE  IsMachine(Value, [ps EXCEPT !.stk = @ \o run])
<1> DEFINE stk == ps.stk \o run
<1>1. run \in Seq(Operand)
  BY ContentAssumption
<1>2. stk = run
  BY <1>1
<1>3. \A v \in Operand : v \in Value /\ v.kind # "dict"
  BY DEF Value, Operand, Element
<1>4. stk \in Seq(Value) /\ \A i \in DOMAIN stk : stk[i] \in Operand
  <2>1. Operand \subseteq Value
    BY <1>3
  <2> HIDE DEF stk
  <2> QED
    BY <1>1, <1>2, <2>1, SeqMonotonic
<1>5. \A i \in DOMAIN stk : Known(Value, ps, stk[i])
  <2> HIDE DEF stk
  <2> QED
    BY <1>3, <1>4 DEF Known
<1>6. [ps EXCEPT !.stk = @ \o run] = [stk |-> stk, dicts |-> ps.dicts, heap |-> ps.heap]
  BY MachineExcept
<1>7. ps.dicts \in Seq(DOMAIN ps.heap)
  BY DEF IsMachine
<1> HIDE DEF stk
<1> QED
  BY <1>4, <1>5, <1>6, <1>7, StacksMachine

\* An operator pops every operand.
LEMMA OperatorMachine ==
    ASSUME IsMachine(Value, ps)
    PROVE  IsMachine(Value, [ps EXCEPT !.stk = << >>])
<1>1. [ps EXCEPT !.stk = << >>] = [stk |-> << >>, dicts |-> ps.dicts, heap |-> ps.heap]
  BY MachineExcept
<1>2. ps.dicts \in Seq(DOMAIN ps.heap)
  BY DEF IsMachine
<1>3. << >> \in Seq(Value) /\ DOMAIN << >> = {}
  BY EmptySeq
<1>4. \A i \in DOMAIN << >> : Known(Value, ps, << >>[i])
  BY <1>3
<1> QED
  BY <1>1, <1>2, <1>3, <1>4, StacksMachine

\* What every keyword keeps.
KeywordKeeps == IsMachine(Value, ps') /\ CallsOK(plain', rows', content')
                /\ NoneDone(plain', rows', content')

LEMMA KeywordStep ==
    ASSUME IsMachine(Value, ps), CallsOK(plain, rows, content), NoneDone(plain, rows, content),
           NEW kw, BuiltinKeyword(kw) \/ DefinedKeyword(kw) \/ Operator(kw)
    PROVE  KeywordKeeps
<1>1. CASE BuiltinKeyword(kw)
  <2>1. kw \in Builtins
    BY <1>1 DEF BuiltinKeyword
  <2>2. CASE BuiltinPanics(ps, kw)
    <3>1. PanicAll /\ ps' = Start
      BY <1>1, <2>2 DEF BuiltinKeyword
    <3> QED
      BY <3>1, PanickedCalls, StartMachine DEF PanicAll, KeywordKeeps
  <2>3. CASE ~BuiltinPanics(ps, kw)
    <3>1. ps' = AfterBuiltin(ps, kw) /\ UNCHANGED <<plain, rows, content>>
      BY <1>1, <2>3 DEF BuiltinKeyword
    <3> QED
      BY <2>1, <2>3, <3>1, BuiltinMachine, ValueHasDicts DEF KeywordKeeps
  <2> QED
    BY <2>2, <2>3
<1>2. CASE DefinedKeyword(kw)
  <2>1. /\ Defining(ps, kw) # {} /\ ps' = Push(ps, Meaning(ps, kw))
        /\ UNCHANGED <<plain, rows, content>>
    BY <1>2 DEF DefinedKeyword
  <2>2. IsMachine(Value, Push(ps, Meaning(ps, kw)))
    BY <2>1, MeaningKnown, PushMachine
  <2> QED
    BY <2>1, <2>2 DEF KeywordKeeps
<1>3. CASE Operator(kw)
  <2>1. /\ plain' = PlainAfter(plain, kw, ps.stk)
        /\ rows' = RowsAfter(rows, kw, ps.stk)
        /\ content' = ContentAfter(content, kw, ps.stk)
        /\ ps' = [ps EXCEPT !.stk = << >>]
    BY <1>3 DEF Operator
  <2>2. ps.stk \in Seq(Value)
    BY DEF IsMachine
  <2>3. CallsOK(plain', rows', content') /\ NoneDone(plain', rows', content')
    BY <2>1, <2>2, OperatorCalls
  <2>4. IsMachine(Value, ps')
    BY <2>1, OperatorMachine
  <2> QED
    BY <2>3, <2>4 DEF KeywordKeeps
<1> QED
  BY <1>1, <1>2, <1>3

LEMMA StepInv == Inv /\ [Next]_vars => Inv'
<1> SUFFICES ASSUME Inv, [Next]_vars PROVE Inv'
  OBVIOUS
<1>1. /\ IsMachine(Value, ps) /\ CallsOK(plain, rows, content)
      /\ stream \in 0..MaxStreams /\ read \in 0..MaxKeywords
      /\ Running => result = NoResult
      /\ EndTogether
  BY CallsInv DEF Inv, CallsPart
<1>2. Running => NoneDone(plain, rows, content)
  BY <1>1 DEF EndTogether, NoneDone
<1>3. Inv' <=> /\ IsMachine(Value, ps') /\ CallsOK(plain', rows', content')
               /\ stream' \in 0..MaxStreams /\ read' \in 0..MaxKeywords
               /\ Running' => result' = NoResult
               /\ EndTogether'
  BY CallsInv DEF Inv, CallsPart, NoResult
<1>4. NoneDone(plain', rows', content') => EndTogether'
  BY DEF NoneDone, EndTogether
<1>5. CASE NextStream
  <2>1. /\ ps' = ps /\ plain' = plain /\ rows' = rows /\ content' = content
        /\ read' = read /\ result' = result /\ stream' \in 0..MaxStreams
    BY <1>1, <1>5, ContentAssumption DEF NextStream
  <2> QED
    BY <1>1, <1>3, <2>1 DEF EndTogether, Running
<1>6. CASE Operands
  <2>1. PICK run \in Runs : ps' = [ps EXCEPT !.stk = @ \o run]
    BY <1>6 DEF Operands
  <2>2. /\ ps.stk = << >> /\ plain' = plain /\ rows' = rows /\ content' = content
        /\ read' = read /\ result' = result /\ stream' = stream
    BY <1>6 DEF Operands
  <2>3. IsMachine(Value, ps')
    BY <1>1, <2>1, <2>2, OperandsMachine
  <2> QED
    BY <1>1, <1>3, <2>2, <2>3 DEF EndTogether, Running
<1>7. CASE Malformed
  <2>1. /\ Running /\ PanicAll /\ ps' = Start
        /\ read' = read /\ result' = result /\ stream' = stream
    BY <1>7 DEF Malformed
  <2>2. CallsOK(plain', rows', content') /\ NoneDone(plain', rows', content')
    BY <1>1, <1>2, <2>1, PanickedCalls DEF PanicAll
  <2> QED
    BY <1>1, <1>3, <1>4, <2>1, <2>2, StartMachine
<1>8. CASE StopAlone
  <2>1. /\ Running /\ ps' = ps
        /\ read' = read /\ result' = result /\ stream' = stream
    BY <1>8 DEF StopAlone, Running
  <2>2. CallsOK(plain', rows', content') /\ NoneDone(plain', rows', content')
    BY <1>1, <1>2, <1>8, <2>1, StoppedCalls DEF StopAlone
  <2> QED
    BY <1>1, <1>3, <1>4, <2>1, <2>2
<1>9. CASE Keyword
  <2>1. /\ Running /\ read < MaxKeywords /\ read' = read + 1
        /\ result' = result /\ stream' = stream
    BY <1>9 DEF Keyword
  <2>2. PICK kw \in Keywords : BuiltinKeyword(kw) \/ DefinedKeyword(kw) \/ Operator(kw)
    BY <1>9 DEF Keyword
  <2>3. KeywordKeeps
    BY <1>1, <1>2, <2>1, <2>2, KeywordStep
  <2>4. read' \in 0..MaxKeywords
    BY <1>1, <2>1, ContentAssumption
  <2> QED
    BY <1>1, <1>3, <1>4, <2>1, <2>3, <2>4 DEF KeywordKeeps
<1>10. CASE Finish
  <2>1. /\ plain' = Ended(plain) /\ rows' = Ended(rows) /\ content' = Ended(content)
        /\ ps' = Start /\ stream' = stream /\ read' = read
    BY <1>10 DEF Finish
  <2>2. /\ CallsOK(plain', rows', content')
        /\ plain'.status # "running" /\ rows'.status # "running"
        /\ content'.status # "running"
    BY <1>1, <2>1, EndedCalls
  <2>3. ~Running'
    BY <2>2 DEF Running
  <2> QED
    BY <1>1, <1>3, <2>1, <2>2, <2>3, StartMachine DEF EndTogether
<1>11. CASE UNCHANGED vars
  <2>1. /\ ps' = ps /\ plain' = plain /\ rows' = rows /\ content' = content
        /\ read' = read /\ result' = result /\ stream' = stream
    BY <1>11 DEF vars
  <2> QED
    BY <1>1, <1>3, <2>1 DEF EndTogether, Running
<1> QED
  BY <1>5, <1>6, <1>7, <1>8, <1>9, <1>10, <1>11 DEF Next

\* The readers of a page stay as the invariant says, for any fonts, any operands
\* and programs of any length.
THEOREM Invariant == Spec => []Inv
<1>1. Init => Inv
  BY InitInv
<1>2. Inv /\ [Next]_vars => Inv'
  BY StepInv
<1> QED
  BY <1>1, <1>2, PTL DEF Spec

\* The shape of the state: open dictionaries are on the heap of Interpret whatever
\* begin, end, def and currentdict a program has, a call that failed holds no text,
\* and no caller gets a result early.
THEOREM TypeCorrect == Spec => []TypeOK
<1>1. Inv => TypeOK
  <2> SUFFICES ASSUME Inv PROVE TypeOK
    OBVIOUS
  <2>1. /\ plain.status \in Statuses /\ plain.enc \in Encoders
        /\ rows.status \in Statuses /\ rows.enc \in Encoders
        /\ content.status \in Statuses /\ content.enc \in Encoders
    BY DEF Inv, ReadersOK, PlainState, RowsState, ContentState
  <2>2. content.g.tf \in Fonts \cup {NoFont}
    BY DEF Inv, ReadersOK, ContentState, GState
  <2>3. \A i \in DOMAIN ps.dicts : ps.dicts[i] \in DOMAIN ps.heap
    <3>1. ps.dicts \in Seq(DOMAIN ps.heap)
      BY DEF Inv, IsMachine
    <3> QED
      BY <3>1
  <2> QED
    BY <2>1, <2>2, <2>3 DEF Inv, TypeOK
<1> QED
  BY <1>1, Invariant, PTL

\* The three readers of a page, which are written apart, show the same strings in
\* the same order through the encoders of the same fonts, those that have not
\* failed: TJ arrays of any length, ' and Tj alike, fonts that are missing.
THEOREM SameTextCorrect == Spec => []SameText
<1>1. Inv => SameText
  BY DEF Inv
<1> QED
  BY <1>1, Invariant, PTL

\* Until Q brings back another font, Content decodes every glyph with the encoder
\* of the font it labels the glyph with.
THEOREM DecodedByItsFontCorrect == Spec => []DecodedByItsFont
<1>1. Inv => DecodedByItsFont
  BY DEF Inv
<1> QED
  BY <1>1, Invariant, PTL

\* What the readers ask of operands nests: where Content goes on, and there was no
\* operator ", walkTextBlocks has not panicked, and where walkTextBlocks goes on,
\* GetPlainText has not; each may have stopped alone.
THEOREM ChecksNestCorrect == Spec => []ChecksNest
<1>1. Inv => ChecksNest
  BY DEF Inv
<1> QED
  BY <1>1, Invariant, PTL

-----------------------------------------------------------------------------
(* Counting in sequences. *)

\* What is nowhere in a sequence is there no time.
LEMMA CountEmpty == \A p : Count(<< >>, p) = 0
<1> TAKE p
<1>1. {i \in DOMAIN << >> : << >>[i] = p} = {}
  OBVIOUS
<1> QED
  BY <1>1, FS_EmptySet DEF Count

\* The places of an element are finitely many.
LEMMA CountTyped ==
    ASSUME NEW S, NEW s \in Seq(S), NEW p
    PROVE  /\ IsFiniteSet({i \in DOMAIN s : s[i] = p})
           /\ Count(s, p) \in Nat
           /\ Count(s, p) > 0 <=> p \in ToSet(s)
<1> DEFINE at == {i \in DOMAIN s : s[i] = p}
<1>1. Len(s) \in Nat /\ DOMAIN s = 1..Len(s)
  BY LenProperties
<1>2. IsFiniteSet(1..Len(s))
  BY <1>1, FS_Interval
<1>3. at \in SUBSET (1..Len(s))
  BY <1>1
<1>4. IsFiniteSet(at)
  BY <1>2, <1>3, FS_Subset
<1>5. Count(s, p) = Cardinality(at) /\ Cardinality(at) \in Nat
  BY <1>4, FS_CardinalityType DEF Count
<1>6. Cardinality(at) = 0 <=> at = {}
  BY <1>4, FS_EmptySet
<1>7. at # {} <=> p \in ToSet(s)
  BY DEF ToSet
<1> HIDE DEF at
<1>8. Count(s, p) > 0 <=> p \in ToSet(s)
  BY <1>5, <1>6, <1>7
<1> QED
  BY <1>4, <1>5, <1>8 DEF at

\* One element more.
One(p, e) == IF e = p THEN 1 ELSE 0

LEMMA CountAppend ==
    ASSUME NEW S, NEW s \in Seq(S), NEW e \in S, NEW p
    PROVE  Count(Append(s, e), p) = Count(s, p) + One(p, e)
<1> DEFINE N == Len(s)
           more == Append(s, e)
           at == {i \in DOMAIN s : s[i] = p}
           more_at == {i \in DOMAIN more : more[i] = p}
<1>1. /\ N \in Nat /\ DOMAIN s = 1..N /\ DOMAIN more = 1..N + 1
      /\ \A i \in 1..N : more[i] = s[i]
      /\ more[N + 1] = e
  <2>1. more \in Seq(S) /\ Len(more) = N + 1
    BY AppendProperties
  <2> QED
    BY <2>1, LenProperties, AppendProperties
<1>2. IsFiniteSet(at) /\ Count(s, p) \in Nat /\ Count(s, p) = Cardinality(at)
  BY CountTyped DEF Count
<1> HIDE DEF N, more
<1>3. Count(more, p) = Cardinality(more_at)
  BY DEF Count
<1>4. 1..N + 1 = (1..N) \cup {N + 1} /\ N + 1 \notin 1..N
  BY <1>1
<1>5. CASE e = p
  <2>1. more_at = at \cup {N + 1} /\ N + 1 \notin at
    BY <1>1, <1>4, <1>5
  <2> HIDE DEF at, more_at
  <2>2. Cardinality(more_at) = Cardinality(at) + 1
    BY <1>2, <2>1, FS_AddElement
  <2> QED
    BY <1>2, <1>3, <1>5, <2>2 DEF One, more
<1>6. CASE e # p
  <2>1. more_at = at
    BY <1>1, <1>4, <1>6
  <2> HIDE DEF at, more_at
  <2> QED
    BY <1>2, <1>3, <1>6, <2>1 DEF One, more
<1> QED
  BY <1>5, <1>6

\* An element put at the end of the second of two sequences.
LEMMA ConcatAppend ==
    ASSUME NEW S, NEW s \in Seq(S), NEW t \in Seq(S), NEW e \in S
    PROVE  s \o Append(t, e) = Append(s \o t, e)
<1>1. /\ s \o t \in Seq(S) /\ Len(s \o t) = Len(s) + Len(t)
      /\ \A i \in 1..Len(s) + Len(t) :
            (s \o t)[i] = IF i <= Len(s) THEN s[i] ELSE t[i - Len(s)]
  BY ConcatProperties
<1>2. /\ Append(t, e) \in Seq(S) /\ Len(Append(t, e)) = Len(t) + 1
      /\ \A i \in 1..Len(t) : Append(t, e)[i] = t[i]
      /\ Append(t, e)[Len(t) + 1] = e
  BY AppendProperties
<1> DEFINE a == s \o Append(t, e)
           st == s \o t
           b == Append(st, e)
           te == Append(t, e)
<1>3. /\ a \in Seq(S) /\ Len(a) = Len(s) + Len(te)
      /\ \A i \in 1..Len(s) + Len(te) : a[i] = IF i <= Len(s) THEN s[i] ELSE te[i - Len(s)]
  BY <1>2, ConcatProperties
<1>4. /\ b \in Seq(S) /\ Len(b) = Len(st) + 1
      /\ \A i \in 1..Len(st) : b[i] = st[i]
      /\ b[Len(st) + 1] = e
  BY <1>1, AppendProperties
<1>5. Len(s) \in Nat /\ Len(t) \in Nat
  OBVIOUS
<1> HIDE DEF a, b, st, te
<1>6. Len(a) = Len(b)
  BY <1>1, <1>2, <1>3, <1>4, <1>5 DEF st, te
<1>7. ASSUME NEW i \in 1..Len(a) PROVE a[i] = b[i]
  <2>1. Len(te) = Len(t) + 1 /\ Len(st) = Len(s) + Len(t) /\ i \in 1..Len(s) + (Len(t) + 1)
    BY <1>1, <1>2, <1>3 DEF st, te
  <2>2. CASE i = Len(s) + Len(t) + 1
    <3>1. i - Len(s) = Len(t) + 1 /\ ~(i <= Len(s)) /\ i = Len(st) + 1
      BY <1>5, <2>1, <2>2
    <3>2. a[i] = te[Len(t) + 1]
      BY <1>3, <2>1, <3>1
    <3> QED
      BY <1>2, <1>4, <3>1, <3>2 DEF te
  <2>3. CASE i # Len(s) + Len(t) + 1
    <3>1. i \in 1..Len(s) + Len(t) /\ i \in 1..Len(st)
      BY <1>5, <2>1, <2>3
    <3>2. ~(i <= Len(s)) => i - Len(s) \in 1..Len(t)
      BY <1>5, <3>1
    <3>3. b[i] = st[i] /\ st[i] = IF i <= Len(s) THEN s[i] ELSE t[i - Len(s)]
      BY <1>1, <1>4, <3>1 DEF st
    <3>4. a[i] = IF i <= Len(s) THEN s[i] ELSE te[i - Len(s)]
      BY <1>3, <2>1
    <3> QED
      BY <1>2, <3>2, <3>3, <3>4 DEF te
  <2> QED
    BY <2>2, <2>3
<1>8. a = b
  BY <1>3, <1>4, <1>6, <1>7, SeqEqual
<1> QED
  BY <1>8 DEF a, b, st

\* Two sequences, one after the other.
LEMMA CountConcat ==
    ASSUME NEW S, NEW s \in Seq(S), NEW t \in Seq(S), NEW p
    PROVE  Count(s \o t, p) = Count(s, p) + Count(t, p)
<1> DEFINE Adding(u) == Count(s \o u, p) = Count(s, p) + Count(u, p)
           T == {n \in Nat : \A u \in Seq(S) : Len(u) = n => Adding(u)}
<1>1. 0 \in T
  <2> SUFFICES ASSUME NEW u \in Seq(S), Len(u) = 0 PROVE Adding(u)
    OBVIOUS
  <2>1. u = << >>
    BY EmptySeq
  <2>2. s \o << >> = s
    BY ConcatEmptySeq
  <2>3. Count(s, p) \in Nat
    BY CountTyped
  <2> QED
    BY <2>1, <2>2, <2>3, CountEmpty
<1>2. ASSUME NEW n \in Nat, n \in T PROVE n + 1 \in T
  <2> SUFFICES ASSUME NEW u \in Seq(S), Len(u) = n + 1 PROVE Adding(u)
    OBVIOUS
  <2>1. u # << >>
    BY EmptySeq
  <2>2. PICK v \in Seq(S), e \in S : u = Append(v, e)
    BY <2>1, SequenceEmptyOrAppend
  <2>3. Len(v) = n
    <3>1. Len(v) \in Nat /\ Len(u) = Len(v) + 1
      BY <2>2, AppendProperties
    <3> QED
      BY <3>1
  <2>4. Count(s \o v, p) = Count(s, p) + Count(v, p)
    BY <1>2, <2>3
  <2>5. s \o u = Append(s \o v, e)
    BY <2>2, ConcatAppend
  <2>6. s \o v \in Seq(S)
    BY ConcatProperties
  <2>7. Count(s \o u, p) = Count(s \o v, p) + One(p, e)
    BY <2>5, <2>6, CountAppend
  <2>8. Count(u, p) = Count(v, p) + One(p, e)
    BY <2>2, CountAppend
  <2>9. Count(s, p) \in Nat /\ Count(v, p) \in Nat /\ One(p, e) \in Nat
    BY CountTyped DEF One
  <2> QED
    BY <2>4, <2>7, <2>8, <2>9
<1> HIDE DEF T
<1>3. Nat \subseteq T
  BY <1>1, <1>2, SetInduction
<1>4. Len(t) \in Nat
  OBVIOUS
<1> QED
  BY <1>3, <1>4 DEF T

\* A sequence read from its end.
LEMMA CountReverse ==
    ASSUME NEW S, NEW s \in Seq(S)
    PROVE  Reverse(s) \in Seq(S) /\ \A p : Count(Reverse(s), p) = Count(s, p)
<1> DEFINE N == Len(s)
           r == Reverse(s)
<1>1. N \in Nat /\ DOMAIN s = 1..N /\ \A i \in 1..N : s[i] \in S
  BY LenProperties, ElementOfSeq
<1>2. r = [i \in 1..N |-> s[(N - i) + 1]]
  BY DEF Reverse
<1> HIDE DEF N, r
<1>3. \A i \in 1..N : (N - i) + 1 \in 1..N /\ (N - ((N - i) + 1)) + 1 = i
  BY <1>1
<1>4. r \in Seq(S)
  <2>1. r \in [1..N -> S]
    BY <1>1, <1>2, <1>3
  <2> QED
    BY <1>1, <2>1, SeqDef
<1>5. ASSUME NEW p PROVE Count(r, p) = Count(s, p)
  <2> DEFINE A == {i \in DOMAIN s : s[i] = p}
             B == {i \in DOMAIN r : r[i] = p}
             f == [i \in A |-> (N - i) + 1]
  <2>1. DOMAIN r = 1..N
    BY <1>2
  <2>2. \A i \in A : f[i] \in B
    BY <1>1, <1>2, <1>3, <2>1
  <2>3. \A i, j \in A : f[i] = f[j] => i = j
    BY <1>1
  <2>4. \A j \in B : \E i \in A : f[i] = j
    <3> TAKE j \in B
    <3>1. j \in 1..N /\ s[(N - j) + 1] = p
      BY <1>2, <2>1
    <3>2. (N - j) + 1 \in A
      BY <1>1, <1>3, <3>1
    <3>3. f[(N - j) + 1] = j
      BY <1>3, <3>1, <3>2
    <3> QED
      BY <3>2, <3>3
  <2>5. f \in Bijection(A, B)
    <3>1. f \in [A -> B]
      BY <2>2
    <3> HIDE DEF f, A, B
    <3>2. f \in Injection(A, B)
      BY <2>3, <3>1 DEF Injection, IsInjective
    <3>3. f \in Surjection(A, B)
      BY <2>4, <3>1 DEF Surjection
    <3> QED
      BY <3>2, <3>3 DEF Bijection
  <2>6. ExistsBijection(A, B)
    BY <2>5 DEF ExistsBijection
  <2>7. IsFiniteSet(A)
    BY CountTyped
  <2> HIDE DEF A, B, f
  <2>8. Cardinality(B) = Cardinality(A)
    BY <2>6, <2>7, FS_Bijection
  <2> QED
    BY <2>8 DEF Count, A, B
<1> QED
  BY <1>4, <1>5 DEF r

-----------------------------------------------------------------------------
(* Sequences put one after the other. *)

\* flat[k] is the concatenation of the first k sequences of s.
IsFlat(flat, S, s) ==
    /\ flat \in [0..Len(s) -> Seq(S)]
    /\ flat[0] = << >>
    /\ \A k \in 1..Len(s) : flat[k] = flat[k - 1] \o s[k]

LEMMA FlatExists ==
    ASSUME NEW S, NEW s \in Seq(Seq(S))
    PROVE  \E flat : IsFlat(flat, S, s) /\ flat[Len(s)] = FlattenSeq(s)
<1> DEFINE n == Len(s)
           step == [k \in 1..n |-> [q \in Seq(S) |-> q \o s[k]]]
           Rec(f) == f = [i \in 1..n |-> IF i = 1 THEN s[i] ELSE f[i - 1] \o s[i]]
           f == CHOOSE g : Rec(g)
           flat == [k \in 0..n |-> IF k = 0 THEN << >> ELSE f[k]]
<1>1. n \in Nat /\ \A k \in 1..n : s[k] \in Seq(S)
  BY LenProperties, ElementOfSeq
<1> HIDE DEF n
<1>2. step \in [1..n -> [Seq(S) -> Seq(S)]] /\ << >> \in Seq(S)
  <2>1. \A k \in 1..n : \A q \in Seq(S) : q \o s[k] \in Seq(S)
    BY <1>1, ConcatProperties
  <2> QED
    BY <2>1, EmptySeq
<1>3. PICK h : TakesSteps(h, n, Seq(S), << >>, step)
  <2> HIDE DEF step
  <2> QED
    BY <1>1, <1>2, RecursionExists
<1>4. /\ h \in [0..n -> Seq(S)] /\ h[0] = << >>
      /\ \A k \in 1..n : h[k] = h[k - 1] \o s[k]
  <2>1. /\ h \in [0..n -> Seq(S)] /\ h[0] = << >>
        /\ \A k \in 1..n : h[k] = step[k][h[k - 1]]
    BY <1>3 DEF TakesSteps
  <2>2. \A k \in 1..n : k - 1 \in 0..n
    BY <1>1
  <2> QED
    BY <2>1, <2>2
<1>5. \A k \in 0..n : k = 0 \/ k \in 1..n
  BY <1>1
<1> DEFINE g == [k \in 1..n |-> h[k]]
<1>6. Rec(g)
  <2>1. ASSUME NEW i \in 1..n
        PROVE  g[i] = IF i = 1 THEN s[i] ELSE g[i - 1] \o s[i]
    <3>1. CASE i = 1
      <4>1. h[1] = h[0] \o s[1] /\ s[1] \in Seq(S)
        <5>1. 1 \in 1..n /\ 1 - 1 = 0
          BY <3>1
        <5> QED
          BY <1>1, <1>4, <5>1
      <4>2. << >> \o s[1] = s[1]
        BY <4>1, ConcatEmptySeq
      <4> QED
        BY <1>4, <3>1, <4>1, <4>2
    <3>2. CASE i # 1
      <4>1. i - 1 \in 1..n
        BY <1>1, <3>2
      <4> QED
        BY <1>4, <3>2, <4>1
    <3> QED
      BY <3>1, <3>2
  <2> HIDE DEF g
  <2>2. g = [i \in 1..n |-> g[i]]
    BY DEF g
  <2> QED
    BY <2>1, <2>2
<1>7. Rec(f)
  <2> HIDE DEF Rec, g
  <2> QED
    BY <1>6
<1> HIDE DEF g
<1>8. FlattenSeq(s) = IF n = 0 THEN s ELSE f[n]
  BY DEF FlattenSeq, n
<1> HIDE DEF f
<1>9. \A i \in 1..n : f[i] = IF i = 1 THEN s[i] ELSE f[i - 1] \o s[i]
  BY <1>7
<1>10. \A k \in 1..n : flat[k] = flat[k - 1] \o s[k]
  <2> TAKE k \in 1..n
  <2>1. flat[k] = f[k] /\ k - 1 \in 0..n
    BY <1>1
  <2>2. CASE k = 1
    <3>1. flat[k - 1] = << >> /\ s[k] \in Seq(S)
      BY <1>1, <2>2
    <3>2. << >> \o s[k] = s[k]
      BY <3>1, ConcatEmptySeq
    <3> QED
      BY <1>9, <2>1, <2>2, <3>1, <3>2
  <2>3. CASE k # 1
    <3>1. k - 1 # 0
      BY <2>3
    <3> QED
      BY <1>9, <2>1, <2>3, <3>1
  <2> QED
    BY <2>2, <2>3
<1>11. flat[0] = << >> /\ flat = [k \in 0..n |-> flat[k]]
  BY <1>1
<1>12. flat[n] = FlattenSeq(s)
  <2>1. CASE n = 0
    <3>1. s = << >>
      BY <2>1, EmptySeq DEF n
    <3> QED
      BY <1>8, <1>11, <2>1, <3>1
  <2>2. CASE n # 0
    BY <1>1, <1>8, <2>2
  <2> QED
    BY <2>1, <2>2
<1> HIDE DEF flat
<1>13. \A k \in 0..n : flat[k] \in Seq(S)
  <2>1. flat[0] \in Seq(S) /\ \A k \in 1..n : flat[k - 1] \in Seq(S) => flat[k] \in Seq(S)
    <3>1. ASSUME NEW k \in 1..n, flat[k - 1] \in Seq(S) PROVE flat[k] \in Seq(S)
      <4>1. s[k] \in Seq(S) /\ flat[k] = flat[k - 1] \o s[k]
        BY <1>1, <1>10
      <4>2. flat[k - 1] \o s[k] \in Seq(S)
        BY <3>1, <4>1, ConcatProperties
      <4> QED
        BY <4>1, <4>2
    <3> QED
      BY <1>2, <1>11, <3>1
  <2> QED
    BY <1>1, <2>1, RecursionTyped
<1>14. IsFlat(flat, S, s)
  BY <1>10, <1>11, <1>13 DEF IsFlat, n
<1> QED
  BY <1>12, <1>14 DEF n

\* A last sequence is put behind the others.
LEMMA FlattenAppend ==
    ASSUME NEW S, NEW s \in Seq(Seq(S)), NEW q \in Seq(S)
    PROVE  /\ FlattenSeq(s) \in Seq(S)
           /\ FlattenSeq(Append(s, q)) = FlattenSeq(s) \o q
<1> DEFINE C == Seq(S)
           more == Append(s, q)
           N == Len(s)
<1>1. /\ N \in Nat /\ more \in Seq(C) /\ Len(more) = N + 1
      /\ \A k \in 1..N : more[k] = s[k]
      /\ more[N + 1] = q
  <2> HIDE DEF C
  <2>1. s \in Seq(C) /\ q \in C
    BY DEF C
  <2> QED
    BY <2>1, AppendProperties, LenProperties
<1>2. PICK f : IsFlat(f, S, s) /\ f[Len(s)] = FlattenSeq(s)
  BY FlatExists
<1>3. PICK g : IsFlat(g, S, more) /\ g[Len(more)] = FlattenSeq(more)
  BY <1>1, FlatExists
<1> HIDE DEF N, more
<1>4. /\ f \in [0..N -> C] /\ f[0] = << >>
      /\ \A k \in 1..N : f[k] = f[k - 1] \o s[k]
  BY <1>2 DEF IsFlat, N
<1>5. /\ g[0] = << >>
      /\ \A k \in 1..N + 1 : g[k] = g[k - 1] \o more[k]
  BY <1>1, <1>3 DEF IsFlat
<1> DEFINE T == {n \in Nat : n <= N => g[n] = f[n]}
<1>6. 0 \in T
  BY <1>4, <1>5
<1>7. ASSUME NEW n \in Nat, n \in T PROVE n + 1 \in T
  <2> SUFFICES ASSUME n + 1 <= N PROVE g[n + 1] = f[n + 1]
    OBVIOUS
  <2>1. n <= N /\ n + 1 \in 1..N /\ n + 1 \in 1..N + 1 /\ (n + 1) - 1 = n
    BY <1>1
  <2> QED
    BY <1>1, <1>4, <1>5, <1>7, <2>1
<1> HIDE DEF T
<1>8. Nat \subseteq T
  BY <1>6, <1>7, SetInduction
<1>9. g[N] = f[N]
  <2>1. N \in Nat /\ N <= N
    BY <1>1
  <2> QED
    BY <1>8, <2>1, Zenon DEF T
<1>10. g[N + 1] = g[N] \o q
  <2>1. N + 1 \in 1..N + 1 /\ (N + 1) - 1 = N
    BY <1>1
  <2> QED
    BY <1>1, <1>5, <2>1
<1>11. N \in 0..N
  BY <1>1
<1> QED
  BY <1>1, <1>2, <1>3, <1>4, <1>9, <1>10, <1>11 DEF more, N

LEMMA FlattenEmpty == FlattenSeq(<< >>) = << >>
BY DEF FlattenSeq

\* One sequence, the last of several, becomes longer.
LEMMA FlattenLonger ==
    ASSUME NEW S, NEW s \in Seq(Seq(S)), s # << >>, NEW e \in S
    PROVE  FlattenSeq([s EXCEPT ![Len(s)] = Append(@, e)]) = Append(FlattenSeq(s), e)
<1> DEFINE C == Seq(S)
           N == Len(s)
           longer == [s EXCEPT ![Len(s)] = Append(@, e)]
<1>1. PICK u \in Seq(C), q \in C : s = Append(u, q)
  <2> HIDE DEF C
  <2>1. s \in Seq(C)
    BY DEF C
  <2> QED
    BY <2>1, SequenceEmptyOrAppend
<1>2. /\ N = Len(u) + 1 /\ Len(u) \in Nat /\ s[N] = q
      /\ \A k \in 1..Len(u) : s[k] = u[k]
  <2> HIDE DEF C
  <2> QED
    BY <1>1, AppendProperties, LenProperties
<1>3. Append(q, e) \in C
  BY AppendProperties
<1>4. longer = Append(u, Append(q, e))
  <2> DEFINE r == Append(q, e)
             v == Append(u, r)
  <2> HIDE DEF r, C
  <2>1. r \in C
    BY <1>3 DEF r
  <2>2. /\ v \in Seq(C) /\ Len(v) = Len(u) + 1 /\ v[Len(u) + 1] = r
        /\ \A k \in 1..Len(u) : v[k] = u[k]
    BY <1>1, <2>1, AppendProperties
  <2>3. N \in 1..N /\ s \in Seq(C) /\ Len(s) = N
    BY <1>2 DEF C
  <2>4. longer = [s EXCEPT ![N] = r]
    BY <1>2 DEF r
  <2> HIDE DEF longer, N, v
  <2>5. /\ longer \in Seq(C) /\ Len(longer) = N
        /\ \A k \in 1..N : longer[k] = IF k = N THEN r ELSE s[k]
    BY <2>1, <2>3, <2>4, ExceptSeq
  <2>6. ASSUME NEW k \in 1..N PROVE longer[k] = v[k]
    <3>1. CASE k = N
      BY <1>2, <2>2, <2>3, <2>5, <3>1
    <3>2. CASE k # N
      <4>1. k \in 1..Len(u)
        BY <1>2, <3>2
      <4> QED
        BY <1>2, <2>2, <2>5, <3>2, <4>1
    <3> QED
      BY <3>1, <3>2
  <2>7. longer = v
    BY <1>2, <2>2, <2>5, <2>6, SeqEqual
  <2> QED
    BY <2>7 DEF v, r
<1>5. FlattenSeq(longer) = FlattenSeq(u) \o Append(q, e)
  <2> DEFINE r == Append(q, e)
  <2>1. r \in Seq(S) /\ longer = Append(u, r)
    BY <1>3, <1>4
  <2> HIDE DEF r, longer
  <2>2. FlattenSeq(Append(u, r)) = FlattenSeq(u) \o r
    BY <1>1, <2>1, FlattenAppend
  <2> QED
    BY <2>1, <2>2 DEF r
<1>6. FlattenSeq(s) = FlattenSeq(u) \o q /\ FlattenSeq(u) \in Seq(S)
  BY <1>1, FlattenAppend
<1>7. FlattenSeq(u) \o Append(q, e) = Append(FlattenSeq(u) \o q, e)
  BY <1>1, <1>6, ConcatAppend, SMTT(30)
<1> QED
  BY <1>5, <1>6, <1>7

\* What is in one of several sequences only is there as often as in all of them.
LEMMA CountFlattened ==
    ASSUME NEW S, NEW s \in Seq(Seq(S)), NEW p, NEW m \in 1..Len(s),
           \A k \in 1..Len(s) : k # m => Count(s[k], p) = 0
    PROVE  Count(FlattenSeq(s), p) = Count(s[m], p)
<1> DEFINE N == Len(s)
           C == Seq(S)
<1>1. N \in Nat /\ \A k \in 1..N : s[k] \in C
  <2> HIDE DEF C
  <2>1. s \in Seq(C)
    BY DEF C
  <2> QED
    BY <2>1, LenProperties, ElementOfSeq
<1>2. PICK f : IsFlat(f, S, s) /\ f[N] = FlattenSeq(s)
  BY FlatExists
<1>3. /\ f \in [0..N -> C] /\ f[0] = << >>
      /\ \A k \in 1..N : f[k] = f[k - 1] \o s[k]
  BY <1>2 DEF IsFlat
<1> HIDE DEF N
<1>4. \A k \in 1..N : Count(f[k], p) = Count(f[k - 1], p) + Count(s[k], p)
  <2> TAKE k \in 1..N
  <2>1. k - 1 \in 0..N
    BY <1>1
  <2>2. f[k - 1] \in Seq(S) /\ s[k] \in Seq(S)
    BY <1>1, <1>3, <2>1
  <2>3. f[k] = f[k - 1] \o s[k]
    BY <1>3
  <2> QED
    BY <2>2, <2>3, CountConcat
<1>5. \A k \in 1..N : Count(s[k], p) \in Nat
  BY <1>1, CountTyped
<1>6. m \in 1..N /\ \A k \in 1..N : k # m => Count(s[k], p) = 0
  BY DEF N
<1> DEFINE T == {n \in Nat : n <= N =>
                   Count(f[n], p) = IF n < m THEN 0 ELSE Count(s[m], p)}
<1>7. 0 \in T
  <2>1. Count(f[0], p) = 0
    BY <1>3, CountEmpty
  <2> QED
    BY <1>6, <2>1
<1>8. ASSUME NEW n \in Nat, n \in T PROVE n + 1 \in T
  <2> SUFFICES ASSUME n + 1 <= N
               PROVE  Count(f[n + 1], p) = IF n + 1 < m THEN 0 ELSE Count(s[m], p)
    OBVIOUS
  <2>1. n <= N /\ n + 1 \in 1..N /\ (n + 1) - 1 = n
    BY <1>1
  <2>2. Count(f[n + 1], p) = Count(f[n], p) + Count(s[n + 1], p)
    BY <1>4, <2>1
  <2>3. Count(f[n], p) = IF n < m THEN 0 ELSE Count(s[m], p)
    BY <1>8, <2>1
  <2> QED
    BY <1>5, <1>6, <2>1, <2>2, <2>3
<1> HIDE DEF T
<1>9. Nat \subseteq T
  BY <1>7, <1>8, SetInduction
<1>10. N \in Nat /\ ~(N < m)
  BY <1>1, <1>6
<1> QED
  BY <1>2, <1>9, <1>10 DEF T

-----------------------------------------------------------------------------
(* Sorting. *)

\* A sequence up to its place n.
UpTo(s, n) == SubSeq(s, 1, n)

LEMMA UpToEnds ==
    ASSUME NEW S, NEW s \in Seq(S)
    PROVE  UpTo(s, 0) = << >> /\ UpTo(s, Len(s)) = s
<1>1. SubSeq(s, 1, 0) = << >>
  BY SubSeqEmpty
<1>2. SubSeq(s, 1, Len(s)) = s
  BY SubSeqFull
<1> QED
  BY <1>1, <1>2 DEF UpTo

LEMMA UpToNext ==
    ASSUME NEW S, NEW s \in Seq(S), NEW n \in 1..Len(s)
    PROVE  /\ UpTo(s, n - 1) \in Seq(S) /\ s[n] \in S
           /\ UpTo(s, n) = Append(UpTo(s, n - 1), s[n])
<1> DEFINE before == SubSeq(s, 1, n - 1)
<1>1. Len(s) \in Nat /\ s[n] \in S /\ \A i \in 1..n - 1 : s[i] \in S
  BY LenProperties, ElementOfSeq
<1>2. before \in Seq(S)
  BY <1>1, SubSeqProperties
<1>3. SubSeq(s, 1, n) = before \o <<s[n]>>
  <2>1. 1 \in 1..Len(s) /\ n \in 1..Len(s)
    BY <1>1
  <2> QED
    BY <2>1, SubSeqRecursiveSecond
<1>4. before \o <<s[n]>> = Append(before, s[n])
  <2> HIDE DEF before
  <2> QED
    BY <1>1, <1>2, AppendIsConcat
<1> QED
  BY <1>1, <1>2, <1>3, <1>4 DEF UpTo

LEMMA MinOf ==
    ASSUME NEW T \in SUBSET Nat, T # {}
    PROVE  Min(T) \in T /\ \A x \in T : Min(T) <= x
BY LeastOfSet DEF Min

\* The place k after which Put puts an element.
PutAfter(order, s, e, k) ==
    /\ Put(order, s, e) = (SubSeq(s, 1, k) \o <<e>>) \o SubSeq(s, k + 1, Len(s))
    /\ \A i \in 1..k : ~Less(order, e, s[i])
    /\ k < Len(s) => Less(order, e, s[k + 1])

LEMMA PutPlace ==
    ASSUME NEW S, NEW s \in Seq(S), NEW e, NEW order
    PROVE  \E k \in 0..Len(s) : PutAfter(order, s, e, k)
<1> DEFINE N == Len(s)
           after == {i \in DOMAIN s : Less(order, e, s[i])}
           T == after \cup {N + 1}
           m == Min(T)
<1>1. N \in Nat /\ DOMAIN s = 1..N
  BY LenProperties
<1> HIDE DEF N
<1>2. T \in SUBSET Nat /\ T # {} /\ N + 1 \in T /\ \A i \in T : i \in 1..N + 1
  BY <1>1
<1>3. \A i \in 1..N : i \in T <=> Less(order, e, s[i])
  BY <1>1
<1>4. Put(order, s, e) = InsertAt(s, m, e)
  BY DEF Put, N
<1> HIDE DEF T
<1>5. m \in T /\ \A x \in T : m <= x
  BY <1>2, MinOf
<1> HIDE DEF m
<1>6. m \in 1..N + 1 /\ m - 1 \in 0..N /\ (m - 1) + 1 = m
  BY <1>1, <1>2, <1>5
<1>7. Put(order, s, e) = (SubSeq(s, 1, m - 1) \o <<e>>) \o SubSeq(s, (m - 1) + 1, N)
  BY <1>4, <1>6 DEF InsertAt, N
<1>8. \A i \in 1..m - 1 : ~Less(order, e, s[i])
  <2> SUFFICES ASSUME NEW i \in 1..m - 1 PROVE i \notin T /\ i \in 1..N
    BY <1>3
  <2> QED
    BY <1>1, <1>2, <1>5, <1>6
<1>9. m - 1 < N => Less(order, e, s[(m - 1) + 1])
  BY <1>1, <1>3, <1>5, <1>6
<1> QED
  BY <1>6, <1>7, <1>8, <1>9 DEF PutAfter, N

\* An element that is put into a sequence is there once more than before.
LEMMA PutCount ==
    ASSUME NEW S, NEW s \in Seq(S), NEW e \in S, NEW order
    PROVE  /\ Put(order, s, e) \in Seq(S)
           /\ \A p : Count(Put(order, s, e), p) = Count(s, p) + One(p, e)
<1>1. PICK k \in 0..Len(s) : PutAfter(order, s, e, k)
  BY PutPlace
<1> DEFINE a == SubSeq(s, 1, k)
           b == SubSeq(s, k + 1, Len(s))
           ae == Append(a, e)
<1>2. Len(s) \in Nat /\ \A i \in 1..Len(s) : s[i] \in S
  BY LenProperties, ElementOfSeq
<1>3. a \in Seq(S)
  BY <1>2, SubSeqProperties
<1>4. b \in Seq(S)
  <2>1. k + 1 \in Int /\ Len(s) \in Int /\ \A i \in k + 1..Len(s) : s[i] \in S
    BY <1>2
  <2> QED
    BY <2>1, SubSeqProperties
<1>5. a \o b = s
  <2>1. 1 \in 1..Len(s) + 1 /\ k \in 1 - 1..Len(s) /\ Len(s) \in k..Len(s)
    BY <1>2
  <2>2. SubSeq(s, 1, k) \o SubSeq(s, k + 1, Len(s)) = SubSeq(s, 1, Len(s))
    BY <2>1, ConcatAdjacentSubSeq
  <2> QED
    BY <2>2, SubSeqFull
<1>6. Put(order, s, e) = (a \o <<e>>) \o b
  BY <1>1 DEF PutAfter
<1> HIDE DEF a, b
<1>7. ae \in Seq(S) /\ a \o <<e>> = ae
  BY <1>3, AppendProperties, AppendIsConcat
<1>8. ASSUME NEW p PROVE Count(ae \o b, p) = Count(s, p) + One(p, e)
  <2>1. Count(ae, p) = Count(a, p) + One(p, e)
    BY <1>3, CountAppend
  <2> HIDE DEF ae
  <2>2. Count(ae \o b, p) = Count(ae, p) + Count(b, p)
    BY <1>4, <1>7, CountConcat
  <2>3. Count(s, p) = Count(a, p) + Count(b, p)
    BY <1>3, <1>4, <1>5, CountConcat
  <2>4. Count(a, p) \in Nat /\ Count(b, p) \in Nat /\ One(p, e) \in Nat
    BY <1>3, <1>4, CountTyped DEF One
  <2> QED
    BY <2>1, <2>2, <2>3, <2>4
<1> HIDE DEF ae
<1>9. ae \o b \in Seq(S)
  BY <1>4, <1>7, ConcatProperties
<1> QED
  BY <1>6, <1>7, <1>8, <1>9

\* f[n] is the first n elements of s, sorted.
Sorts(f, S, order, s) ==
    /\ \A n \in 0..Len(s) : f[n] \in Seq(S)
    /\ f[0] = << >>
    /\ \A n \in 1..Len(s) : f[n] = Put(order, f[n - 1], s[n])
    /\ Sorted(order, s) = f[Len(s)]

\* Sorted is what its recursion says.
LEMMA SortedBuilt ==
    ASSUME NEW S, NEW s \in Seq(S), NEW order
    PROVE  \E f : Sorts(f, S, order, s)
<1> DEFINE N == Len(s)
           C == Seq(S)
           Step(n, q) == Put(order, q, s[n])
           Rec(f) == f = [n \in 0..N |-> IF n = 0 THEN << >> ELSE Step(n, f[n - 1])]
           step == [n \in 1..N |-> [q \in C |-> Step(n, q)]]
           base == << >>
<1>1. N \in Nat /\ base \in C /\ \A n \in 1..N : s[n] \in S
  BY EmptySeq, LenProperties, ElementOfSeq
<1>2. \A n \in 1..N, q \in C : Step(n, q) \in C
  BY <1>1, PutCount
<1> HIDE DEF C, Step
<1>3. step \in [1..N -> [C -> C]]
  BY <1>2
<1>4. \A n \in 1..N, q \in C : step[n][q] = Step(n, q)
  OBVIOUS
<1>5. Sorted(order, s) = (CHOOSE g : Rec(g))[N]
  BY DEF Sorted, N, Step
<1> HIDE DEF N, step, base
<1>6. PICK f : TakesSteps(f, N, C, base, step)
  BY <1>1, <1>3, RecursionExists
<1>7. \A n \in 0..N : n # 0 => n \in 1..N /\ n - 1 \in 0..N
  BY <1>1
<1>8. \A n \in 0..N : f[n] = IF n = 0 THEN << >> ELSE Step(n, f[n - 1])
  BY <1>4, <1>6, <1>7 DEF base, TakesSteps
<1>9. Rec(f)
  BY <1>6, <1>8 DEF TakesSteps
<1> DEFINE g == CHOOSE g : Rec(g)
<1>10. Rec(g)
  BY <1>9
<1> HIDE DEF g
<1>11. \A n \in 0..N : g[n] = IF n = 0 THEN << >> ELSE Step(n, g[n - 1])
  BY <1>10
<1>12. Sorted(order, s) = g[N]
  BY <1>5 DEF g
<1> HIDE DEF Rec
<1>13. \A n \in 1..N : n \in 0..N /\ n # 0
  BY <1>1
<1>14. \A n \in 1..N : g[n - 1] \in C => g[n] \in C
  BY <1>2, <1>11, <1>13
<1>15. 0 \in 0..N /\ g[0] = base
  BY <1>1, <1>11 DEF base
<1>16. \A n \in 0..N : g[n] \in C
  BY <1>1, <1>14, <1>15, RecursionTyped
<1>17. \A n \in 1..N : g[n] = Put(order, g[n - 1], s[n])
  BY <1>11, <1>13 DEF Step
<1> QED
  BY <1>12, <1>15, <1>16, <1>17 DEF N, base, C, Sorts

\* Sorting keeps every element as often as it is there.
LEMMA SortedCount ==
    ASSUME NEW S, NEW s \in Seq(S), NEW order
    PROVE  /\ Sorted(order, s) \in Seq(S)
           /\ \A p : Count(Sorted(order, s), p) = Count(s, p)
<1> DEFINE N == Len(s)
<1>0. PICK f : Sorts(f, S, order, s)
  BY SortedBuilt
<1>1. /\ \A n \in 0..N : f[n] \in Seq(S)
      /\ f[0] = << >>
      /\ \A n \in 1..N : f[n] = Put(order, f[n - 1], s[n])
      /\ Sorted(order, s) = f[N]
  BY <1>0 DEF Sorts
<1>2. N \in Nat /\ \A n \in 1..N : n - 1 \in 0..N /\ s[n] \in S
  BY LenProperties, ElementOfSeq
<1>3. ASSUME NEW p PROVE Count(f[N], p) = Count(s, p)
  <2> DEFINE T == {n \in Nat : n <= N => Count(f[n], p) = Count(UpTo(s, n), p)}
  <2>1. 0 \in T
    BY <1>1, UpToEnds
  <2>2. ASSUME NEW n \in Nat, n \in T PROVE n + 1 \in T
    <3> SUFFICES ASSUME n + 1 <= N PROVE Count(f[n + 1], p) = Count(UpTo(s, n + 1), p)
      OBVIOUS
    <3>1. n <= N /\ n + 1 \in 1..N /\ (n + 1) - 1 = n /\ n \in 0..N
      BY <1>2
    <3>2. f[n] \in Seq(S) /\ s[n + 1] \in S /\ f[n + 1] = Put(order, f[n], s[n + 1])
      BY <1>1, <1>2, <3>1
    <3>3. Count(f[n + 1], p) = Count(f[n], p) + One(p, s[n + 1])
      BY <3>2, PutCount
    <3>4. /\ UpTo(s, n) \in Seq(S)
          /\ UpTo(s, n + 1) = Append(UpTo(s, n), s[n + 1])
      BY <3>1, UpToNext
    <3>5. Count(UpTo(s, n + 1), p) = Count(UpTo(s, n), p) + One(p, s[n + 1])
      BY <3>2, <3>4, CountAppend
    <3> QED
      BY <2>2, <3>1, <3>3, <3>5
  <2> HIDE DEF T
  <2>3. Nat \subseteq T
    BY <2>1, <2>2, SetInduction
  <2>4. Count(f[N], p) = Count(UpTo(s, N), p)
    BY <1>2, <2>3 DEF T
  <2> QED
    BY <2>4, UpToEnds
<1>4. N \in 0..N
  BY <1>2
<1> QED
  BY <1>1, <1>3, <1>4

\* The elements of a sequence into which an element is put after the place k.
LEMMA PutElements ==
    ASSUME NEW S, NEW s \in Seq(S), NEW e \in S, NEW order,
           NEW k \in 0..Len(s), PutAfter(order, s, e, k)
    PROVE  /\ Len(Put(order, s, e)) = Len(s) + 1
           /\ \A i \in 1..Len(s) + 1 :
                 Put(order, s, e)[i] = IF i <= k THEN s[i]
                                       ELSE IF i = k + 1 THEN e ELSE s[i - 1]
<1> DEFINE N == Len(s)
           a == SubSeq(s, 1, k)
           b == SubSeq(s, k + 1, N)
           ae == Append(a, e)
           r == ae \o b
<1>1. N \in Nat /\ k \in 0..N /\ \A i \in 1..N : s[i] \in S
  BY LenProperties, ElementOfSeq
<1> HIDE DEF N
<1>2. a \in Seq(S) /\ Len(a) = k /\ \A i \in 1..k : a[i] = s[i]
  <2>1. 1 \in Int /\ k \in Int /\ \A i \in 1..k : s[i] \in S
    BY <1>1
  <2>2. /\ a \in Seq(S) /\ Len(a) = (IF 1 <= k THEN k - 1 + 1 ELSE 0)
        /\ \A i \in 1..k - 1 + 1 : a[i] = s[1 + i - 1]
    BY <2>1, SubSeqProperties
  <2> HIDE DEF a
  <2>3. Len(a) = k
    BY <1>1, <2>2
  <2>4. \A i \in 1..k : i \in 1..k - 1 + 1 /\ 1 + i - 1 = i
    BY <1>1
  <2> QED
    BY <2>2, <2>3, <2>4
<1>3. b \in Seq(S) /\ Len(b) = N - k /\ \A i \in 1..N - k : b[i] = s[k + i]
  <2>1. k + 1 \in Int /\ N \in Int /\ \A i \in k + 1..N : s[i] \in S
    BY <1>1
  <2>2. /\ b \in Seq(S) /\ Len(b) = (IF k + 1 <= N THEN N - (k + 1) + 1 ELSE 0)
        /\ \A i \in 1..N - (k + 1) + 1 : b[i] = s[(k + 1) + i - 1]
    BY <2>1, SubSeqProperties
  <2> HIDE DEF b
  <2>3. Len(b) = N - k
    BY <1>1, <2>2
  <2>4. \A i \in 1..N - k : i \in 1..N - (k + 1) + 1 /\ (k + 1) + i - 1 = k + i
    BY <1>1
  <2> QED
    BY <2>2, <2>3, <2>4
<1>4. Put(order, s, e) = (a \o <<e>>) \o b
  BY DEF PutAfter, N
<1> HIDE DEF a, b
<1>5. /\ ae \in Seq(S) /\ Len(ae) = k + 1 /\ ae[k + 1] = e /\ a \o <<e>> = ae
      /\ \A i \in 1..k : ae[i] = s[i]
  BY <1>2, AppendProperties, AppendIsConcat
<1> HIDE DEF ae
<1>6. /\ Len(r) = Len(ae) + Len(b)
      /\ \A i \in 1..Len(ae) + Len(b) : r[i] = IF i <= Len(ae) THEN ae[i] ELSE b[i - Len(ae)]
  BY <1>3, <1>5, ConcatProperties
<1>7. Put(order, s, e) = r
  BY <1>4, <1>5
<1> HIDE DEF r
<1>8. Len(r) = N + 1
  BY <1>1, <1>3, <1>5, <1>6
<1>9. ASSUME NEW i \in 1..N + 1
      PROVE  r[i] = IF i <= k THEN s[i] ELSE IF i = k + 1 THEN e ELSE s[i - 1]
  <2>1. r[i] = IF i <= k + 1 THEN ae[i] ELSE b[i - (k + 1)]
    <3>1. k + 1 + (N - k) = N + 1
      BY <1>1
    <3> QED
      BY <1>3, <1>5, <1>6, <3>1
  <2>2. CASE i <= k
    <3>1. i \in 1..k /\ i <= k + 1
      BY <1>1, <2>2
    <3> QED
      BY <1>5, <2>1, <2>2, <3>1
  <2>3. CASE i = k + 1
    <3>1. ~(i <= k)
      BY <1>1, <2>3
    <3> QED
      BY <1>5, <2>1, <2>3, <3>1
  <2>4. CASE ~(i <= k) /\ i # k + 1
    <3>1. i - (k + 1) \in 1..N - k /\ ~(i <= k + 1) /\ k + (i - (k + 1)) = i - 1
      BY <1>1, <2>4
    <3> QED
      BY <1>3, <2>1, <2>4, <3>1
  <2> QED
    BY <2>2, <2>3, <2>4
<1> QED
  BY <1>7, <1>8, <1>9 DEF N

\* The orders of groups order two groups unless they are at the same position.
GroupOrders == {"Rows", "Columns"}

LEMMA LessGroups ==
    ASSUME NEW order \in GroupOrders, NEW a, NEW b, NEW c,
           a.position \in Int, b.position \in Int, c.position \in Int
    PROVE  /\ a.position # b.position => Less(order, a, b) \/ Less(order, b, a)
           /\ Less(order, a, b) => a.position # b.position
           /\ Less(order, a, b) /\ Less(order, b, c) => Less(order, a, c)
<1>1. CASE order = "Rows"
  BY <1>1 DEF Less
<1>2. CASE order = "Columns"
  BY <1>2 DEF Less
<1> QED
  BY <1>1, <1>2 DEF GroupOrders

\* Every element comes before the later ones.
InOrder(order, s) == \A i, j \in 1..Len(s) : i < j => Less(order, s[i], s[j])

\* A group that is put among groups at other positions comes to its place.
LEMMA PutInOrder ==
    ASSUME NEW order \in GroupOrders, NEW G, \A x \in G : x.position \in Int,
           NEW s \in Seq(G), NEW e \in G, InOrder(order, s),
           \A i \in 1..Len(s) : s[i].position # e.position
    PROVE  /\ InOrder(order, Put(order, s, e))
           /\ ToSet(Put(order, s, e)) = ToSet(s) \cup {e}
<1> DEFINE N == Len(s)
           r == Put(order, s, e)
<1>1. PICK k \in 0..N : PutAfter(order, s, e, k)
  BY PutPlace
<1>2. /\ N \in Nat /\ k \in 0..N
      /\ \A i \in 1..N : s[i] \in G /\ s[i].position \in Int
      /\ e.position \in Int
  BY LenProperties, ElementOfSeq
<1>3. /\ Len(r) = N + 1
      /\ \A i \in 1..N + 1 : r[i] = IF i <= k THEN s[i]
                                    ELSE IF i = k + 1 THEN e ELSE s[i - 1]
  BY <1>1, PutElements
<1>4. /\ \A i \in 1..k : ~Less(order, e, s[i])
      /\ k < N => Less(order, e, s[k + 1])
  BY <1>1 DEF PutAfter
<1>5. r \in Seq(G)
  BY PutCount
<1>6. \A i, j \in 1..N : i < j => Less(order, s[i], s[j])
  BY DEF InOrder
<1>7. \A i \in 1..N : s[i].position # e.position
  OBVIOUS
<1>8. ToSet(s) = {s[i] : i \in 1..N} /\ ToSet(r) = {r[i] : i \in 1..N + 1}
  BY <1>3, <1>5, LenProperties DEF ToSet
<1> HIDE DEF N, r
<1>9. \A i \in 1..k : i \in 1..N /\ Less(order, s[i], e)
  BY <1>2, <1>4, <1>7, LessGroups
<1>10. \A i \in k + 1..N : i \in 1..N /\ Less(order, e, s[i])
  <2> SUFFICES ASSUME NEW i \in k + 1..N PROVE i \in 1..N /\ Less(order, e, s[i])
    OBVIOUS
  <2>1. i \in 1..N /\ k + 1 \in 1..N /\ k < N
    BY <1>2
  <2>2. CASE i = k + 1
    BY <1>4, <2>1, <2>2
  <2>3. CASE i # k + 1
    <3>1. k + 1 < i
      BY <1>2, <2>3
    <3>2. Less(order, s[k + 1], s[i])
      BY <1>6, <2>1, <3>1
    <3> QED
      BY <1>2, <1>4, <2>1, <3>2, LessGroups
  <2> QED
    BY <2>2, <2>3
<1>11. InOrder(order, r)
  <2> SUFFICES ASSUME NEW i \in 1..N + 1, NEW j \in 1..N + 1, i < j
               PROVE  Less(order, r[i], r[j])
    BY <1>3 DEF InOrder
  <2>1. CASE j <= k
    <3>1. i <= k /\ i \in 1..N /\ j \in 1..N
      BY <1>2, <2>1
    <3> QED
      BY <1>3, <1>6, <2>1, <3>1
  <2>2. CASE j = k + 1
    <3>1. i <= k /\ i \in 1..k /\ ~(j <= k)
      BY <1>2, <2>2
    <3> QED
      BY <1>3, <1>9, <2>2, <3>1
  <2>3. CASE ~(j <= k) /\ j # k + 1
    <3>1. j - 1 \in k + 1..N /\ j - 1 \in 1..N /\ r[j] = s[j - 1]
      BY <1>2, <1>3, <2>3
    <3>2. CASE i <= k
      <4>1. i \in 1..N /\ i < j - 1 /\ r[i] = s[i]
        BY <1>2, <1>3, <2>3, <3>1, <3>2
      <4> QED
        BY <1>6, <3>1, <4>1
    <3>3. CASE i = k + 1
      <4>1. ~(i <= k) /\ r[i] = e
        BY <1>2, <1>3, <3>3
      <4> QED
        BY <1>10, <3>1, <4>1
    <3>4. CASE ~(i <= k) /\ i # k + 1
      <4>1. i - 1 \in 1..N /\ i - 1 < j - 1 /\ r[i] = s[i - 1]
        BY <1>2, <1>3, <3>4
      <4> QED
        BY <1>6, <3>1, <4>1
    <3> QED
      BY <3>2, <3>3, <3>4
  <2> QED
    BY <2>1, <2>2, <2>3
<1>12. {r[i] : i \in 1..N + 1} = {s[i] : i \in 1..N} \cup {e}
  <2>1. ASSUME NEW i \in 1..N + 1 PROVE r[i] \in {s[j] : j \in 1..N} \cup {e}
    <3>1. i <= k => i \in 1..N
      BY <1>2
    <3>2. ~(i <= k) /\ i # k + 1 => i - 1 \in 1..N
      BY <1>2
    <3> QED
      BY <1>3, <3>1, <3>2
  <2>2. ASSUME NEW j \in 1..N PROVE \E i \in 1..N + 1 : r[i] = s[j]
    <3>1. CASE j <= k
      <4>1. j \in 1..N + 1
        BY <1>2
      <4> QED
        BY <1>3, <3>1, <4>1
    <3>2. CASE ~(j <= k)
      <4>1. j + 1 \in 1..N + 1 /\ ~(j + 1 <= k) /\ j + 1 # k + 1 /\ (j + 1) - 1 = j
        BY <1>2, <3>2
      <4> QED
        BY <1>3, <4>1
    <3> QED
      BY <3>1, <3>2
  <2>3. k + 1 \in 1..N + 1 /\ r[k + 1] = e
    <3>1. k + 1 \in 1..N + 1 /\ ~(k + 1 <= k)
      BY <1>2
    <3> QED
      BY <1>3, <3>1
  <2> QED
    BY <2>1, <2>2, <2>3
<1> QED
  BY <1>8, <1>11, <1>12 DEF r

\* Groups at different positions are the same groups afterwards, in their order.
LEMMA SortedInOrder ==
    ASSUME NEW order \in GroupOrders, NEW G, \A x \in G : x.position \in Int,
           NEW s \in Seq(G),
           \A i, j \in 1..Len(s) : s[i].position = s[j].position => i = j
    PROVE  /\ Sorted(order, s) \in Seq(G)
           /\ InOrder(order, Sorted(order, s))
           /\ ToSet(Sorted(order, s)) = ToSet(s)
<1> DEFINE N == Len(s)
<1>0. PICK f : Sorts(f, G, order, s)
  BY SortedBuilt
<1>1. /\ \A n \in 0..N : f[n] \in Seq(G)
      /\ f[0] = << >>
      /\ \A n \in 1..N : f[n] = Put(order, f[n - 1], s[n])
      /\ Sorted(order, s) = f[N]
  BY <1>0 DEF Sorts
<1>2. N \in Nat /\ DOMAIN s = 1..N /\ \A n \in 1..N : s[n] \in G
  BY LenProperties, ElementOfSeq
<1>3. \A i, j \in 1..N : s[i].position = s[j].position => i = j
  OBVIOUS
<1>4. ToSet(s) = {s[i] : i \in 1..N}
  BY <1>2 DEF ToSet
<1> HIDE DEF N
<1> DEFINE T == {n \in Nat : n <= N =>
                   InOrder(order, f[n]) /\ ToSet(f[n]) = {s[i] : i \in 1..n}}
<1>5. 0 \in T
  <2>1. InOrder(order, << >>)
    BY DEF InOrder
  <2>2. ToSet(<< >>) = {} /\ {s[i] : i \in 1..0} = {}
    BY DEF ToSet
  <2> QED
    BY <1>1, <2>1, <2>2
<1>6. ASSUME NEW n \in Nat, n \in T PROVE n + 1 \in T
  <2> SUFFICES ASSUME n + 1 <= N
               PROVE  InOrder(order, f[n + 1]) /\ ToSet(f[n + 1]) = {s[i] : i \in 1..n + 1}
    OBVIOUS
  <2>1. n <= N /\ n + 1 \in 1..N /\ (n + 1) - 1 = n /\ n \in 0..N
    BY <1>2
  <2>2. f[n] \in Seq(G) /\ s[n + 1] \in G /\ f[n + 1] = Put(order, f[n], s[n + 1])
    BY <1>1, <1>2, <2>1
  <2>3. InOrder(order, f[n]) /\ ToSet(f[n]) = {s[i] : i \in 1..n}
    BY <1>6, <2>1
  <2>4. \A k \in 1..Len(f[n]) : f[n][k].position # s[n + 1].position
    <3> TAKE k \in 1..Len(f[n])
    <3>1. f[n][k] \in ToSet(f[n])
      BY <2>2, LenProperties DEF ToSet
    <3>2. PICK i \in 1..n : f[n][k] = s[i]
      BY <2>3, <3>1
    <3>3. i \in 1..N /\ i # n + 1
      BY <1>2, <2>1
    <3> QED
      BY <1>3, <2>1, <3>2, <3>3
  <2>5. InOrder(order, f[n + 1]) /\ ToSet(f[n + 1]) = ToSet(f[n]) \cup {s[n + 1]}
    BY <2>2, <2>3, <2>4, PutInOrder, SMTT(30)
  <2>6. 1..n + 1 = (1..n) \cup {n + 1}
    BY <1>6
  <2> QED
    BY <2>3, <2>5, <2>6
<1> HIDE DEF T
<1>7. Nat \subseteq T
  BY <1>5, <1>6, SetInduction
<1>8. InOrder(order, f[N]) /\ ToSet(f[N]) = {s[i] : i \in 1..N}
  <2>1. N <= N
    BY <1>2
  <2>2. N \in T
    BY <1>2, <1>7, Zenon
  <2> QED
    BY <2>1, <2>2, Zenon DEF T
<1>9. N \in 0..N
  BY <1>2
<1> QED
  BY <1>1, <1>4, <1>8, <1>9

-----------------------------------------------------------------------------
(* Rows and columns. *)

PieceSet == [enc : Encoders, s : Strings, x : Int, y : Int]

GroupSet == [position : Int, pieces : Seq(PieceSet)]

\* The cut towards zero keeps the order.
LEMMA TruncOrder ==
    ASSUME NEW x \in Int, NEW y \in Int
    PROVE  Trunc(x) \in Int /\ (Trunc(x) < Trunc(y) => x < y)
BY DEF Trunc

LEMMA PositionTyped ==
    ASSUME NEW kind \in GroupOrders, NEW p \in PieceSet
    PROVE  Position(kind, p) \in Int
<1>1. p.x \in Int /\ p.y \in Int
  BY DEF PieceSet
<1> QED
  BY <1>1, TruncOrder DEF Position

\* Every piece of out is in the group of its position, as often as in out, and in
\* no other group.
IsGrouping(kind, found, out) ==
    /\ found \in Seq(GroupSet)
    /\ \A i, j \in 1..Len(found) : found[i].position = found[j].position => i = j
    /\ \A i \in 1..Len(found) : \A p \in PieceSet :
          Count(found[i].pieces, p) =
             IF Position(kind, p) = found[i].position THEN Count(out, p) ELSE 0
    /\ \A p \in ToSet(out) :
          \E i \in 1..Len(found) : found[i].position = Position(kind, p)

\* A piece more in a group.
WithPiece(g, p) == [g EXCEPT !.pieces = Append(@, p)]

LEMMA WithPieceIs ==
    ASSUME NEW g \in GroupSet, NEW p \in PieceSet
    PROVE  /\ WithPiece(g, p) \in GroupSet
           /\ WithPiece(g, p).position = g.position
           /\ \A q : Count(WithPiece(g, p).pieces, q) = Count(g.pieces, q) + One(q, p)
<1>1. g.pieces \in Seq(PieceSet) /\ g.position \in Int
  BY DEF GroupSet
<1>2. Append(g.pieces, p) \in Seq(PieceSet)
  BY <1>1, AppendProperties
<1>3. WithPiece(g, p) = [position |-> g.position, pieces |-> Append(g.pieces, p)]
  BY SMTT(30) DEF WithPiece, GroupSet
<1>4. \A q : Count(Append(g.pieces, p), q) = Count(g.pieces, q) + One(q, p)
  BY <1>1, CountAppend
<1> QED
  BY <1>1, <1>2, <1>3, <1>4 DEF GroupSet

\* The group of a piece at a new position.
NewGroup(at, p) == [position |-> at, pieces |-> <<p>>]

LEMMA NewGroupIs ==
    ASSUME NEW at \in Int, NEW p \in PieceSet
    PROVE  /\ NewGroup(at, p) \in GroupSet
           /\ NewGroup(at, p).position = at
           /\ \A q : Count(NewGroup(at, p).pieces, q) = One(q, p)
<1>1. << >> \in Seq(PieceSet) /\ Append(<< >>, p) = <<p>>
  OBVIOUS
<1>2. Append(<< >>, p) \in Seq(PieceSet)
  BY <1>1, AppendProperties
<1>3. \A q : Count(Append(<< >>, p), q) = 0 + One(q, p)
  BY <1>1, CountAppend, CountEmpty
<1>4. \A q : 0 + One(q, p) = One(q, p)
  BY DEF One
<1> QED
  BY <1>1, <1>2, <1>3, <1>4 DEF NewGroup, GroupSet

\* The two cases of Join.
LEMMA JoinIs ==
    ASSUME NEW kind, NEW found \in Seq(GroupSet), NEW p, NEW at, at = Position(kind, p)
    PROVE  IF \E i \in 1..Len(found) : found[i].position = at
           THEN Join(kind, found, p) =
                   [i \in 1..Len(found) |->
                      IF found[i].position = at THEN WithPiece(found[i], p) ELSE found[i]]
           ELSE Join(kind, found, p) = Append(found, NewGroup(at, p))
<1>1. DOMAIN found = 1..Len(found)
  BY LenProperties
<1> QED
  BY <1>1, Zenon DEF Join, WithPiece, NewGroup

LEMMA JoinTyped ==
    ASSUME NEW kind \in GroupOrders, NEW found \in Seq(GroupSet), NEW p \in PieceSet
    PROVE  Join(kind, found, p) \in Seq(GroupSet)
<1> DEFINE at == Position(kind, p)
           N == Len(found)
<1>1. at \in Int
  BY PositionTyped
<1>2. N \in Nat /\ \A i \in 1..N : found[i] \in GroupSet
  BY LenProperties, ElementOfSeq
<1> HIDE DEF at, N
<1>3. CASE \E i \in 1..N : found[i].position = at
  <2> DEFINE g == [i \in 1..N |->
                     IF found[i].position = at THEN WithPiece(found[i], p) ELSE found[i]]
  <2>1. Join(kind, found, p) = g
    BY <1>3, JoinIs DEF at, N
  <2>2. \A i \in 1..N : WithPiece(found[i], p) \in GroupSet
    BY <1>2, WithPieceIs
  <2>3. g \in [1..N -> GroupSet]
    BY <1>2, <2>2
  <2> HIDE DEF g
  <2>4. g \in Seq(GroupSet)
    BY <1>2, <2>3, SeqDef
  <2> QED
    BY <2>1, <2>4
<1>4. CASE ~ \E i \in 1..N : found[i].position = at
  <2>1. Join(kind, found, p) = Append(found, NewGroup(at, p))
    BY <1>4, JoinIs, SMTT(30) DEF at, N
  <2>2. NewGroup(at, p) \in GroupSet
    BY <1>1, NewGroupIs
  <2> QED
    BY <2>1, <2>2, AppendProperties
<1> QED
  BY <1>3, <1>4

\* One piece more is grouped.
LEMMA JoinGroups ==
    ASSUME NEW kind \in GroupOrders, NEW found, NEW out \in Seq(PieceSet),
           IsGrouping(kind, found, out), NEW p \in PieceSet
    PROVE  IsGrouping(kind, Join(kind, found, p), Append(out, p))
<1> DEFINE at == Position(kind, p)
           N == Len(found)
           more == Append(out, p)
           r == Join(kind, found, p)
<1>1. at \in Int
  BY PositionTyped
<1>2. found \in Seq(GroupSet)
  BY DEF IsGrouping
<1>3. N \in Nat /\ \A i \in 1..N : found[i] \in GroupSet
  BY <1>2, LenProperties, ElementOfSeq
<1>4. \A q : Count(more, q) = Count(out, q) + One(q, p)
  BY CountAppend
<1>5. \A q : Count(out, q) \in Nat /\ (Count(out, q) > 0 <=> q \in ToSet(out))
  BY CountTyped
<1>6. more \in Seq(PieceSet)
  BY AppendProperties
<1>7. \A q : Count(more, q) > 0 <=> q \in ToSet(more)
  BY <1>6, CountTyped
<1>8. r \in Seq(GroupSet)
  BY <1>2, JoinTyped
<1>9. /\ \A i, j \in 1..N : found[i].position = found[j].position => i = j
      /\ \A i \in 1..N : \A q \in PieceSet :
            Count(found[i].pieces, q) =
               IF Position(kind, q) = found[i].position THEN Count(out, q) ELSE 0
      /\ \A q \in ToSet(out) : \E i \in 1..N : found[i].position = Position(kind, q)
  BY DEF IsGrouping
<1>10. \A q \in ToSet(more) : q \in ToSet(out) \/ q = p
  BY <1>4, <1>5, <1>7 DEF One
<1>11. \A q : Position(kind, q) # at => One(q, p) = 0
  BY DEF One
<1>12. CASE \E i \in 1..N : found[i].position = at
  <2>1. r = [i \in 1..N |->
               IF found[i].position = at THEN WithPiece(found[i], p) ELSE found[i]]
    BY <1>2, <1>12, JoinIs
  <2> HIDE DEF at, N, more, r
  <2>2. Len(r) = N
    <3>1. DOMAIN r = 1..N /\ DOMAIN r = 1..Len(r) /\ Len(r) \in Nat
      BY <1>8, <2>1, LenProperties
    <3> QED
      BY <1>3, <3>1
  <2>3. \A i \in 1..N : r[i].position = found[i].position
    BY <1>3, <2>1, WithPieceIs
  <2>4. ASSUME NEW i \in 1..N, NEW q \in PieceSet
        PROVE  Count(r[i].pieces, q) =
                  IF Position(kind, q) = found[i].position THEN Count(more, q) ELSE 0
    <3>1. Count(found[i].pieces, q) =
             IF Position(kind, q) = found[i].position THEN Count(out, q) ELSE 0
      BY <1>9
    <3>2. Count(more, q) = Count(out, q) + One(q, p) /\ Count(out, q) \in Nat
      BY <1>4, <1>5
    <3>3. CASE found[i].position = at
      <4>1. r[i] = WithPiece(found[i], p)
        BY <2>1, <3>3
      <4>2. Count(r[i].pieces, q) = Count(found[i].pieces, q) + One(q, p)
        BY <1>3, <4>1, WithPieceIs
      <4> QED
        BY <1>11, <3>1, <3>2, <3>3, <4>2
    <3>4. CASE found[i].position # at
      <4>1. r[i] = found[i]
        BY <2>1, <3>4
      <4>2. Position(kind, q) = found[i].position => Count(more, q) = Count(out, q)
        BY <1>11, <3>2, <3>4
      <4> QED
        BY <3>1, <4>1, <4>2
    <3> QED
      BY <3>3, <3>4
  <2>5. \A q \in ToSet(more) : \E i \in 1..N : r[i].position = Position(kind, q)
    <3> TAKE q \in ToSet(more)
    <3>1. \E i \in 1..N : found[i].position = Position(kind, q)
      BY <1>9, <1>10, <1>12 DEF at
    <3> QED
      BY <2>3, <3>1
  <2>6. \A i, j \in 1..N : r[i].position = r[j].position => i = j
    BY <1>9, <2>3
  <2>7. \A i \in 1..N : \A q \in PieceSet :
           Count(r[i].pieces, q) =
              IF Position(kind, q) = r[i].position THEN Count(more, q) ELSE 0
    BY <2>3, <2>4, Zenon
  <2>8. IsGrouping(kind, r, more)
    BY <1>8, <2>2, <2>5, <2>6, <2>7, Zenon DEF IsGrouping
  <2> QED
    BY <2>8 DEF r, more
<1>13. CASE ~ \E i \in 1..N : found[i].position = at
  <2> DEFINE g == NewGroup(at, p)
  <2>1. r = Append(found, g)
    BY <1>2, <1>13, JoinIs, ZenonT(60)
  <2>2. g \in GroupSet /\ g.position = at /\ \A q : Count(g.pieces, q) = One(q, p)
    BY <1>1, NewGroupIs
  <2> HIDE DEF at, more, r, g
  <2>3. Len(r) = N + 1 /\ r[N + 1] = g /\ \A i \in 1..N : r[i] = found[i]
    BY <1>2, <2>1, <2>2, AppendProperties
  <2> HIDE DEF N
  <2>4. \A q : Position(kind, q) = at => Count(out, q) = 0
    <3> SUFFICES ASSUME NEW q, Position(kind, q) = at PROVE q \notin ToSet(out)
      BY <1>5
    <3> QED
      BY <1>9, <1>13
  <2>5. \A i \in 1..N + 1 : i \in 1..N \/ i = N + 1
    BY <1>3
  <2>6. \A i, j \in 1..N + 1 : r[i].position = r[j].position => i = j
    BY <1>9, <1>13, <2>2, <2>3, <2>5
  <2>7. ASSUME NEW i \in 1..N + 1, NEW q \in PieceSet
        PROVE  Count(r[i].pieces, q) =
                  IF Position(kind, q) = r[i].position THEN Count(more, q) ELSE 0
    <3>1. Count(more, q) = Count(out, q) + One(q, p) /\ Count(out, q) \in Nat
          /\ One(q, p) \in Nat
      BY <1>4, <1>5 DEF One
    <3>2. CASE i = N + 1
      <4>1. r[i] = g /\ Count(g.pieces, q) = One(q, p) /\ g.position = at
        BY <2>2, <2>3, <3>2
      <4> QED
        BY <1>11, <2>4, <3>1, <4>1
    <3>3. CASE i \in 1..N
      <4>1. r[i] = found[i] /\ found[i].position # at
        BY <1>13, <2>3, <3>3
      <4>2. Position(kind, q) = found[i].position => Count(more, q) = Count(out, q)
        BY <1>11, <3>1, <4>1
      <4> QED
        BY <1>9, <3>3, <4>1, <4>2
    <3> QED
      BY <2>5, <3>2, <3>3
  <2>8. \A q \in ToSet(more) : \E i \in 1..N + 1 : r[i].position = Position(kind, q)
    <3> TAKE q \in ToSet(more)
    <3>1. CASE q = p
      <4>1. N + 1 \in 1..N + 1
        BY <1>3
      <4> QED
        BY <2>2, <2>3, <3>1, <4>1 DEF at
    <3>2. CASE q \in ToSet(out)
      <4>1. PICK i \in 1..N : found[i].position = Position(kind, q)
        BY <1>9, <3>2
      <4>2. i \in 1..N + 1
        BY <1>3
      <4> QED
        BY <2>3, <4>1, <4>2
    <3> QED
      BY <1>10, <3>1, <3>2
  <2>9. IsGrouping(kind, r, more)
    BY <1>8, <2>3, <2>6, <2>7, <2>8 DEF IsGrouping
  <2> QED
    BY <2>9 DEF r, more
<1> QED
  BY <1>12, <1>13

\* f[n] is the groups of the first n pieces of out.
Finds(f, kind, out) ==
    /\ \A n \in 0..Len(out) : f[n] \in Seq(GroupSet)
    /\ f[0] = << >>
    /\ \A n \in 1..Len(out) : f[n] = Join(kind, f[n - 1], out[n])
    /\ Found(kind, out) = f[Len(out)]

\* Found is what its recursion says.
LEMMA FoundBuilt ==
    ASSUME NEW kind \in GroupOrders, NEW out \in Seq(PieceSet)
    PROVE  \E f : Finds(f, kind, out)
<1> DEFINE N == Len(out)
           C == Seq(GroupSet)
           Step(n, q) == Join(kind, q, out[n])
           Rec(f) == f = [n \in 0..N |-> IF n = 0 THEN << >> ELSE Step(n, f[n - 1])]
           step == [n \in 1..N |-> [q \in C |-> Step(n, q)]]
           base == << >>
<1>1. N \in Nat /\ base \in C /\ \A n \in 1..N : out[n] \in PieceSet
  BY EmptySeq, LenProperties, ElementOfSeq
<1>2. \A n \in 1..N, q \in C : Step(n, q) \in C
  BY <1>1, JoinTyped
<1> HIDE DEF C, Step
<1>3. step \in [1..N -> [C -> C]]
  BY <1>2
<1>4. \A n \in 1..N, q \in C : step[n][q] = Step(n, q)
  OBVIOUS
<1>5. Found(kind, out) = (CHOOSE g : Rec(g))[N]
  BY DEF Found, N, Step
<1> HIDE DEF N, step, base
<1>6. PICK f : TakesSteps(f, N, C, base, step)
  BY <1>1, <1>3, RecursionExists
<1>7. \A n \in 0..N : n # 0 => n \in 1..N /\ n - 1 \in 0..N
  BY <1>1
<1>8. \A n \in 0..N : f[n] = IF n = 0 THEN << >> ELSE Step(n, f[n - 1])
  BY <1>4, <1>6, <1>7 DEF base, TakesSteps
<1>9. Rec(f)
  BY <1>6, <1>8 DEF TakesSteps
<1> DEFINE g == CHOOSE g : Rec(g)
<1>10. Rec(g)
  BY <1>9
<1> HIDE DEF g
<1>11. \A n \in 0..N : g[n] = IF n = 0 THEN << >> ELSE Step(n, g[n - 1])
  BY <1>10
<1>12. Found(kind, out) = g[N]
  BY <1>5 DEF g
<1> HIDE DEF Rec
<1>13. \A n \in 1..N : n \in 0..N /\ n # 0
  BY <1>1
<1>14. \A n \in 1..N : g[n - 1] \in C => g[n] \in C
  BY <1>2, <1>11, <1>13
<1>15. 0 \in 0..N /\ g[0] = base
  BY <1>1, <1>11 DEF base
<1>16. \A n \in 0..N : g[n] \in C
  BY <1>1, <1>14, <1>15, RecursionTyped
<1>17. \A n \in 1..N : g[n] = Join(kind, g[n - 1], out[n])
  BY <1>11, <1>13 DEF Step
<1> QED
  BY <1>12, <1>15, <1>16, <1>17 DEF N, base, C, Finds

LEMMA FoundIs ==
    ASSUME NEW kind \in GroupOrders, NEW out \in Seq(PieceSet)
    PROVE  IsGrouping(kind, Found(kind, out), out)
<1> DEFINE N == Len(out)
<1>1. PICK f : Finds(f, kind, out)
  BY FoundBuilt
<1>2. /\ f[0] = << >>
      /\ \A n \in 1..N : f[n] = Join(kind, f[n - 1], out[n])
      /\ Found(kind, out) = f[N]
  BY <1>1 DEF Finds
<1>3. N \in Nat
  BY LenProperties
<1> DEFINE T == {n \in Nat : n <= N => IsGrouping(kind, f[n], UpTo(out, n))}
<1>4. 0 \in T
  <2>1. IsGrouping(kind, << >>, << >>)
    <3>1. << >> \in Seq(GroupSet) /\ Len(<< >>) = 0 /\ ToSet(<< >>) = {}
      BY EmptySeq DEF ToSet
    <3> QED
      BY <3>1 DEF IsGrouping
  <2>2. UpTo(out, 0) = << >>
    BY UpToEnds
  <2> QED
    BY <1>2, <2>1, <2>2
<1>5. ASSUME NEW n \in Nat, n \in T PROVE n + 1 \in T
  <2> SUFFICES ASSUME n + 1 <= N PROVE IsGrouping(kind, f[n + 1], UpTo(out, n + 1))
    OBVIOUS
  <2>1. n <= N /\ n + 1 \in 1..N /\ (n + 1) - 1 = n
    BY <1>3
  <2>2. /\ UpTo(out, n) \in Seq(PieceSet) /\ out[n + 1] \in PieceSet
        /\ UpTo(out, n + 1) = Append(UpTo(out, n), out[n + 1])
    BY <2>1, UpToNext
  <2>3. IsGrouping(kind, f[n], UpTo(out, n))
    BY <1>5, <2>1
  <2>4. f[n + 1] = Join(kind, f[n], out[n + 1])
    BY <1>2, <2>1
  <2> QED
    BY <2>2, <2>3, <2>4, JoinGroups
<1> HIDE DEF T
<1>6. Nat \subseteq T
  BY <1>4, <1>5, SetInduction
<1>7. IsGrouping(kind, f[N], UpTo(out, N))
  BY <1>3, <1>6 DEF T
<1>8. UpTo(out, N) = out
  BY UpToEnds
<1> QED
  BY <1>2, <1>7, <1>8

\* The pieces of a group are sorted and stay in it.
LEMMA PiecesSortedIs ==
    ASSUME NEW kind \in GroupOrders, NEW order, NEW found, NEW out,
           IsGrouping(kind, found, out)
    PROVE  IsGrouping(kind, PiecesSorted(order, found), out)
<1> DEFINE N == Len(found)
           With(g) == [g EXCEPT !.pieces = Sorted(order, @)]
           r == PiecesSorted(order, found)
<1>1. found \in Seq(GroupSet)
  BY DEF IsGrouping
<1>2. /\ N \in Nat /\ DOMAIN found = 1..N
      /\ \A i \in 1..N : found[i] \in GroupSet
  BY <1>1, LenProperties, ElementOfSeq
<1>3. r = [i \in 1..N |-> With(found[i])]
  BY <1>2 DEF PiecesSorted
<1>4. ASSUME NEW g \in GroupSet
      PROVE  /\ With(g) \in GroupSet /\ With(g).position = g.position
             /\ \A p : Count(With(g).pieces, p) = Count(g.pieces, p)
  <2>1. g.pieces \in Seq(PieceSet) /\ g.position \in Int
    BY DEF GroupSet
  <2>2. /\ Sorted(order, g.pieces) \in Seq(PieceSet)
        /\ \A p : Count(Sorted(order, g.pieces), p) = Count(g.pieces, p)
    BY <2>1, SortedCount
  <2>3. With(g) = [position |-> g.position, pieces |-> Sorted(order, g.pieces)]
    BY DEF GroupSet
  <2> QED
    BY <2>1, <2>2, <2>3 DEF GroupSet
<1> HIDE DEF N, With, r
<1>5. r \in [1..N -> GroupSet]
  BY <1>2, <1>3, <1>4
<1>6. r \in Seq(GroupSet)
  BY <1>2, <1>5, SeqDef
<1>7. Len(r) = N
  <2>1. DOMAIN r = 1..N /\ DOMAIN r = 1..Len(r) /\ Len(r) \in Nat
    BY <1>5, <1>6, LenProperties
  <2> QED
    BY <1>2, <2>1
<1>8. \A i \in 1..N : /\ r[i].position = found[i].position
                      /\ \A p : Count(r[i].pieces, p) = Count(found[i].pieces, p)
  BY <1>2, <1>3, <1>4
<1>9. /\ \A i, j \in 1..N : found[i].position = found[j].position => i = j
      /\ \A i \in 1..N : \A q \in PieceSet :
            Count(found[i].pieces, q) =
               IF Position(kind, q) = found[i].position THEN Count(out, q) ELSE 0
      /\ \A q \in ToSet(out) : \E i \in 1..N : found[i].position = Position(kind, q)
  BY DEF IsGrouping, N
<1>10. \A i, j \in 1..N : r[i].position = r[j].position => i = j
  BY <1>8, <1>9
<1>11. \A i \in 1..N : \A q \in PieceSet :
          Count(r[i].pieces, q) =
             IF Position(kind, q) = r[i].position THEN Count(out, q) ELSE 0
  BY <1>8, <1>9
<1>12. \A q \in ToSet(out) : \E i \in 1..N : r[i].position = Position(kind, q)
  BY <1>8, <1>9
<1>13. IsGrouping(kind, r, out)
  BY <1>6, <1>7, <1>10, <1>11, <1>12 DEF IsGrouping
<1> QED
  BY <1>13 DEF r

\* The groups are sorted and stay what they are.
LEMMA SortedGroupsIs ==
    ASSUME NEW kind \in GroupOrders, NEW found, NEW out, IsGrouping(kind, found, out)
    PROVE  /\ IsGrouping(kind, Sorted(kind, found), out)
           /\ InOrder(kind, Sorted(kind, found))
<1> DEFINE N == Len(found)
           r == Sorted(kind, found)
<1>1. found \in Seq(GroupSet)
  BY DEF IsGrouping
<1>2. \A g \in GroupSet : g.position \in Int
  BY DEF GroupSet
<1>3. /\ \A i, j \in 1..N : found[i].position = found[j].position => i = j
      /\ \A i \in 1..N : \A q \in PieceSet :
            Count(found[i].pieces, q) =
               IF Position(kind, q) = found[i].position THEN Count(out, q) ELSE 0
      /\ \A q \in ToSet(out) : \E i \in 1..N : found[i].position = Position(kind, q)
  BY DEF IsGrouping
<1>4. r \in Seq(GroupSet) /\ InOrder(kind, r) /\ ToSet(r) = ToSet(found)
  BY <1>1, <1>2, <1>3, SortedInOrder
<1>5. /\ ToSet(found) = {found[i] : i \in 1..N} /\ Len(r) \in Nat
      /\ ToSet(r) = {r[i] : i \in 1..Len(r)}
      /\ \A i \in 1..Len(r) : r[i] \in GroupSet
  BY <1>1, <1>4, LenProperties, ElementOfSeq DEF ToSet
<1> HIDE DEF N, r
<1>6. \A i \in 1..Len(r) : \E k \in 1..N : r[i] = found[k]
  BY <1>4, <1>5
<1>7. \A k \in 1..N : \E i \in 1..Len(r) : r[i] = found[k]
  BY <1>4, <1>5
<1>8. ASSUME NEW i \in 1..Len(r), NEW j \in 1..Len(r), r[i].position = r[j].position
      PROVE  i = j
  <2>1. r[i].position \in Int /\ r[j].position \in Int
    BY <1>2, <1>5
  <2>2. ~Less(kind, r[i], r[j]) /\ ~Less(kind, r[j], r[i])
    BY <1>8, <2>1, LessGroups
  <2>3. ~(i < j) /\ ~(j < i)
    BY <1>4, <2>2 DEF InOrder
  <2> QED
    BY <2>3
<1>9. \A i \in 1..Len(r) : \A q \in PieceSet :
         Count(r[i].pieces, q) =
            IF Position(kind, q) = r[i].position THEN Count(out, q) ELSE 0
  BY <1>3, <1>6
<1>10. \A q \in ToSet(out) : \E i \in 1..Len(r) : r[i].position = Position(kind, q)
  BY <1>3, <1>7
<1>11. IsGrouping(kind, r, out)
  BY <1>4, <1>8, <1>9, <1>10 DEF IsGrouping
<1> QED
  BY <1>4, <1>11 DEF r

\* All groups together hold every piece as often as it was found.
LEMMA GroupsKeep ==
    ASSUME NEW kind \in GroupOrders, NEW r, NEW out, IsGrouping(kind, r, out),
           NEW p \in PieceSet, p \in ToSet(out)
    PROVE  Count(Flat(r), p) = Count(out, p)
<1> DEFINE C == Seq(PieceSet)
           s == [i \in 1..Len(r) |-> r[i].pieces]
<1>1. /\ r \in Seq(GroupSet)
      /\ \A i, j \in 1..Len(r) : r[i].position = r[j].position => i = j
      /\ \A i \in 1..Len(r) :
            Count(r[i].pieces, p) =
               IF Position(kind, p) = r[i].position THEN Count(out, p) ELSE 0
      /\ \E i \in 1..Len(r) : r[i].position = Position(kind, p)
  BY DEF IsGrouping
<1>2. /\ Len(r) \in Nat /\ DOMAIN r = 1..Len(r)
      /\ \A i \in 1..Len(r) : r[i].pieces \in C
  <2>1. \A g \in GroupSet : g.pieces \in C
    BY DEF GroupSet
  <2> QED
    BY <1>1, <2>1, LenProperties, ElementOfSeq
<1>3. Flat(r) = FlattenSeq(s)
  BY <1>2 DEF Flat
<1> HIDE DEF C
<1>4. s \in [1..Len(r) -> C]
  BY <1>2
<1>5. \A i \in 1..Len(r) : s[i] = r[i].pieces
  OBVIOUS
<1> HIDE DEF s
<1>6. s \in Seq(C)
  BY <1>2, <1>4, SeqDef
<1>7. Len(s) = Len(r)
  <2>1. DOMAIN s = 1..Len(r) /\ DOMAIN s = 1..Len(s) /\ Len(s) \in Nat
    BY <1>4, <1>6, LenProperties
  <2> QED
    BY <1>2, <2>1
<1>8. PICK m \in 1..Len(r) : r[m].position = Position(kind, p)
  BY <1>1
<1>9. Count(s[m], p) = Count(out, p)
  BY <1>1, <1>5, <1>8
<1>10. \A i \in 1..Len(r) : i # m => Count(s[i], p) = 0
  BY <1>1, <1>5, <1>8
<1>11. Count(FlattenSeq(s), p) = Count(s[m], p)
  BY <1>6, <1>7, <1>10, CountFlattened DEF C
<1> QED
  BY <1>3, <1>9, <1>11

\* What is in a group lies above, or left of, what is in a later group.
LEMMA GroupsOrdered ==
    ASSUME NEW kind \in GroupOrders, NEW r, NEW out, IsGrouping(kind, r, out),
           InOrder(kind, r), NEW i \in DOMAIN r, NEW j \in DOMAIN r, i < j,
           NEW p \in ToSet(r[i].pieces), NEW q \in ToSet(r[j].pieces)
    PROVE  IF kind = "Rows" THEN p.y > q.y ELSE p.x < q.x
<1>1. /\ r \in Seq(GroupSet)
      /\ \A k \in 1..Len(r) : \A x \in PieceSet :
            Count(r[k].pieces, x) =
               IF Position(kind, x) = r[k].position THEN Count(out, x) ELSE 0
  BY DEF IsGrouping
<1>2. DOMAIN r = 1..Len(r) /\ \A k \in 1..Len(r) : r[k] \in GroupSet
  BY <1>1, LenProperties, ElementOfSeq
<1>3. ASSUME NEW k \in 1..Len(r), NEW x \in ToSet(r[k].pieces)
      PROVE  x \in PieceSet /\ Position(kind, x) = r[k].position
  <2>1. r[k].pieces \in Seq(PieceSet)
    BY <1>2 DEF GroupSet
  <2>2. x \in PieceSet
    BY <2>1, LenProperties, ElementOfSeq DEF ToSet
  <2>3. Count(r[k].pieces, x) > 0
    BY <2>1, CountTyped
  <2>4. Count(r[k].pieces, x) # 0
    BY <2>3
  <2> QED
    BY <1>1, <2>2, <2>4
<1>4. /\ p \in PieceSet /\ Position(kind, p) = r[i].position
      /\ q \in PieceSet /\ Position(kind, q) = r[j].position
  BY <1>2, <1>3
<1>5. Less(kind, r[i], r[j])
  BY <1>2 DEF InOrder
<1>6. p.x \in Int /\ p.y \in Int /\ q.x \in Int /\ q.y \in Int
  BY <1>4 DEF PieceSet
<1>7. CASE kind = "Rows"
  <2>1. r[i].position > r[j].position
    BY <1>5, <1>7 DEF Less
  <2>2. Trunc(p.y) = r[i].position /\ Trunc(q.y) = r[j].position
    BY <1>4, <1>7 DEF Position
  <2>3. Trunc(q.y) < Trunc(p.y)
    BY <1>6, <2>1, <2>2, TruncOrder
  <2>4. q.y < p.y
    BY <1>6, <2>3, TruncOrder
  <2> QED
    BY <1>6, <1>7, <2>4
<1>8. CASE kind = "Columns"
  <2>1. r[i].position < r[j].position
    BY <1>5, <1>8 DEF Less
  <2>2. Trunc(p.x) = r[i].position /\ Trunc(q.x) = r[j].position
    BY <1>4, <1>8 DEF Position
  <2> QED
    BY <1>6, <1>8, <2>1, <2>2, TruncOrder
<1> QED
  BY <1>7, <1>8 DEF GroupOrders

LEMMA RowsIs ==
    ASSUME NEW out \in Seq(PieceSet)
    PROVE  IsGrouping("Rows", RowsOf(out), out) /\ InOrder("Rows", RowsOf(out))
<1>1. "Rows" \in GroupOrders
  BY DEF GroupOrders
<1>2. IsGrouping("Rows", PiecesSorted("TextHorizontal", Found("Rows", out)), out)
  BY <1>1, FoundIs, PiecesSortedIs
<1> QED
  BY <1>1, <1>2, SortedGroupsIs DEF RowsOf

LEMMA ColumnsIs ==
    ASSUME NEW out \in Seq(PieceSet)
    PROVE  IsGrouping("Columns", ColumnsOf(out), out) /\ InOrder("Columns", ColumnsOf(out))
<1>1. "Columns" \in GroupOrders
  BY DEF GroupOrders
<1>2. IsGrouping("Columns", PiecesSorted("TextVertical", Found("Columns", out)), out)
  BY <1>1, FoundIs, PiecesSortedIs
<1> QED
  BY <1>1, <1>2, SortedGroupsIs DEF ColumnsOf

-----------------------------------------------------------------------------
(* Sentences. *)

GlyphSet ==
    [font : Fonts \cup {NoFont}, enc : Encoders, s : Strings, size : Int, at : Place,
     restored : BOOLEAN]

SentenceSet ==
    [font : Fonts \cup {NoFont}, size : Int, y : Int, s : Seq(Strings)]

\* The strings of sentences or of glyphs.
Strs(q) == [i \in DOMAIN q |-> q[i].s]

LEMMA StrsTyped ==
    ASSUME NEW G, NEW C, \A x \in G : x.s \in C, NEW q \in Seq(G)
    PROVE  /\ Strs(q) \in Seq(C) /\ Len(Strs(q)) = Len(q)
           /\ \A i \in 1..Len(q) : Strs(q)[i] = q[i].s
<1> DEFINE r == Strs(q)
<1>1. Len(q) \in Nat /\ DOMAIN q = 1..Len(q) /\ \A i \in 1..Len(q) : q[i] \in G
  BY LenProperties, ElementOfSeq
<1>2. r \in [1..Len(q) -> C] /\ \A i \in 1..Len(q) : r[i] = q[i].s
  BY <1>1 DEF Strs
<1> HIDE DEF r
<1>3. r \in Seq(C)
  BY <1>1, <1>2, SeqDef
<1>4. Len(r) = Len(q)
  <2>1. DOMAIN r = 1..Len(q) /\ DOMAIN r = 1..Len(r) /\ Len(r) \in Nat
    BY <1>2, <1>3, LenProperties
  <2> QED
    BY <1>1, <2>1
<1> QED
  BY <1>2, <1>3, <1>4 DEF r

LEMMA StrsAppend ==
    ASSUME NEW G, NEW C, \A x \in G : x.s \in C, NEW q \in Seq(G), NEW g \in G
    PROVE  Strs(Append(q, g)) = Append(Strs(q), g.s)
<1> DEFINE more == Append(q, g)
           a == Strs(more)
           b == Append(Strs(q), g.s)
<1>1. /\ more \in Seq(G) /\ Len(more) = Len(q) + 1 /\ more[Len(q) + 1] = g
      /\ \A i \in 1..Len(q) : more[i] = q[i]
  BY AppendProperties
<1>2. Len(q) \in Nat /\ g.s \in C
  BY LenProperties
<1>3. /\ Strs(q) \in Seq(C) /\ Len(Strs(q)) = Len(q)
      /\ \A i \in 1..Len(q) : Strs(q)[i] = q[i].s
  BY StrsTyped
<1> HIDE DEF more
<1>4. /\ a \in Seq(C) /\ Len(a) = Len(more)
      /\ \A i \in 1..Len(more) : a[i] = more[i].s
  BY <1>1, StrsTyped
<1>5. /\ b \in Seq(C) /\ Len(b) = Len(q) + 1 /\ b[Len(q) + 1] = g.s
      /\ \A i \in 1..Len(q) : b[i] = q[i].s
  BY <1>2, <1>3, AppendProperties
<1> HIDE DEF a, b
<1>6. \A i \in 1..Len(q) + 1 : i \in 1..Len(q) \/ i = Len(q) + 1
  BY <1>2
<1>7. \A i \in 1..Len(a) : a[i] = b[i]
  BY <1>1, <1>4, <1>5, <1>6
<1>8. a = b
  BY <1>1, <1>4, <1>5, <1>7, SeqEqual
<1> QED
  BY <1>8 DEF a, b, more

\* A glyph adds its string to the last sentence or as a new one.
LEMMA JoinSentenceIs ==
    ASSUME NEW found \in Seq(SentenceSet), NEW t \in GlyphSet
    PROVE  /\ JoinSentence(found, t) \in Seq(SentenceSet)
           /\ FlattenSeq(Strs(JoinSentence(found, t))) = Append(FlattenSeq(Strs(found)), t.s)
<1> DEFINE N == Len(found)
           C == Seq(Strings)
           r == JoinSentence(found, t)
<1>1. /\ N \in Nat /\ \A i \in 1..N : found[i] \in SentenceSet
      /\ \A x \in SentenceSet : x.s \in C
  BY LenProperties, ElementOfSeq DEF SentenceSet
<1>2. /\ t.s \in Strings /\ t.font \in Fonts \cup {NoFont} /\ t.size \in Int
      /\ t.at[2] \in Int
  BY DEF GlyphSet, Place
<1> DEFINE u == Strs(found)
<1> HIDE DEF C
<1>3. u \in Seq(C) /\ Len(u) = N /\ \A i \in 1..N : u[i] = found[i].s
  BY <1>1, StrsTyped
<1>4. CASE found # << >> /\ SameSentence(Last(found), t)
  <2> DEFINE e == [found[N] EXCEPT !.s = Append(@, t.s)]
  <2>1. N \in 1..N
    BY <1>1, <1>4, EmptySeq
  <2>2. r = [found EXCEPT ![N] = e]
    BY <1>4 DEF JoinSentence
  <2>3. found[N].s \in Seq(Strings) /\ found[N] \in SentenceSet
    BY <1>1, <2>1 DEF C
  <2>4. Append(found[N].s, t.s) \in Seq(Strings)
    BY <1>2, <2>3, AppendProperties
  <2>5. e = [font |-> found[N].font, size |-> found[N].size, y |-> found[N].y,
             s |-> Append(found[N].s, t.s)]
    <3>1. \A g \in SentenceSet : \A x :
             [g EXCEPT !.s = x] = [font |-> g.font, size |-> g.size, y |-> g.y, s |-> x]
      <4> TAKE g \in SentenceSet
      <4>1. PICK a, b, c, d : g = [font |-> a, size |-> b, y |-> c, s |-> d]
        BY DEF SentenceSet
      <4> QED
        BY <4>1
    <3> QED
      BY <2>3, <3>1, Zenon
  <2>6. e \in SentenceSet /\ e.s = Append(u[N], t.s)
    BY <1>3, <2>1, <2>3, <2>4, <2>5 DEF SentenceSet
  <2> HIDE DEF e, r
  <2>7. /\ r \in Seq(SentenceSet) /\ Len(r) = N
        /\ \A i \in 1..N : r[i] = IF i = N THEN e ELSE found[i]
    BY <2>1, <2>2, <2>6, ExceptSeq
  <2>8. /\ Strs(r) \in Seq(C) /\ Len(Strs(r)) = N
        /\ \A i \in 1..N : Strs(r)[i] = r[i].s
    BY <1>1, <2>7, StrsTyped
  <2> DEFINE v == Append(u[N], t.s)
             w == [u EXCEPT ![N] = v]
  <2>9. v \in C
    BY <1>3, <2>1, <2>3, <2>4 DEF C
  <2> HIDE DEF u, v, N
  <2>10. /\ w \in Seq(C) /\ Len(w) = Len(u)
         /\ \A i \in 1..Len(u) : w[i] = IF i = N THEN v ELSE u[i]
    BY <1>3, <2>1, <2>9, ExceptSeq
  <2> HIDE DEF w
  <2>11. \A i \in 1..N : Strs(r)[i] = w[i]
    BY <1>3, <2>6, <2>7, <2>8, <2>10 DEF v
  <2>12. Strs(r) = w
    BY <1>3, <2>8, <2>10, <2>11, SeqEqual
  <2>13. u # << >>
    BY <1>3, <2>1, EmptySeq
  <2>14. FlattenSeq([u EXCEPT ![Len(u)] = Append(@, t.s)]) = Append(FlattenSeq(u), t.s)
    BY <1>2, <1>3, <2>13, FlattenLonger DEF C
  <2>15. w = [u EXCEPT ![Len(u)] = Append(@, t.s)]
    BY <1>3 DEF w, v
  <2> QED
    BY <2>7, <2>12, <2>14, <2>15 DEF r, u
<1>5. CASE ~(found # << >> /\ SameSentence(Last(found), t))
  <2> DEFINE e == Sentence(t)
             q == <<t.s>>
  <2>1. r = Append(found, e)
    BY <1>5 DEF JoinSentence
  <2>2. q \in Seq(Strings)
    BY <1>2
  <2>3. e \in SentenceSet /\ e.s = q
    BY <1>2, <2>2 DEF Sentence, SentenceSet
  <2> HIDE DEF e
  <2>4. Append(found, e) \in Seq(SentenceSet)
    BY <2>3, AppendProperties
  <2>5. Strs(Append(found, e)) = Append(u, q)
    BY <1>1, <2>3, StrsAppend
  <2> HIDE DEF u, q
  <2>6. FlattenSeq(u) \in Seq(Strings) /\ FlattenSeq(Append(u, q)) = FlattenSeq(u) \o q
    BY <1>3, <2>2, FlattenAppend DEF C
  <2>7. FlattenSeq(u) \o q = Append(FlattenSeq(u), t.s)
    BY <1>2, <2>6, AppendIsConcat DEF q
  <2> QED
    BY <2>1, <2>4, <2>5, <2>6, <2>7 DEF u
<1> QED
  BY <1>4, <1>5

\* f[n] is the sentences of the first n glyphs.
Speaks(f, text) ==
    /\ \A n \in 0..Len(text) : f[n] \in Seq(SentenceSet)
    /\ f[0] = << >>
    /\ \A n \in 1..Len(text) : f[n] = JoinSentence(f[n - 1], text[n])
    /\ SentencesOf(text) = f[Len(text)]

\* SentencesOf is what its recursion says.
LEMMA SentencesBuilt ==
    ASSUME NEW text \in Seq(GlyphSet)
    PROVE  \E f : Speaks(f, text)
<1> DEFINE N == Len(text)
           C == Seq(SentenceSet)
           Step(n, q) == JoinSentence(q, text[n])
           Rec(f) == f = [n \in 0..N |-> IF n = 0 THEN << >> ELSE Step(n, f[n - 1])]
           step == [n \in 1..N |-> [q \in C |-> Step(n, q)]]
           base == << >>
<1>1. N \in Nat /\ base \in C /\ \A n \in 1..N : text[n] \in GlyphSet
  BY EmptySeq, LenProperties, ElementOfSeq
<1>2. \A n \in 1..N, q \in C : Step(n, q) \in C
  BY <1>1, JoinSentenceIs
<1> HIDE DEF C, Step
<1>3. step \in [1..N -> [C -> C]]
  BY <1>2
<1>4. \A n \in 1..N, q \in C : step[n][q] = Step(n, q)
  OBVIOUS
<1>5. SentencesOf(text) = (CHOOSE g : Rec(g))[N]
  BY DEF SentencesOf, N, Step
<1> HIDE DEF N, step, base
<1>6. PICK f : TakesSteps(f, N, C, base, step)
  BY <1>1, <1>3, RecursionExists
<1>7. \A n \in 0..N : n # 0 => n \in 1..N /\ n - 1 \in 0..N
  BY <1>1
<1>8. \A n \in 0..N : f[n] = IF n = 0 THEN << >> ELSE Step(n, f[n - 1])
  BY <1>4, <1>6, <1>7 DEF base, TakesSteps
<1>9. Rec(f)
  BY <1>6, <1>8 DEF TakesSteps
<1> DEFINE g == CHOOSE g : Rec(g)
<1>10. Rec(g)
  BY <1>9
<1> HIDE DEF g
<1>11. \A n \in 0..N : g[n] = IF n = 0 THEN << >> ELSE Step(n, g[n - 1])
  BY <1>10
<1>12. SentencesOf(text) = g[N]
  BY <1>5 DEF g
<1> HIDE DEF Rec
<1>13. \A n \in 1..N : n \in 0..N /\ n # 0
  BY <1>1
<1>14. \A n \in 1..N : g[n - 1] \in C => g[n] \in C
  BY <1>2, <1>11, <1>13
<1>15. 0 \in 0..N /\ g[0] = base
  BY <1>1, <1>11 DEF base
<1>16. \A n \in 0..N : g[n] \in C
  BY <1>1, <1>14, <1>15, RecursionTyped
<1>17. \A n \in 1..N : g[n] = JoinSentence(g[n - 1], text[n])
  BY <1>11, <1>13 DEF Step
<1> QED
  BY <1>12, <1>15, <1>16, <1>17 DEF N, base, C, Speaks

\* The sentences are the glyphs of the page, joined.
LEMMA SentencesKeep ==
    ASSUME NEW text \in Seq(GlyphSet)
    PROVE  FlattenSeq(Strs(SentencesOf(text))) = Strs(text)
<1> DEFINE N == Len(text)
<1>1. PICK f : Speaks(f, text)
  BY SentencesBuilt
<1>2. /\ \A n \in 0..N : f[n] \in Seq(SentenceSet)
      /\ f[0] = << >>
      /\ \A n \in 1..N : f[n] = JoinSentence(f[n - 1], text[n])
      /\ SentencesOf(text) = f[N]
  BY <1>1 DEF Speaks
<1>3. N \in Nat
  BY LenProperties
<1>4. \A g \in GlyphSet : g.s \in Strings
  BY DEF GlyphSet
<1> DEFINE T == {n \in Nat : n <= N => FlattenSeq(Strs(f[n])) = Strs(UpTo(text, n))}
<1>5. 0 \in T
  <2>1. Strs(<< >>) = << >>
    BY DEF Strs
  <2>2. UpTo(text, 0) = << >>
    BY UpToEnds
  <2>3. FlattenSeq(Strs(f[0])) = Strs(UpTo(text, 0))
    BY <1>2, <2>1, <2>2, FlattenEmpty
  <2> QED
    BY <2>3
<1>6. ASSUME NEW n \in Nat, n \in T PROVE n + 1 \in T
  <2> SUFFICES ASSUME n + 1 <= N PROVE FlattenSeq(Strs(f[n + 1])) = Strs(UpTo(text, n + 1))
    OBVIOUS
  <2>1. n <= N /\ n + 1 \in 1..N /\ (n + 1) - 1 = n /\ n \in 0..N
    BY <1>3
  <2>2. /\ UpTo(text, n) \in Seq(GlyphSet) /\ text[n + 1] \in GlyphSet
        /\ UpTo(text, n + 1) = Append(UpTo(text, n), text[n + 1])
    BY <2>1, UpToNext
  <2>3. FlattenSeq(Strs(f[n])) = Strs(UpTo(text, n))
    BY <1>6, <2>1
  <2>4. f[n + 1] = JoinSentence(f[n], text[n + 1]) /\ f[n] \in Seq(SentenceSet)
    BY <1>2, <2>1
  <2>5. FlattenSeq(Strs(f[n + 1])) = Append(FlattenSeq(Strs(f[n])), text[n + 1].s)
    BY <2>2, <2>4, JoinSentenceIs
  <2>6. Strs(UpTo(text, n + 1)) = Append(Strs(UpTo(text, n)), text[n + 1].s)
    BY <1>4, <2>2, StrsAppend
  <2> QED
    BY <2>3, <2>5, <2>6
<1> HIDE DEF T
<1>7. Nat \subseteq T
  BY <1>5, <1>6, SetInduction
<1>8. FlattenSeq(Strs(f[N])) = Strs(UpTo(text, N))
  BY <1>3, <1>7 DEF T
<1> QED
  BY <1>2, <1>8, UpToEnds

-----------------------------------------------------------------------------
(* What the callers get. *)

\* What RowsOf, ColumnsOf and SentencesOf return of one page.
ResultsOf(w, c, res) ==
    \E out \in {w.out, Reverse(w.out)} :
       res = [rows |-> RowsOf(out), columns |-> ColumnsOf(out),
              sentences |-> SentencesOf(c.text)]

\* The results keep the text.
Keeps(w, c, res) ==
    /\ \A p \in ToSet(w.out) :
          /\ Count(Flat(res.rows), p) = Count(w.out, p)
          /\ Count(Flat(res.columns), p) = Count(w.out, p)
    /\ \A i, j \in DOMAIN res.rows : i < j =>
          \A p \in ToSet(res.rows[i].pieces) :
             \A q \in ToSet(res.rows[j].pieces) : p.y > q.y
    /\ \A i, j \in DOMAIN res.columns : i < j =>
          \A p \in ToSet(res.columns[i].pieces) :
             \A q \in ToSet(res.columns[j].pieces) : p.x < q.x
    /\ FlattenSeq(Strs(res.sentences)) = Strs(c.text)

LEMMA ResultsKeep ==
    ASSUME NEW w \in RowsState, NEW c \in ContentState, NEW res, ResultsOf(w, c, res)
    PROVE  Keeps(w, c, res)
<1>1. w.out \in Seq(PieceSet)
  BY DEF RowsState, PieceSet
<1>2. c.text \in Seq(GlyphSet)
  BY DEF ContentState, GlyphSet
<1>3. PICK out \in {w.out, Reverse(w.out)} :
         res = [rows |-> RowsOf(out), columns |-> ColumnsOf(out),
                sentences |-> SentencesOf(c.text)]
  BY DEF ResultsOf
<1>4. out \in Seq(PieceSet) /\ \A p : Count(out, p) = Count(w.out, p)
  BY <1>1, CountReverse
<1>5. /\ IsGrouping("Rows", res.rows, out) /\ InOrder("Rows", res.rows)
      /\ IsGrouping("Columns", res.columns, out) /\ InOrder("Columns", res.columns)
      /\ res.sentences = SentencesOf(c.text)
  BY <1>3, <1>4, RowsIs, ColumnsIs
<1>6. "Rows" \in GroupOrders /\ "Columns" \in GroupOrders
  BY DEF GroupOrders
<1>7. ASSUME NEW p \in ToSet(w.out)
      PROVE  /\ Count(Flat(res.rows), p) = Count(w.out, p)
             /\ Count(Flat(res.columns), p) = Count(w.out, p)
  <2>1. p \in PieceSet
    BY <1>1, LenProperties, ElementOfSeq DEF ToSet
  <2>2. p \in ToSet(out)
    BY <1>1, <1>4, CountTyped
  <2> QED
    BY <1>4, <1>5, <1>6, <2>1, <2>2, GroupsKeep
<1>8. \A i, j \in DOMAIN res.rows : i < j =>
         \A p \in ToSet(res.rows[i].pieces) :
            \A q \in ToSet(res.rows[j].pieces) : p.y > q.y
  BY <1>5, <1>6, GroupsOrdered
<1>9. \A i, j \in DOMAIN res.columns : i < j =>
         \A p \in ToSet(res.columns[i].pieces) :
            \A q \in ToSet(res.columns[j].pieces) : p.x < q.x
  BY <1>5, <1>6, GroupsOrdered
<1>10. FlattenSeq(Strs(res.sentences)) = Strs(c.text)
  BY <1>2, <1>5, SentencesKeep
<1> QED
  BY <1>7, <1>8, <1>9, <1>10 DEF Keeps

\* A call that failed has nothing to return, and a page that nothing is returned
\* of keeps no text.
LEMMA NothingKeeps ==
    ASSUME NEW w, NEW c, w.out = << >>, c.text = << >>
    PROVE  Keeps(w, c, NoResult)
<1>1. /\ NoResult.rows = << >> /\ NoResult.columns = << >>
      /\ NoResult.sentences = << >>
  BY DEF NoResult
<1>2. ToSet(<< >>) = {} /\ DOMAIN << >> = {} /\ Strs(<< >>) = << >>
  BY DEF ToSet, Strs
<1> QED
  BY <1>1, <1>2, FlattenEmpty DEF Keeps

LEMMA KeepsText ==
    /\ ResultsKeepText <=> (Running \/ Keeps(rows, content, result))
    /\ ResultsKeepText' <=> (Running' \/ Keeps(rows', content', result'))
BY DEF ResultsKeepText, Keeps, Strs

\* When the last call fails there is nothing to return.
LEMMA NothingLeft ==
    ASSUME NEW p, NEW w, NEW c, CallsOK(p, w, c), NoneDone(p, w, c),
           "running" \notin {p.status, w.status, c.status}
    PROVE  Keeps(w, c, NoResult)
<1>1. ~Goes(w) /\ ~Goes(c)
  BY NotDone DEF CallsOK, NoneDone, RowsState, ContentState
<1>2. w.out = << >> /\ c.text = << >>
  BY <1>1 DEF CallsOK, HoldNothing
<1> QED
  BY <1>2, NothingKeeps

\* The end of the program leaves the texts alone and returns their results.
LEMMA FinishKeeps ==
    ASSUME CallsOK(plain, rows, content), Finish
    PROVE  Keeps(rows', content', result')
<1>1. rows' = Ended(rows) /\ content' = Ended(content)
  BY DEF Finish
<1>2. rows \in RowsState /\ content \in ContentState
  BY DEF CallsOK
<1>3. rows' \in RowsState /\ rows'.out = rows.out
  BY <1>1, <1>2 DEF Ended, RowsState, Statuses
<1>4. content' \in ContentState /\ content'.text = content.text
  BY <1>1, <1>2 DEF Ended, ContentState, Statuses
<1>5. ResultsOf(rows', content', result')
  BY <1>3, <1>4 DEF Finish, ResultsOf
<1> QED
  BY <1>3, <1>4, <1>5, ResultsKeep

LEMMA StepKeeps ==
    ASSUME Inv, Inv', ResultsKeepText, [Next]_vars
    PROVE  ResultsKeepText'
<1>1. /\ CallsOK(plain, rows, content) /\ CallsOK(plain', rows', content')
      /\ Running => result = NoResult
      /\ Running => NoneDone(plain, rows, content)
  BY CallsInv DEF Inv, CallsPart, EndTogether, NoneDone
<1>2. Running \/ Keeps(rows, content, result)
  BY KeepsText
<1>3. SUFFICES Running' \/ Keeps(rows', content', result')
  BY KeepsText
<1>4. ASSUME Running, result' = result, NoneDone(plain', rows', content')
      PROVE  Running' \/ Keeps(rows', content', result')
  <2> SUFFICES ASSUME ~Running' PROVE Keeps(rows', content', result')
    OBVIOUS
  <2>1. "running" \notin {plain'.status, rows'.status, content'.status}
    BY DEF Running
  <2>2. Keeps(rows', content', NoResult)
    BY <1>1, <1>4, <2>1, NothingLeft
  <2> QED
    BY <1>1, <1>4, <2>2
<1>5. CASE plain' = plain /\ rows' = rows /\ content' = content /\ result' = result
  <2>1. Running' <=> Running
    BY <1>5 DEF Running
  <2> QED
    BY <1>2, <1>5, <2>1
<1>6. CASE Malformed
  <2>1. /\ Running /\ PanicAll /\ result' = result
    BY <1>6 DEF Malformed
  <2>2. NoneDone(plain', rows', content')
    BY <1>1, <2>1, PanickedCalls DEF PanicAll
  <2> QED
    BY <1>4, <2>1, <2>2
<1>7. CASE StopAlone
  <2>1. Running /\ result' = result
    BY <1>7 DEF StopAlone, Running
  <2>2. NoneDone(plain', rows', content')
    BY <1>1, <1>7, <2>1, StoppedCalls DEF StopAlone
  <2> QED
    BY <1>4, <2>1, <2>2
<1>8. CASE Keyword
  <2>1. Running /\ result' = result
    BY <1>8 DEF Keyword
  <2>2. PICK kw \in Keywords : BuiltinKeyword(kw) \/ DefinedKeyword(kw) \/ Operator(kw)
    BY <1>8 DEF Keyword
  <2>3. IsMachine(Value, ps)
    BY DEF Inv
  <2>4. KeywordKeeps
    BY <1>1, <2>1, <2>2, <2>3, KeywordStep
  <2> QED
    BY <1>4, <2>1, <2>4 DEF KeywordKeeps
<1>9. CASE Finish
  BY <1>1, <1>9, FinishKeeps
<1>10. NextStream \/ Operands \/ UNCHANGED vars =>
          plain' = plain /\ rows' = rows /\ content' = content /\ result' = result
  BY DEF NextStream, Operands, vars
<1> QED
  BY <1>5, <1>6, <1>7, <1>8, <1>9, <1>10 DEF Next

\* GetTextByRow, GetTextByColumn and GetStyledTexts lose no text: every piece of
\* walkTextBlocks is in the rows, and in the columns, as often as the page shows
\* it, whichever way sort.Sort leaves equal pieces; rows come from the top down
\* and columns from the left; and the sentences are the glyphs of Content joined.
THEOREM ResultsKeepTextCorrect == Spec => []ResultsKeepText
<1>1. Init => ResultsKeepText
  BY DEF Init, PlainStart, ResultsKeepText, Running
<1>2. Inv /\ Inv' /\ ResultsKeepText /\ [Next]_vars => ResultsKeepText'
  BY StepKeeps
<1> QED
  BY <1>1, <1>2, Invariant, PTL DEF Spec

-----------------------------------------------------------------------------
(* The reading of a character map, and the encoders (Encodings).  The machine *)
(* is the same as above, with other values.                                   *)

CONSTANTS ByteSize, MaxCode, Encodings, KnownNames, OperandRuns, Texts, MaxOdd

VARIABLES font, enc, cm, section, odd, listed

Map == INSTANCE Encodings

LEMMA MachineSame ==
    ASSUME NEW V, NEW m
    PROVE  Map!IsMachine(V, m) <=> IsMachine(V, m)
BY DEF Map!IsMachine, IsMachine, Map!Known, Known

LEMMA PartsSame ==
    ASSUME NEW m
    PROVE  /\ Map!Start = Start /\ Map!Top(m) = Top(m) /\ Map!Popped(m) = Popped(m)
           /\ Map!PushDict(m) = PushDict(m)
           /\ \A v : Map!Push(m, v) = Push(m, v)
           /\ \A kw : Map!Defining(m, kw) = Defining(m, kw)
           /\ \A kw : Map!Meaning(m, kw) = Meaning(m, kw)
           /\ \A kw : Map!BuiltinPanics(m, kw) <=> BuiltinPanics(m, kw)
<1>1. Map!Start = Start /\ \A v : Map!Push(m, v) = Push(m, v)
  BY DEF Map!Start, Start, Map!Push, Push
<1>2. Map!Top(m) = Top(m) /\ Map!Popped(m) = Popped(m)
  BY DEF Map!Top, Top, Map!Popped, Popped, Map!Null, Null, Map!Last, Last, Map!Front, Front
<1>3. Map!PushDict(m) = PushDict(m)
  BY DEF Map!PushDict, PushDict, Map!Dict, Dict
<1>4. \A kw : Map!Defining(m, kw) = Defining(m, kw)
  BY DEF Map!Defining, Defining
<1>5. \A kw : Map!Meaning(m, kw) = Meaning(m, kw)
  BY DEF Map!Meaning, Meaning, Map!Max, Max, Map!Defining, Defining
<1>6. \A kw : Map!BuiltinPanics(m, kw) <=> BuiltinPanics(m, kw)
  BY <1>2 DEF Map!BuiltinPanics, BuiltinPanics
<1> QED
  BY <1>1, <1>2, <1>3, <1>4, <1>5, <1>6

LEMMA BuiltinSame ==
    ASSUME NEW m, NEW kw \in Builtins
    PROVE  Map!AfterBuiltin(m, kw) = AfterBuiltin(m, kw)
<1>1. Map!Define(m) = Define(m)
  BY PartsSame DEF Map!Define, Define, Map!WithMeaning, WithMeaning, Map!Last, Last
<1> QED
  BY <1>1, PartsSame
     DEF Builtins, Map!AfterBuiltin, AfterBuiltin, Map!Dict, Dict, Map!Last, Last,
         Map!Front, Front

-----------------------------------------------------------------------------
(* Numbers and operands of a section. *)

\* The least element of a set of numbers.
LEMMA MapMinIs ==
    ASSUME NEW T \in SUBSET Nat, T # {}
    PROVE  Map!Min(T) \in T /\ \A y \in T : Map!Min(T) <= y
BY LeastOfSet DEF Map!Min

\* The bytes of an operand.
LEMMA BytesTyped ==
    ASSUME NEW v \in Map!MapValue
    PROVE  Map!Bytes(v) \in Seq(Map!Byte)
<1>1. CASE v.kind = "string"
  <2>1. v \in [kind : {"string"}, s : Seq(Map!Byte)]
    BY <1>1 DEF Map!MapValue, Map!Written, Map!Element
  <2> QED
    BY <1>1, <2>1 DEF Map!Bytes
<1>2. CASE v.kind # "string"
  BY <1>2, EmptySeq DEF Map!Bytes
<1> QED
  BY <1>1, <1>2

LEMMA Int64Typed ==
    ASSUME NEW v \in Map!MapValue
    PROVE  Map!Int64(v) \in Int
<1>1. CASE v.kind = "num"
  <2>1. v \in [kind : {"num"}, n : Int]
    BY <1>1 DEF Map!MapValue, Map!Written, Map!Element
  <2> QED
    BY <1>1, <2>1 DEF Map!Int64
<1>2. CASE v.kind # "num"
  BY <1>2 DEF Map!Int64
<1> QED
  BY <1>1, <1>2

\* An empty stack gives null, and newDict a dictionary.
LEMMA NullValue == Null \in Map!MapValue
BY DEF Null, Map!MapValue, Map!Written, Map!Element

LEMMA MapHasDicts == HasDicts(Map!MapValue)
BY DEF HasDicts, Dict, Map!MapValue

\* What Pop returns is a value, also when the stack is empty.
LEMMA MapOperandTyped ==
    ASSUME NEW m, IsMachine(Map!MapValue, m), NEW i \in Nat \ {0}
    PROVE  /\ Map!Operand(m, i) \in Map!MapValue
           /\ i <= Len(m.stk) =>
                 /\ Len(m.stk) + 1 - i \in DOMAIN m.stk
                 /\ Map!Operand(m, i) = m.stk[Len(m.stk) + 1 - i]
<1>1. m.stk \in Seq(Map!MapValue)
  BY DEF IsMachine
<1>2. Len(m.stk) \in Nat /\ DOMAIN m.stk = 1..Len(m.stk)
  BY <1>1, LenProperties
<1>3. CASE i > Len(m.stk)
  <2>1. Map!Operand(m, i) = Null
    BY <1>3 DEF Map!Operand, Map!Null, Null
  <2> QED
    BY <1>2, <1>3, <2>1, NullValue
<1>4. CASE ~(i > Len(m.stk))
  <2>1. Map!Operand(m, i) = m.stk[Len(m.stk) + 1 - i] /\ Len(m.stk) + 1 - i \in 1..Len(m.stk)
    BY <1>2, <1>4 DEF Map!Operand
  <2> QED
    BY <1>1, <1>2, <2>1, ElementOfSeq
<1> QED
  BY <1>3, <1>4

LEMMA MapTopTyped ==
    ASSUME NEW m, IsMachine(Map!MapValue, m)
    PROVE  Top(m) \in Map!MapValue
<1>1. CASE m.stk = << >>
  BY <1>1, NullValue DEF Top
<1>2. CASE m.stk # << >>
  BY <1>2, PoppedMachine DEF Known
<1> QED
  BY <1>1, <1>2

\* Pop, n times.
LEMMA DropMachine ==
    ASSUME NEW V, NEW m, IsMachine(V, m), NEW n \in Nat
    PROVE  IsMachine(V, Map!Drop(m, n)) /\ Map!Drop(m, n).heap = m.heap
<1> DEFINE last == IF n > Len(m.stk) THEN 0 ELSE Len(m.stk) - n
           stk == SubSeq(m.stk, 1, last)
<1>1. m.stk \in Seq(V) /\ m.dicts \in Seq(DOMAIN m.heap)
  BY DEF IsMachine
<1>2. Len(m.stk) \in Nat /\ DOMAIN m.stk = 1..Len(m.stk)
  BY <1>1, LenProperties
<1>3. last \in 0..Len(m.stk)
  BY <1>2
<1>4. Map!Drop(m, n) = [stk |-> stk, dicts |-> m.dicts, heap |-> m.heap]
  BY MachineExcept DEF Map!Drop
<1> HIDE DEF last
<1>5. /\ stk \in Seq(V) /\ DOMAIN stk = 1..last
      /\ \A i \in 1..last : stk[i] = m.stk[i]
  BY <1>1, <1>2, <1>3, SubSeqProperties
<1> HIDE DEF stk
<1>6. \A i \in DOMAIN stk : Known(V, m, stk[i])
  BY <1>2, <1>3, <1>5 DEF IsMachine
<1>7. IsMachine(V, Map!Drop(m, n))
  BY <1>1, <1>4, <1>5, <1>6, StacksMachine
<1> QED
  BY <1>4, <1>7

-----------------------------------------------------------------------------
(* The operators of readCmap. *)

\* The entries of a section, one behind the other.
AreEntries(e, n, S) == e = [i \in 1..n |-> e[i]] /\ \A i \in 1..n : e[i] \in S

LEMMA EntriesTyped ==
    ASSUME NEW S, NEW s \in Seq(S), NEW n \in Nat, NEW e, AreEntries(e, n, S)
    PROVE  /\ s \o e \in Seq(S)
           /\ DOMAIN (s \o e) = 1..Len(s) + n /\ Len(s) \in Nat
           /\ \A i \in 1..Len(s) : (s \o e)[i] = s[i]
           /\ \A i \in 1..n : (s \o e)[Len(s) + i] = e[i]
<1>1. e \in [1..n -> S]
  BY Zenon DEF AreEntries
<1>2. e \in Seq(S) /\ Len(e) = n
  BY <1>1, SeqDef, LenProperties
<1>3. Len(s) \in Nat /\ DOMAIN s = 1..Len(s)
  BY LenProperties
<1>4. /\ s \o e \in Seq(S) /\ Len(s \o e) = Len(s) + n
      /\ \A i \in 1..Len(s) + n : (s \o e)[i] = IF i <= Len(s) THEN s[i] ELSE e[i - Len(s)]
  BY <1>2, ConcatProperties
<1> DEFINE r == s \o e
           N == Len(s)
<1>5. /\ r \in Seq(S) /\ Len(r) = N + n /\ DOMAIN r = 1..N + n /\ N \in Nat
      /\ \A i \in 1..N + n : r[i] = IF i <= N THEN s[i] ELSE e[i - N]
  BY <1>3, <1>4, LenProperties
<1> HIDE DEF r, N
<1>6. \A i \in 1..N : r[i] = s[i]
  <2> TAKE i \in 1..N
  <2>1. i \in 1..N + n /\ i <= N
    BY <1>5
  <2> QED
    BY <1>5, <2>1, Zenon
<1>7. \A i \in 1..n : r[N + i] = e[i]
  <2> TAKE i \in 1..n
  <2> DEFINE j == N + i
  <2>1. j \in 1..N + n /\ ~(j <= N) /\ j - N = i
    BY <1>5
  <2> HIDE DEF j
  <2>2. r[j] = IF j <= N THEN s[j] ELSE e[j - N]
    BY <1>5, <2>1
  <2>3. r[j] = e[i]
    BY <2>1, <2>2, Zenon
  <2> QED
    BY <2>3 DEF j
<1> QED
  BY <1>5, <1>6, <1>7 DEF r, N

SpaceSet == [lo : Seq(Map!Byte), hi : Seq(Map!Byte)]

CharSet == [orig : Seq(Map!Byte), repl : Seq(Map!Byte)]

RangeSet == [lo : Seq(Map!Byte), hi : Seq(Map!Byte), dst : Map!MapValue]

LEMMA EntryTyped ==
    ASSUME NEW m, IsMachine(Map!MapValue, m), NEW i \in Nat \ {0}
    PROVE  /\ Map!SpaceEntry(m, i) \in SpaceSet
           /\ Map!CharEntry(m, i) \in CharSet
           /\ Map!RangeEntry(m, i) \in RangeSet
<1>1. \A k \in {2 * i, 2 * i - 1, 3 * i, 3 * i - 1, 3 * i - 2} :
          Map!Operand(m, k) \in Map!MapValue /\ Map!Bytes(Map!Operand(m, k)) \in Seq(Map!Byte)
  <2> TAKE k \in {2 * i, 2 * i - 1, 3 * i, 3 * i - 1, 3 * i - 2}
  <2>1. k \in Nat \ {0}
    OBVIOUS
  <2> QED
    BY <2>1, MapOperandTyped, BytesTyped
<1> QED
  BY <1>1 DEF Map!SpaceEntry, Map!CharEntry, Map!RangeEntry, SpaceSet, CharSet, RangeSet

\* A reading field by field.
LEMMA ReadingIs ==
    ASSUME NEW r
    PROVE  Map!IsReading(r) <=>
               /\ r = [status |-> r.status, n |-> r.n, space |-> r.space,
                       bfchar |-> r.bfchar, bfrange |-> r.bfrange]
               /\ r.status \in {"new", "reading", "bad", "panicked"}
               /\ r.n \in Int
               /\ r.space \in Seq(SpaceSet)
               /\ \A i \in DOMAIN r.space : Map!IsRange(r.space[i])
               /\ r.bfchar \in Seq(CharSet) /\ r.bfrange \in Seq(RangeSet)
BY DEF Map!IsReading, SpaceSet, CharSet, RangeSet

\* A reading with other parts is one if these are right.
LEMMA ReadingExcept ==
    ASSUME NEW r, Map!IsReading(r)
    PROVE  /\ \A s : [r EXCEPT !.status = s] =
                         [status |-> s, n |-> r.n, space |-> r.space,
                          bfchar |-> r.bfchar, bfrange |-> r.bfrange]
           /\ \A n : [r EXCEPT !.n = n] =
                         [status |-> r.status, n |-> n, space |-> r.space,
                          bfchar |-> r.bfchar, bfrange |-> r.bfrange]
           /\ \A n, s : [r EXCEPT !.space = s, !.n = n] =
                         [status |-> r.status, n |-> n, space |-> s,
                          bfchar |-> r.bfchar, bfrange |-> r.bfrange]
           /\ \A s : [r EXCEPT !.bfchar = s] =
                         [status |-> r.status, n |-> r.n, space |-> r.space,
                          bfchar |-> s, bfrange |-> r.bfrange]
           /\ \A s : [r EXCEPT !.bfrange = s] =
                         [status |-> r.status, n |-> r.n, space |-> r.space,
                          bfchar |-> r.bfchar, bfrange |-> s]
<1>1. PICK a, b, c, d, e : r = [status |-> a, n |-> b, space |-> c, bfchar |-> d, bfrange |-> e]
  BY ReadingIs
<1>2. \A s : [r EXCEPT !.status = s] =
                 [status |-> s, n |-> b, space |-> c, bfchar |-> d, bfrange |-> e]
  BY <1>1
<1>3. \A n : [r EXCEPT !.n = n] =
                 [status |-> a, n |-> n, space |-> c, bfchar |-> d, bfrange |-> e]
  BY <1>1
<1>4. \A s : [r EXCEPT !.bfchar = s] =
                 [status |-> a, n |-> b, space |-> c, bfchar |-> s, bfrange |-> e]
  BY <1>1
<1>5. \A s : [r EXCEPT !.bfrange = s] =
                 [status |-> a, n |-> b, space |-> c, bfchar |-> d, bfrange |-> s]
  BY <1>1
<1>6. \A n, s : [r EXCEPT !.space = s, !.n = n] =
                    [status |-> a, n |-> n, space |-> s, bfchar |-> d, bfrange |-> e]
  <2> TAKE n, s
  <2>1. [r EXCEPT !.space = s] =
            [status |-> a, n |-> b, space |-> s, bfchar |-> d, bfrange |-> e]
    BY <1>1
  <2> DEFINE q == [r EXCEPT !.space = s]
  <2> HIDE DEF q
  <2>2. q = [status |-> a, n |-> b, space |-> s, bfchar |-> d, bfrange |-> e]
    BY <2>1 DEF q
  <2>3. [q EXCEPT !.n = n] =
            [status |-> a, n |-> n, space |-> s, bfchar |-> d, bfrange |-> e]
    BY <2>2
  <2> QED
    BY <2>3 DEF q
<1>7. r.status = a /\ r.n = b /\ r.space = c /\ r.bfchar = d /\ r.bfrange = e
  BY <1>1
<1> QED
  BY <1>2, <1>3, <1>4, <1>5, <1>6, <1>7, ZenonT(60)

LEMMA RefusedReading ==
    ASSUME NEW r, Map!IsReading(r), NEW s \in {"bad", "panicked"}
    PROVE  Map!IsReading(Map!Refused(r, s)) /\ Map!Refused(r, s).status = s
<1> DEFINE q == Map!Refused(r, s)
<1>1. q = [status |-> s, n |-> r.n, space |-> r.space, bfchar |-> r.bfchar, bfrange |-> r.bfrange]
  BY ReadingExcept DEF Map!Refused
<1> HIDE DEF q
<1>2. q.status = s /\ q.n = r.n /\ q.space = r.space /\ q.bfchar = r.bfchar /\ q.bfrange = r.bfrange
  BY <1>1
<1>3. Map!IsReading(q)
  BY <1>1, <1>2, ReadingIs
<1> QED
  BY <1>2, <1>3 DEF q

LEMMA CodespaceReading ==
    ASSUME NEW m, IsMachine(Map!MapValue, m), NEW r, Map!IsReading(r)
    PROVE  LET q == Map!EndCodespace(m, r)
           IN /\ Map!IsReading(q)
              /\ q.status = r.status => q.bfchar = r.bfchar /\ q.bfrange = r.bfrange
              /\ q.status \in {r.status, "bad", "panicked"}
<1> DEFINE faulty == Map!FaultySpaces(m, r.n)
           e == [i \in 1..r.n |-> Map!SpaceEntry(m, i)]
           q == Map!EndCodespace(m, r)
<1>1. r.n \in Int
  BY ReadingIs
<1>2. CASE r.n < 0 \/ faulty # {}
  <2>1. \E s \in {"bad", "panicked"} : q = Map!Refused(r, s)
    BY <1>1, <1>2 DEF Map!EndCodespace
  <2>2. PICK s \in {"bad", "panicked"} : q = Map!Refused(r, s)
    BY <2>1
  <2> HIDE DEF q
  <2>3. Map!IsReading(q) /\ q.status = s
    BY <2>2, RefusedReading
  <2>4. q.bfchar = r.bfchar /\ q.bfrange = r.bfrange
    BY <2>2, ReadingExcept, ZenonT(60) DEF Map!Refused
  <2> QED
    BY <2>3, <2>4 DEF q
<1>3. CASE ~(r.n < 0) /\ faulty = {}
  <2> DEFINE space == r.space \o e
  <2>1. q = [status |-> r.status, n |-> -1, space |-> space,
             bfchar |-> r.bfchar, bfrange |-> r.bfrange]
    <3>1. r.n >= 0 /\ ~(r.n < 0)
      BY <1>1, <1>3
    <3>2. q = [r EXCEPT !.space = @ \o Map!Entries(m, r.n, Map!SpaceEntry), !.n = -1]
      BY <1>3, <3>1 DEF Map!EndCodespace
    <3>3. Map!Entries(m, r.n, Map!SpaceEntry) = e
      BY DEF Map!Entries
    <3> HIDE DEF e, q
    <3>4. [r EXCEPT !.space = @ \o e, !.n = -1] = [r EXCEPT !.space = space, !.n = -1]
      OBVIOUS
    <3> HIDE DEF space
    <3> QED
      BY <3>2, <3>3, <3>4, ReadingExcept, ZenonT(60)
  <2>2. \A i \in 1..r.n : e[i] \in SpaceSet /\ Map!IsRange(e[i])
    <3> TAKE i \in 1..r.n
    <3>1. i \in Nat \ {0} /\ e[i] = Map!SpaceEntry(m, i)
      BY <1>1
    <3>2. e[i] \in SpaceSet
      BY <3>1, EntryTyped
    <3>3. i \notin faulty
      BY <1>3
    <3>4. Map!IsRange(e[i])
      BY <3>1, <3>3 DEF Map!FaultySpaces, Map!IsRange
    <3> HIDE DEF e
    <3> QED
      BY <3>2, <3>4
  <2>3. e = [i \in 1..r.n |-> e[i]]
    OBVIOUS
  <2>4. r.space \in Seq(SpaceSet) /\ \A i \in DOMAIN r.space : Map!IsRange(r.space[i])
    BY ReadingIs
  <2>5. r.n \in Nat /\ DOMAIN r.space = 1..Len(r.space)
    BY <1>1, <1>3, <2>4, LenProperties
  <2> HIDE DEF e
  <2>6. AreEntries(e, r.n, SpaceSet)
    BY <2>2, <2>3 DEF AreEntries
  <2> DEFINE N == Len(r.space)
  <2>7. /\ space \in Seq(SpaceSet) /\ DOMAIN space = 1..N + r.n /\ N \in Nat
        /\ \A i \in 1..N : space[i] = r.space[i]
        /\ \A i \in 1..r.n : space[N + i] = e[i]
    BY <2>4, <2>5, <2>6, EntriesTyped
  <2> HIDE DEF space, q
  <2>8. /\ q.status = r.status /\ q.n = -1 /\ q.space = space
        /\ q.bfchar = r.bfchar /\ q.bfrange = r.bfrange
    BY <2>1
  <2>9. \A i \in DOMAIN space : Map!IsRange(space[i])
    <3> TAKE i \in DOMAIN space
    <3>1. CASE i \in 1..N
      <4>1. space[i] = r.space[i] /\ i \in DOMAIN r.space
        BY <2>5, <2>7, <3>1
      <4> QED
        BY <2>4, <4>1
    <3>2. CASE i \notin 1..N
      <4>1. i - N \in 1..r.n /\ N + (i - N) = i
        BY <2>5, <2>7, <3>2
      <4>2. space[i] = e[i - N]
        BY <2>7, <4>1, Zenon
      <4> QED
        BY <2>2, <4>1, <4>2
    <3> QED
      BY <3>1, <3>2
  <2>10. /\ r.status \in {"new", "reading", "bad", "panicked"}
         /\ r.bfchar \in Seq(CharSet) /\ r.bfrange \in Seq(RangeSet)
    BY ReadingIs
  <2>11. q = [status |-> q.status, n |-> q.n, space |-> q.space,
              bfchar |-> q.bfchar, bfrange |-> q.bfrange]
    BY <2>1, <2>8
  <2>12. Map!IsReading(q)
    <3>1. q.n \in Int /\ q.space \in Seq(SpaceSet)
      BY <2>7, <2>8
    <3>2. \A i \in DOMAIN q.space : Map!IsRange(q.space[i])
      BY <2>8, <2>9
    <3>3. q.status \in {"new", "reading", "bad", "panicked"}
          /\ q.bfchar \in Seq(CharSet) /\ q.bfrange \in Seq(RangeSet)
      BY <2>8, <2>10
    <3> QED
      BY <2>11, <3>1, <3>2, <3>3, ReadingIs
  <2> QED
    BY <2>8, <2>12 DEF q
<1> QED
  BY <1>2, <1>3

\* The characters and the ranges of a section are appended to those before.
LEMMA BfcharReading ==
    ASSUME NEW m, IsMachine(Map!MapValue, m), NEW r, Map!IsReading(r), r.n >= 0
    PROVE  LET q == Map!EndBfchar(m, r)
               e == [i \in 1..r.n |-> Map!CharEntry(m, i)]
           IN /\ Map!IsReading(q)
              /\ q.status = r.status /\ q.bfrange = r.bfrange
              /\ q.bfchar = r.bfchar \o e
              /\ DOMAIN q.bfchar = 1..Len(r.bfchar) + r.n
              /\ \A i \in 1..Len(r.bfchar) : q.bfchar[i] = r.bfchar[i]
              /\ \A i \in 1..r.n : q.bfchar[Len(r.bfchar) + i] = Map!CharEntry(m, i)
<1> DEFINE e == [i \in 1..r.n |-> Map!CharEntry(m, i)]
           q == Map!EndBfchar(m, r)
           chars == r.bfchar \o e
<1>1. r.n \in Nat
  BY ReadingIs
<1>2. q = [status |-> r.status, n |-> r.n, space |-> r.space,
           bfchar |-> chars, bfrange |-> r.bfrange]
  <2>1. q = [r EXCEPT !.bfchar = @ \o Map!Entries(m, r.n, Map!CharEntry)]
    BY <1>1 DEF Map!EndBfchar
  <2>2. Map!Entries(m, r.n, Map!CharEntry) = e
    BY DEF Map!Entries
  <2> HIDE DEF e, q
  <2>3. [r EXCEPT !.bfchar = @ \o e] = [r EXCEPT !.bfchar = chars]
    OBVIOUS
  <2> HIDE DEF chars
  <2> QED
    BY <2>1, <2>2, <2>3, ReadingExcept
<1>3. \A i \in 1..r.n : e[i] \in CharSet /\ e[i] = Map!CharEntry(m, i)
  BY <1>1, EntryTyped
<1>4. e = [i \in 1..r.n |-> e[i]]
  OBVIOUS
<1>5. r.bfchar \in Seq(CharSet)
  BY ReadingIs
<1> HIDE DEF e
<1>6. AreEntries(e, r.n, CharSet)
  BY <1>3, <1>4 DEF AreEntries
<1>7. /\ chars \in Seq(CharSet) /\ DOMAIN chars = 1..Len(r.bfchar) + r.n
      /\ \A i \in 1..Len(r.bfchar) : chars[i] = r.bfchar[i]
      /\ \A i \in 1..r.n : chars[Len(r.bfchar) + i] = e[i]
  BY <1>1, <1>5, <1>6, EntriesTyped
<1>8. \A i \in 1..r.n : chars[Len(r.bfchar) + i] = Map!CharEntry(m, i)
  BY <1>3, <1>7
<1>9. chars = r.bfchar \o e
  OBVIOUS
<1> HIDE DEF chars, q
<1>10. /\ q.status = r.status /\ q.n = r.n /\ q.space = r.space
       /\ q.bfchar = chars /\ q.bfrange = r.bfrange
  BY <1>2
<1>11. Map!IsReading(q)
  BY <1>2, <1>7, <1>10, ReadingIs
<1> QED
  BY <1>7, <1>8, <1>9, <1>10, <1>11 DEF q, e

LEMMA BfrangeReading ==
    ASSUME NEW m, IsMachine(Map!MapValue, m), NEW r, Map!IsReading(r), r.n >= 0
    PROVE  LET q == Map!EndBfrange(m, r)
               e == [i \in 1..r.n |-> Map!RangeEntry(m, i)]
           IN /\ Map!IsReading(q)
              /\ q.status = r.status /\ q.bfchar = r.bfchar
              /\ q.bfrange = r.bfrange \o e
              /\ DOMAIN q.bfrange = 1..Len(r.bfrange) + r.n
              /\ \A i \in 1..Len(r.bfrange) : q.bfrange[i] = r.bfrange[i]
              /\ \A i \in 1..r.n : q.bfrange[Len(r.bfrange) + i] = Map!RangeEntry(m, i)
<1> DEFINE e == [i \in 1..r.n |-> Map!RangeEntry(m, i)]
           q == Map!EndBfrange(m, r)
           ranges == r.bfrange \o e
<1>1. r.n \in Nat
  BY ReadingIs
<1>2. q = [status |-> r.status, n |-> r.n, space |-> r.space,
           bfchar |-> r.bfchar, bfrange |-> ranges]
  <2>1. q = [r EXCEPT !.bfrange = @ \o Map!Entries(m, r.n, Map!RangeEntry)]
    BY <1>1 DEF Map!EndBfrange
  <2>2. Map!Entries(m, r.n, Map!RangeEntry) = e
    BY DEF Map!Entries
  <2> HIDE DEF e, q
  <2>3. [r EXCEPT !.bfrange = @ \o e] = [r EXCEPT !.bfrange = ranges]
    OBVIOUS
  <2> HIDE DEF ranges
  <2> QED
    BY <2>1, <2>2, <2>3, ReadingExcept
<1>3. \A i \in 1..r.n : e[i] \in RangeSet /\ e[i] = Map!RangeEntry(m, i)
  BY <1>1, EntryTyped
<1>4. e = [i \in 1..r.n |-> e[i]]
  OBVIOUS
<1>5. r.bfrange \in Seq(RangeSet)
  BY ReadingIs
<1> HIDE DEF e
<1>6. AreEntries(e, r.n, RangeSet)
  BY <1>3, <1>4 DEF AreEntries
<1>7. /\ ranges \in Seq(RangeSet) /\ DOMAIN ranges = 1..Len(r.bfrange) + r.n
      /\ \A i \in 1..Len(r.bfrange) : ranges[i] = r.bfrange[i]
      /\ \A i \in 1..r.n : ranges[Len(r.bfrange) + i] = e[i]
  BY <1>1, <1>5, <1>6, EntriesTyped
<1>8. \A i \in 1..r.n : ranges[Len(r.bfrange) + i] = Map!RangeEntry(m, i)
  BY <1>3, <1>7
<1>9. ranges = r.bfrange \o e
  OBVIOUS
<1> HIDE DEF ranges, q
<1>10. /\ q.status = r.status /\ q.n = r.n /\ q.space = r.space
       /\ q.bfrange = ranges /\ q.bfchar = r.bfchar
  BY <1>2
<1>11. Map!IsReading(q)
  BY <1>2, <1>7, <1>10, ReadingIs
<1> QED
  BY <1>7, <1>8, <1>9, <1>10, <1>11 DEF q, e

\* What each operator does to the reading.
LEMMA ReadingAfterOK ==
    ASSUME NEW m, IsMachine(Map!MapValue, m), NEW r, Map!IsReading(r), NEW op
    PROVE  LET q == Map!ReadingAfter(m, r, op)
           IN Map!IsReading(q) /\ q.status \in {r.status, "bad", "panicked"}
<1>1. CASE op \in Map!Begins
  <2> DEFINE n == Map!Int64(Map!Top(m))
             q == [r EXCEPT !.n = n]
  <2>1. Map!ReadingAfter(m, r, op) = q
    BY <1>1 DEF Map!ReadingAfter, Map!Begins
  <2>2. n \in Int
    BY MapTopTyped, PartsSame, Int64Typed
  <2> HIDE DEF n
  <2>3. q = [status |-> r.status, n |-> n, space |-> r.space,
             bfchar |-> r.bfchar, bfrange |-> r.bfrange]
    BY ReadingExcept
  <2> HIDE DEF q
  <2>4. /\ q.status = r.status /\ q.n = n /\ q.space = r.space
        /\ q.bfchar = r.bfchar /\ q.bfrange = r.bfrange
    BY <2>3
  <2>5. Map!IsReading(q)
    BY <2>2, <2>3, <2>4, ReadingIs
  <2> QED
    BY <2>1, <2>4, <2>5
<1>2. CASE op = "endcodespacerange"
  BY <1>2, CodespaceReading DEF Map!ReadingAfter, Map!Begins
<1>3. ASSUME r.n < 0
      PROVE  LET q == Map!Refused(r, "panicked")
             IN Map!IsReading(q) /\ q.status \in {r.status, "bad", "panicked"}
  BY RefusedReading
<1>4. r.n \in Int
  BY ReadingIs
<1>5. CASE op = "endbfchar"
  <2>1. Map!ReadingAfter(m, r, op) = Map!EndBfchar(m, r)
    BY <1>5 DEF Map!ReadingAfter, Map!Begins
  <2>2. CASE r.n < 0
    BY <1>3, <2>1, <2>2 DEF Map!EndBfchar
  <2>3. CASE r.n >= 0
    BY <2>1, <2>3, BfcharReading
  <2> QED
    BY <1>4, <2>2, <2>3
<1>6. CASE op = "endbfrange"
  <2>1. Map!ReadingAfter(m, r, op) = Map!EndBfrange(m, r)
    BY <1>6 DEF Map!ReadingAfter, Map!Begins
  <2>2. CASE r.n < 0
    BY <1>3, <2>1, <2>2 DEF Map!EndBfrange
  <2>3. CASE r.n >= 0
    BY <2>1, <2>3, BfrangeReading
  <2> QED
    BY <1>4, <2>2, <2>3
<1>7. CASE op \notin Map!Begins \cup {"endcodespacerange", "endbfchar", "endbfrange"}
  <2>1. Map!ReadingAfter(m, r, op) = r
    BY <1>7 DEF Map!ReadingAfter
  <2> QED
    BY <2>1
<1> QED
  BY <1>1, <1>2, <1>5, <1>6, <1>7

LEMMA TakenTyped ==
    ASSUME NEW m, NEW r, Map!IsReading(r), NEW op
    PROVE  Map!Taken(m, r, op) \in Nat
<1>1. r.n \in Int
  BY ReadingIs
<1>2. CASE r.n < 0
  BY <1>2 DEF Map!Taken
<1>3. CASE ~(r.n < 0) /\ op = "endcodespacerange" /\ Map!FaultySpaces(m, r.n) # {}
  <2> DEFINE T == Map!FaultySpaces(m, r.n)
  <2>1. T \in SUBSET Nat
    BY <1>1, <1>3 DEF Map!FaultySpaces
  <2>2. Map!Taken(m, r, op) = Map!Min(T)
    BY <1>3 DEF Map!Taken
  <2> HIDE DEF T
  <2>3. T # {}
    BY <1>3 DEF T
  <2> QED
    BY <2>1, <2>2, <2>3, MapMinIs
<1>4. CASE ~(r.n < 0) /\ ~(op = "endcodespacerange" /\ Map!FaultySpaces(m, r.n) # {})
  BY <1>1, <1>4 DEF Map!Taken
<1> QED
  BY <1>2, <1>3, <1>4

\* What each operator does to the machine.
LEMMA MachineAfterOK ==
    ASSUME NEW m, IsMachine(Map!MapValue, m), NEW r, Map!IsReading(r), NEW op
    PROVE  IsMachine(Map!MapValue, Map!MachineAfter(m, r, op))
<1>1. CASE op = "findresource"
  <2>1. Map!MachineAfter(m, r, op) = PushDict(Map!Drop(m, 2))
    BY <1>1, PartsSame DEF Map!MachineAfter, Map!Begins, Map!Ends
  <2> QED
    BY <2>1, DropMachine, PushDictMachine, MapHasDicts
<1>2. CASE op = "begincmap"
  <2>1. Map!MachineAfter(m, r, op) = PushDict(m)
    BY <1>2, PartsSame DEF Map!MachineAfter, Map!Begins, Map!Ends
  <2> QED
    BY <2>1, PushDictMachine, MapHasDicts
<1>3. CASE op \in Map!Begins \cup {"endcmap"}
  <2>1. Map!MachineAfter(m, r, op) = Popped(m)
    BY <1>3, PartsSame DEF Map!MachineAfter, Map!Begins, Map!Ends
  <2> QED
    BY <2>1, PoppedMachine
<1>4. CASE op \in Map!Ends
  <2>1. Map!MachineAfter(m, r, op) = Map!Drop(m, Map!Arity(op) * Map!Taken(m, r, op))
    BY <1>4 DEF Map!MachineAfter, Map!Begins, Map!Ends
  <2>2. Map!Arity(op) * Map!Taken(m, r, op) \in Nat
    BY TakenTyped DEF Map!Arity
  <2> QED
    BY <2>1, <2>2, DropMachine
<1>5. CASE op = "defineresource"
  <2> DEFINE d == Map!Drop(m, 3)
             v == Map!Operand(m, 2)
  <2>1. Map!MachineAfter(m, r, op) = Push(d, v)
    BY <1>5, PartsSame DEF Map!MachineAfter, Map!Begins, Map!Ends
  <2>2. IsMachine(Map!MapValue, d) /\ d.heap = m.heap
    BY DropMachine
  <2>3. Known(Map!MapValue, d, v)
    <3>1. v \in Map!MapValue
      BY MapOperandTyped
    <3>2. CASE 2 <= Len(m.stk)
      <4>1. Len(m.stk) + 1 - 2 \in DOMAIN m.stk /\ v = m.stk[Len(m.stk) + 1 - 2]
        BY <3>2, MapOperandTyped
      <4>2. Known(Map!MapValue, m, v)
        BY <4>1 DEF IsMachine
      <4> QED
        BY <2>2, <4>2 DEF Known
    <3>3. CASE ~(2 <= Len(m.stk))
      <4>1. Len(m.stk) \in Nat
        BY LenProperties DEF IsMachine
      <4>2. v = Null
        BY <3>3, <4>1 DEF Map!Operand, Map!Null, Null
      <4> QED
        BY <3>1, <4>2 DEF Known, Null
    <3> QED
      BY <3>2, <3>3
  <2> HIDE DEF d, v
  <2> QED
    BY <2>1, <2>2, <2>3, PushMachine
<1>6. CASE op \notin {"findresource", "begincmap", "endcmap", "defineresource"}
                         \cup Map!Begins \cup Map!Ends
  <2>1. Map!MachineAfter(m, r, op) = m
    BY <1>6 DEF Map!MachineAfter
  <2> QED
    BY <2>1
<1> QED
  BY <1>1, <1>2, <1>3, <1>4, <1>5, <1>6

-----------------------------------------------------------------------------
(* What an orderly section lists is what is held of it. *)

\* The operands since the begin are the last ones of the stack.
LEMMA SinceBeginIs ==
    ASSUME NEW m, IsMachine(Map!MapValue, m), section.base \in Nat,
           Len(m.stk) >= section.base
    PROVE  LET operands == Map!SinceBegin(m)
           IN /\ Len(operands) = Len(m.stk) - section.base
              /\ Len(m.stk) \in Nat
              /\ \A k \in 1..Len(operands) :
                    operands[k] = Map!Operand(m, Len(operands) + 1 - k)
<1> DEFINE operands == Map!SinceBegin(m)
           b == section.base
           L == Len(m.stk)
<1>1. m.stk \in Seq(Map!MapValue)
  BY DEF IsMachine
<1>2. L \in Nat /\ b \in Nat /\ L >= b
  BY <1>1, LenProperties
<1>3. /\ Len(operands) = L - b
      /\ \A k \in 1..L - b : operands[k] = m.stk[b + k]
  <2>1. operands = SubSeq(m.stk, b + 1, L)
    BY DEF Map!SinceBegin
  <2>2. b + 1 \in 1..L + 1 /\ L \in (b + 1) - 1..L
    BY <1>2
  <2> HIDE DEF L, b, operands
  <2>3. /\ Len(operands) = (IF b + 1 <= L THEN L - (b + 1) + 1 ELSE 0)
        /\ \A k \in 1..L - (b + 1) + 1 : operands[k] = m.stk[(b + 1) + k - 1]
    BY <1>1, <2>1, <2>2, SubSeqProperties DEF L
  <2> QED
    BY <1>2, <2>3
<1> HIDE DEF operands
<1>4. \A k \in 1..L - b : operands[k] = Map!Operand(m, Len(operands) + 1 - k)
  <2> TAKE k \in 1..L - b
  <2> DEFINE i == L - b + 1 - k
  <2>1. i \in Nat \ {0} /\ i <= L /\ L + 1 - i = b + k
    BY <1>2
  <2> HIDE DEF i
  <2>2. Map!Operand(m, i) = m.stk[b + k]
    BY <2>1, MapOperandTyped
  <2> QED
    BY <1>3, <2>2 DEF i
<1> QED
  BY <1>2, <1>3, <1>4 DEF operands

LEMMA CharsListed ==
    ASSUME NEW m, IsMachine(Map!MapValue, m), section.base \in Nat, NEW n \in Nat,
           Len(m.stk) >= section.base, Len(Map!SinceBegin(m)) = Map!Arity("endbfchar") * n
    PROVE  Map!ListedBy("endbfchar", Map!SinceBegin(m)) =
               {Map!CharListed(Map!CharEntry(m, i)) : i \in 1..n}
<1> DEFINE ops == Map!SinceBegin(m)
           F(i) == Map!CharListed([orig |-> Map!Bytes(ops[2 * (i - 1) + 1]),
                                   repl |-> Map!Bytes(ops[2 * (i - 1) + 2])])
           G(i) == Map!CharListed(Map!CharEntry(m, i))
<1>1. Map!Arity("endbfchar") = 2 /\ Len(ops) = 2 * n /\ (2 * n) \div 2 = n
  BY DEF Map!Arity
<1>2. \A k \in 1..Len(ops) : ops[k] = Map!Operand(m, Len(ops) + 1 - k)
  BY SinceBeginIs
<1>3. Map!ListedBy("endbfchar", ops) = {F(i) : i \in 1..n}
  <2> HIDE DEF ops
  <2> QED
    BY <1>1 DEF Map!ListedBy
<1> HIDE DEF ops
<1>4. ASSUME NEW i \in 1..n PROVE n + 1 - i \in 1..n /\ F(i) = G(n + 1 - i)
  <2> DEFINE j == n + 1 - i
  <2>1. /\ j \in 1..n
        /\ 2 * (i - 1) + 1 \in 1..Len(ops) /\ Len(ops) + 1 - (2 * (i - 1) + 1) = 2 * j
        /\ 2 * (i - 1) + 2 \in 1..Len(ops) /\ Len(ops) + 1 - (2 * (i - 1) + 2) = 2 * j - 1
    BY <1>1
  <2> HIDE DEF j
  <2>2. ops[2 * (i - 1) + 1] = Map!Operand(m, 2 * j)
    BY <1>2, <2>1
  <2>3. ops[2 * (i - 1) + 2] = Map!Operand(m, 2 * j - 1)
    BY <1>2, <2>1
  <2>4. F(i) = G(j)
    BY <2>2, <2>3 DEF Map!CharEntry
  <2> QED
    BY <2>1, <2>4 DEF j
<1> HIDE DEF F, G
<1>5. \A i \in 1..n : n + 1 - (n + 1 - i) = i
  OBVIOUS
<1>6. \A j \in 1..n : \E i \in 1..n : F(i) = G(j)
  BY <1>4, <1>5
<1>7. {F(i) : i \in 1..n} = {G(i) : i \in 1..n}
  BY <1>4, <1>6
<1> QED
  BY <1>3, <1>7 DEF G, ops

LEMMA RangesListed ==
    ASSUME NEW m, IsMachine(Map!MapValue, m), section.base \in Nat, NEW n \in Nat,
           Len(m.stk) >= section.base, Len(Map!SinceBegin(m)) = Map!Arity("endbfrange") * n
    PROVE  Map!ListedBy("endbfrange", Map!SinceBegin(m)) =
               UNION {Map!RangeListed(Map!RangeEntry(m, i)) : i \in 1..n}
<1> DEFINE ops == Map!SinceBegin(m)
           F(i) == Map!RangeListed([lo |-> Map!Bytes(ops[3 * (i - 1) + 1]),
                                    hi |-> Map!Bytes(ops[3 * (i - 1) + 2]),
                                    dst |-> ops[3 * (i - 1) + 3]])
           G(i) == Map!RangeListed(Map!RangeEntry(m, i))
<1>1. Map!Arity("endbfrange") = 3 /\ Len(ops) = 3 * n /\ (3 * n) \div 3 = n
  BY DEF Map!Arity
<1>2. \A k \in 1..Len(ops) : ops[k] = Map!Operand(m, Len(ops) + 1 - k)
  BY SinceBeginIs
<1>3. Map!ListedBy("endbfrange", ops) = UNION {F(i) : i \in 1..n}
  <2> HIDE DEF ops
  <2> QED
    BY <1>1 DEF Map!ListedBy
<1> HIDE DEF ops
<1>4. ASSUME NEW i \in 1..n PROVE n + 1 - i \in 1..n /\ F(i) = G(n + 1 - i)
  <2> DEFINE j == n + 1 - i
  <2>1. /\ j \in 1..n
        /\ 3 * (i - 1) + 1 \in 1..Len(ops) /\ Len(ops) + 1 - (3 * (i - 1) + 1) = 3 * j
        /\ 3 * (i - 1) + 2 \in 1..Len(ops) /\ Len(ops) + 1 - (3 * (i - 1) + 2) = 3 * j - 1
        /\ 3 * (i - 1) + 3 \in 1..Len(ops) /\ Len(ops) + 1 - (3 * (i - 1) + 3) = 3 * j - 2
    BY <1>1
  <2> HIDE DEF j
  <2>2. ops[3 * (i - 1) + 1] = Map!Operand(m, 3 * j)
    BY <1>2, <2>1
  <2>3. ops[3 * (i - 1) + 2] = Map!Operand(m, 3 * j - 1)
    BY <1>2, <2>1
  <2>4. ops[3 * (i - 1) + 3] = Map!Operand(m, 3 * j - 2)
    BY <1>2, <2>1
  <2>5. F(i) = G(j)
    BY <2>2, <2>3, <2>4 DEF Map!RangeEntry
  <2> QED
    BY <2>1, <2>5 DEF j
<1> HIDE DEF F, G
<1>5. \A i \in 1..n : n + 1 - (n + 1 - i) = i
  OBVIOUS
<1>6. \A j \in 1..n : \E i \in 1..n : F(i) = G(j)
  BY <1>4, <1>5
<1>7. {F(i) : i \in 1..n} = {G(i) : i \in 1..n}
  BY <1>4, <1>6
<1> QED
  BY <1>3, <1>7 DEF G, ops

\* The parts of what a map holds.
CharsHeld(s) == {Map!CharListed(s[i]) : i \in DOMAIN s}

RangesHeld(s) == {Map!RangeListed(s[i]) : i \in DOMAIN s}

LEMMA HeldIs ==
    ASSUME NEW r
    PROVE  Map!Held(r) = CharsHeld(r.bfchar) \cup UNION RangesHeld(r.bfrange)
BY DEF Map!Held, CharsHeld, RangesHeld

\* t is s and then the elements of e: so are the images.
IsLonger(s, t, e) ==
    \E N, n \in Nat :
        /\ DOMAIN s = 1..N /\ DOMAIN t = 1..N + n /\ DOMAIN e = 1..n
        /\ \A i \in 1..N : t[i] = s[i]
        /\ \A i \in 1..n : t[N + i] = e[i]

HasElements(s, t, e) ==
    /\ \A i \in DOMAIN t :
          (\E k \in DOMAIN s : t[i] = s[k]) \/ (\E k \in DOMAIN e : t[i] = e[k])
    /\ \A i \in DOMAIN s : \E k \in DOMAIN t : t[k] = s[i]
    /\ \A i \in DOMAIN e : \E k \in DOMAIN t : t[k] = e[i]

LEMMA LongerElements ==
    ASSUME NEW s, NEW t, NEW e, IsLonger(s, t, e)
    PROVE  HasElements(s, t, e)
<1>1. PICK N \in Nat, n \in Nat :
          /\ DOMAIN s = 1..N /\ DOMAIN t = 1..N + n /\ DOMAIN e = 1..n
          /\ \A i \in 1..N : t[i] = s[i]
          /\ \A i \in 1..n : t[N + i] = e[i]
  BY DEF IsLonger
<1>2. \A i \in 1..N + n : i \in 1..N \/ (i - N \in 1..n /\ N + (i - N) = i)
  OBVIOUS
<1>3. \A i \in 1..N : i \in 1..N + n
  OBVIOUS
<1>4. \A i \in 1..n : N + i \in 1..N + n
  OBVIOUS
<1>5. \A i \in DOMAIN t :
          (\E k \in DOMAIN s : t[i] = s[k]) \/ (\E k \in DOMAIN e : t[i] = e[k])
  BY <1>1, <1>2
<1>6. \A i \in DOMAIN s : \E k \in DOMAIN t : t[k] = s[i]
  BY <1>1, <1>3
<1>7. \A i \in DOMAIN e : \E k \in DOMAIN t : t[k] = e[i]
  BY <1>1, <1>4
<1> QED
  BY <1>5, <1>6, <1>7 DEF HasElements

LEMMA CharsHeldMore ==
    ASSUME NEW s, NEW t, NEW e, IsLonger(s, t, e)
    PROVE  CharsHeld(t) = CharsHeld(s) \cup CharsHeld(e)
<1>1. HasElements(s, t, e)
  BY LongerElements
<1>2. ASSUME NEW x \in CharsHeld(t) PROVE x \in CharsHeld(s) \cup CharsHeld(e)
  <2>1. PICK i \in DOMAIN t : x = Map!CharListed(t[i])
    BY DEF CharsHeld
  <2>2. CASE \E k \in DOMAIN s : t[i] = s[k]
    BY <2>1, <2>2 DEF CharsHeld
  <2>3. CASE \E k \in DOMAIN e : t[i] = e[k]
    BY <2>1, <2>3 DEF CharsHeld
  <2> QED
    BY <1>1, <2>2, <2>3 DEF HasElements
<1>3. ASSUME NEW x \in CharsHeld(s) PROVE x \in CharsHeld(t)
  <2>1. PICK i \in DOMAIN s : x = Map!CharListed(s[i])
    BY DEF CharsHeld
  <2>2. PICK k \in DOMAIN t : t[k] = s[i]
    BY <1>1 DEF HasElements
  <2> QED
    BY <2>1, <2>2 DEF CharsHeld
<1>4. ASSUME NEW x \in CharsHeld(e) PROVE x \in CharsHeld(t)
  <2>1. PICK i \in DOMAIN e : x = Map!CharListed(e[i])
    BY DEF CharsHeld
  <2>2. PICK k \in DOMAIN t : t[k] = e[i]
    BY <1>1 DEF HasElements
  <2> QED
    BY <2>1, <2>2 DEF CharsHeld
<1> QED
  BY <1>2, <1>3, <1>4

LEMMA RangesHeldMore ==
    ASSUME NEW s, NEW t, NEW e, IsLonger(s, t, e)
    PROVE  RangesHeld(t) = RangesHeld(s) \cup RangesHeld(e)
<1>1. HasElements(s, t, e)
  BY LongerElements
<1>2. ASSUME NEW x \in RangesHeld(t) PROVE x \in RangesHeld(s) \cup RangesHeld(e)
  <2>1. PICK i \in DOMAIN t : x = Map!RangeListed(t[i])
    BY DEF RangesHeld
  <2>2. CASE \E k \in DOMAIN s : t[i] = s[k]
    BY <2>1, <2>2 DEF RangesHeld
  <2>3. CASE \E k \in DOMAIN e : t[i] = e[k]
    BY <2>1, <2>3 DEF RangesHeld
  <2> QED
    BY <1>1, <2>2, <2>3 DEF HasElements
<1>3. ASSUME NEW x \in RangesHeld(s) PROVE x \in RangesHeld(t)
  <2>1. PICK i \in DOMAIN s : x = Map!RangeListed(s[i])
    BY DEF RangesHeld
  <2>2. PICK k \in DOMAIN t : t[k] = s[i]
    BY <1>1 DEF HasElements
  <2> QED
    BY <2>1, <2>2 DEF RangesHeld
<1>4. ASSUME NEW x \in RangesHeld(e) PROVE x \in RangesHeld(t)
  <2>1. PICK i \in DOMAIN e : x = Map!RangeListed(e[i])
    BY DEF RangesHeld
  <2>2. PICK k \in DOMAIN t : t[k] = e[i]
    BY <1>1 DEF HasElements
  <2> QED
    BY <2>1, <2>2 DEF RangesHeld
<1> QED
  BY <1>2, <1>3, <1>4

\* An operator in its place adds to the map what it lists.
LEMMA HeldAfter ==
    ASSUME NEW m, IsMachine(Map!MapValue, m), NEW r, Map!IsReading(r), NEW op,
           section.base \in Nat, r.status = "reading",
           Map!ReadingAfter(m, r, op).status = "reading",
           op \in Map!Ends =>
               /\ Len(m.stk) >= section.base
               /\ Len(Map!SinceBegin(m)) = Map!Arity(op) * r.n
    PROVE  Map!Held(Map!ReadingAfter(m, r, op)) =
               Map!Held(r) \cup (IF op \in Map!Ends
                                 THEN Map!ListedBy(op, Map!SinceBegin(m)) ELSE {})
<1> DEFINE q == Map!ReadingAfter(m, r, op)
<1>1. r.n \in Int /\ r.bfchar \in Seq(CharSet) /\ r.bfrange \in Seq(RangeSet)
  BY ReadingIs
<1>2. /\ DOMAIN r.bfchar = 1..Len(r.bfchar) /\ Len(r.bfchar) \in Nat
      /\ DOMAIN r.bfrange = 1..Len(r.bfrange) /\ Len(r.bfrange) \in Nat
  BY <1>1, LenProperties
<1>3. CASE op = "endbfchar"
  <2>1. q = Map!EndBfchar(m, r)
    BY <1>3 DEF Map!ReadingAfter, Map!Begins
  <2>2. r.n >= 0
    <3> SUFFICES ASSUME r.n < 0 PROVE FALSE
      BY <1>1
    <3>1. q = Map!Refused(r, "panicked")
      BY <2>1 DEF Map!EndBfchar
    <3> QED
      BY <3>1, RefusedReading
  <2> DEFINE e == [i \in 1..r.n |-> Map!CharEntry(m, i)]
  <2>3. /\ q.bfrange = r.bfrange
        /\ DOMAIN q.bfchar = 1..Len(r.bfchar) + r.n
        /\ \A i \in 1..Len(r.bfchar) : q.bfchar[i] = r.bfchar[i]
        /\ \A i \in 1..r.n : q.bfchar[Len(r.bfchar) + i] = Map!CharEntry(m, i)
    BY <2>1, <2>2, BfcharReading
  <2>4. \A i \in 1..r.n : q.bfchar[Len(r.bfchar) + i] = e[i]
    BY <2>3
  <2>5. CharsHeld(e) = {Map!CharListed(Map!CharEntry(m, i)) : i \in 1..r.n}
    BY DEF CharsHeld
  <2>6. Map!ListedBy(op, Map!SinceBegin(m)) =
            {Map!CharListed(Map!CharEntry(m, i)) : i \in 1..r.n}
    BY <1>1, <1>3, <2>2, CharsListed DEF Map!Ends
  <2>7. DOMAIN e = 1..r.n /\ r.n \in Nat
    BY <1>1, <2>2
  <2> HIDE DEF e, q
  <2>8. IsLonger(r.bfchar, q.bfchar, e)
    BY <1>2, <2>3, <2>4, <2>7 DEF IsLonger
  <2>9. op \in Map!Ends
    BY <1>3 DEF Map!Ends
  <2>10. CharsHeld(q.bfchar)
             = CharsHeld(r.bfchar) \cup Map!ListedBy(op, Map!SinceBegin(m))
    BY <2>5, <2>6, <2>8, CharsHeldMore
  <2>11. Map!Held(q) = Map!Held(r) \cup Map!ListedBy(op, Map!SinceBegin(m))
    BY <2>3, <2>10, HeldIs
  <2> QED
    BY <2>9, <2>11 DEF q
<1>4. CASE op = "endbfrange"
  <2>1. q = Map!EndBfrange(m, r)
    BY <1>4 DEF Map!ReadingAfter, Map!Begins
  <2>2. r.n >= 0
    <3> SUFFICES ASSUME r.n < 0 PROVE FALSE
      BY <1>1
    <3>1. q = Map!Refused(r, "panicked")
      BY <2>1 DEF Map!EndBfrange
    <3> QED
      BY <3>1, RefusedReading
  <2> DEFINE e == [i \in 1..r.n |-> Map!RangeEntry(m, i)]
  <2>3. /\ q.bfchar = r.bfchar
        /\ DOMAIN q.bfrange = 1..Len(r.bfrange) + r.n
        /\ \A i \in 1..Len(r.bfrange) : q.bfrange[i] = r.bfrange[i]
        /\ \A i \in 1..r.n : q.bfrange[Len(r.bfrange) + i] = Map!RangeEntry(m, i)
    BY <2>1, <2>2, BfrangeReading
  <2>4. \A i \in 1..r.n : q.bfrange[Len(r.bfrange) + i] = e[i]
    BY <2>3
  <2>5. UNION RangesHeld(e) = UNION {Map!RangeListed(Map!RangeEntry(m, i)) : i \in 1..r.n}
    BY DEF RangesHeld
  <2>6. Map!ListedBy(op, Map!SinceBegin(m)) =
            UNION {Map!RangeListed(Map!RangeEntry(m, i)) : i \in 1..r.n}
    BY <1>1, <1>4, <2>2, RangesListed DEF Map!Ends
  <2>7. DOMAIN e = 1..r.n /\ r.n \in Nat
    BY <1>1, <2>2
  <2> HIDE DEF e, q
  <2>8. IsLonger(r.bfrange, q.bfrange, e)
    BY <1>2, <2>3, <2>4, <2>7 DEF IsLonger
  <2>9. op \in Map!Ends
    BY <1>4 DEF Map!Ends
  <2>10. UNION RangesHeld(q.bfrange)
             = (UNION RangesHeld(r.bfrange)) \cup Map!ListedBy(op, Map!SinceBegin(m))
    BY <2>5, <2>6, <2>8, RangesHeldMore
  <2>11. Map!Held(q) = Map!Held(r) \cup Map!ListedBy(op, Map!SinceBegin(m))
    BY <2>3, <2>10, HeldIs
  <2> QED
    BY <2>9, <2>11 DEF q
<1>5. CASE op \notin {"endbfchar", "endbfrange"}
  <2>1. q.bfchar = r.bfchar /\ q.bfrange = r.bfrange
    <3>1. CASE op \in Map!Begins
      <4>1. q = [r EXCEPT !.n = Map!Int64(Map!Top(m))]
        BY <3>1 DEF Map!ReadingAfter, Map!Begins
      <4> QED
        BY <4>1, ReadingExcept
    <3>2. CASE op = "endcodespacerange"
      <4>1. q = Map!EndCodespace(m, r)
        BY <3>2 DEF Map!ReadingAfter, Map!Begins
      <4> QED
        BY <4>1, CodespaceReading
    <3>3. CASE op \notin Map!Begins /\ op # "endcodespacerange"
      BY <1>5, <3>3 DEF Map!ReadingAfter
    <3> QED
      BY <3>1, <3>2, <3>3
  <2>2. op \in Map!Ends => Map!ListedBy(op, Map!SinceBegin(m)) = {}
    BY <1>5 DEF Map!Ends, Map!ListedBy
  <2>3. Map!Held(q) = Map!Held(r)
    BY <2>1, HeldIs
  <2> QED
    BY <2>2, <2>3
<1> QED
  BY <1>3, <1>4, <1>5

\* The operands of a keyword are pushed.
LEMMA WithOperandsMachine ==
    ASSUME NEW V, NEW m, IsMachine(V, m), NEW S, NEW run \in Seq(S),
           \A v \in S : v \in V /\ v.kind # "dict"
    PROVE  IsMachine(V, [m EXCEPT !.stk = @ \o run])
<1> DEFINE stk == m.stk \o run
           N == Len(m.stk)
<1>1. m.stk \in Seq(V) /\ \A i \in DOMAIN m.stk : Known(V, m, m.stk[i])
  BY DEF IsMachine
<1>2. run \in Seq(V)
  <2>1. S \subseteq V
    OBVIOUS
  <2> QED
    BY <2>1, SeqMonotonic
<1>3. /\ N \in Nat /\ DOMAIN m.stk = 1..N
      /\ Len(run) \in Nat /\ \A i \in 1..Len(run) : run[i] \in S
  BY <1>1, LenProperties, ElementOfSeq
<1>4. /\ stk \in Seq(V) /\ Len(stk) = N + Len(run)
      /\ \A i \in 1..N + Len(run) : stk[i] = IF i <= N THEN m.stk[i] ELSE run[i - N]
  BY <1>1, <1>2, ConcatProperties
<1>5. DOMAIN stk = 1..N + Len(run)
  BY <1>4, LenProperties
<1>6. [m EXCEPT !.stk = @ \o run] = [stk |-> stk, dicts |-> m.dicts, heap |-> m.heap]
  BY MachineExcept
<1> HIDE DEF stk, N
<1>7. \A i \in DOMAIN stk : Known(V, m, stk[i])
  <2> TAKE i \in DOMAIN stk
  <2>1. CASE i <= N
    <3>1. i \in DOMAIN m.stk /\ stk[i] = m.stk[i]
      BY <1>3, <1>4, <1>5, <2>1
    <3> QED
      BY <1>1, <3>1
  <2>2. CASE ~(i <= N)
    <3>1. i - N \in 1..Len(run) /\ stk[i] = run[i - N]
      BY <1>3, <1>4, <1>5, <2>2
    <3> QED
      BY <1>3, <3>1 DEF Known
  <2> QED
    BY <2>1, <2>2
<1>8. m.dicts \in Seq(DOMAIN m.heap)
  BY DEF IsMachine
<1> QED
  BY <1>4, <1>6, <1>7, <1>8, StacksMachine

-----------------------------------------------------------------------------
(* The invariant of Encodings. *)

LEMMA MapInitInv ==
    ASSUME Map!EncodingsAssumption, Map!Init
    PROVE  Map!Inv
<1>1. /\ font \in [encoding : Encodings, toUnicode : BOOLEAN]
      /\ enc = "none" /\ ps = Start /\ read = 0 /\ odd = 0 /\ listed = {}
      /\ section = [op |-> "none", base |-> 0]
  BY PartsSame DEF Map!Init
<1>2. cm = [status |-> "new", n |-> -1, space |-> << >>, bfchar |-> << >>, bfrange |-> << >>]
  BY DEF Map!Init, Map!StartReading
<1>3. Map!IsReading(cm)
  <2>1. << >> \in Seq(SpaceSet) /\ << >> \in Seq(CharSet) /\ << >> \in Seq(RangeSet)
        /\ DOMAIN << >> = {}
    BY EmptySeq
  <2>2. /\ cm.status = "new" /\ cm.n = -1 /\ cm.space = << >>
        /\ cm.bfchar = << >> /\ cm.bfrange = << >>
    BY <1>2
  <2>3. cm = [status |-> cm.status, n |-> cm.n, space |-> cm.space,
              bfchar |-> cm.bfchar, bfrange |-> cm.bfrange]
    BY <1>2
  <2>4. cm.status \in {"new", "reading", "bad", "panicked"} /\ cm.n \in Int
    BY <2>2
  <2>5. /\ cm.space \in Seq(SpaceSet) /\ \A i \in DOMAIN cm.space : Map!IsRange(cm.space[i])
        /\ cm.bfchar \in Seq(CharSet) /\ cm.bfrange \in Seq(RangeSet)
    BY <2>1, <2>2
  <2> QED
    BY <2>3, <2>4, <2>5, ReadingIs
<1>4. Map!IsMachine(Map!MapValue, ps)
  BY <1>1, StartMachine, MachineSame
<1>5. MaxKeywords \in Nat /\ MaxOdd \in Nat
  BY DEF Map!EncodingsAssumption
<1>6. cm.status # "reading" /\ section.base \in Nat
  BY <1>1, <1>2
<1> QED
  BY <1>1, <1>3, <1>4, <1>5, <1>6 DEF Map!Inv, Map!Encoders, Map!HoldsListed

\* What getEncoder chooses without a map.
LEMMA ChosenTyped ==
    ASSUME NEW f
    PROVE  /\ Map!Chosen(f) \in Map!Encoders \ {"none", "cmap"}
           /\ Map!Chosen(f) = "dict" => f.encoding.kind = "dict"
<1>1. CASE Map!AsksForMap(f.encoding)
  BY <1>1 DEF Map!Chosen, Map!Encoders, Map!AsksForMap, Map!TableOf
<1>2. CASE /\ ~Map!AsksForMap(f.encoding) /\ f.encoding.kind = "name"
           /\ f.encoding.name \in DOMAIN Map!TableOf
  <2>1. f.encoding.name \in {"WinAnsiEncoding", "MacRomanEncoding"}
    BY <1>2 DEF Map!TableOf
  <2>2. Map!Chosen(f) = Map!TableOf[f.encoding.name]
    BY <1>2 DEF Map!Chosen
  <2>3. Map!TableOf[f.encoding.name] \in {"winansi", "macroman"}
    BY <2>1 DEF Map!TableOf
  <2> QED
    BY <2>2, <2>3 DEF Map!Encoders
<1>3. CASE /\ ~Map!AsksForMap(f.encoding)
           /\ ~(f.encoding.kind = "name" /\ f.encoding.name \in DOMAIN Map!TableOf)
  <2>1. Map!Chosen(f) = IF f.encoding.kind = "dict" THEN "dict" ELSE "nop"
    BY <1>3 DEF Map!Chosen
  <2> QED
    BY <2>1 DEF Map!Encoders
<1> QED
  BY <1>1, <1>2, <1>3

\* Values that are written are no dictionaries.
LEMMA WrittenValues ==
    \A v \in Map!Written : v \in Map!MapValue /\ v.kind # "dict"
BY DEF Map!Written, Map!Element, Map!MapValue

\* What a keyword leaves of the machine and of the reading.
KeywordGood ==
    /\ IsMachine(Map!MapValue, ps') /\ Map!IsReading(cm')
    /\ cm'.status \in {"reading", "bad", "panicked"}

\* The map holds what it held, and what the keyword lists in its place.
KeywordHolds(m, kw) ==
    (cm'.status = "reading" /\ Map!InOrder(m, kw)) =>
        /\ cm.status = "reading"
        /\ Map!Held(cm') =
               Map!Held(cm) \cup (IF kw \in Map!Ends
                                  THEN Map!ListedBy(kw, Map!SinceBegin(m)) ELSE {})

LEMMA PanickedGood ==
    ASSUME Map!IsReading(cm), Map!Panicked
    PROVE  KeywordGood /\ cm'.status = "panicked"
<1>1. cm' = Map!Refused(cm, "panicked") /\ ps' = Start
  BY PartsSame DEF Map!Panicked
<1> QED
  BY <1>1, RefusedReading, StartMachine DEF KeywordGood

LEMMA MapKeywordStep ==
    ASSUME Map!EncodingsAssumption, Map!IsReading(cm), Map!Interpreting,
           section.base \in Nat, NEW m, IsMachine(Map!MapValue, m), NEW kw,
           \/ Map!BuiltinKeyword(m, kw)
           \/ Map!DefinedKeyword(m, kw)
           \/ Map!Operator(m, kw)
    PROVE  KeywordGood /\ KeywordHolds(m, kw)
<1>1. cm.status \in {"reading", "bad"}
  BY DEF Map!Interpreting
<1>2. CASE Map!BuiltinKeyword(m, kw)
  <2>1. kw \in Builtins /\ kw \notin Map!Ends
    BY <1>2 DEF Map!BuiltinKeyword, Map!Builtins, Builtins, Map!Ends
  <2>2. CASE BuiltinPanics(m, kw)
    <3>1. Map!Panicked
      BY <1>2, <2>2, PartsSame DEF Map!BuiltinKeyword
    <3> QED
      BY <3>1, PanickedGood DEF KeywordHolds
  <2>3. CASE ~BuiltinPanics(m, kw)
    <3>1. ps' = AfterBuiltin(m, kw) /\ cm' = cm
      BY <1>2, <2>1, <2>3, PartsSame, BuiltinSame DEF Map!BuiltinKeyword
    <3>2. IsMachine(Map!MapValue, ps')
      BY <2>1, <2>3, <3>1, BuiltinMachine, MapHasDicts
    <3> QED
      BY <1>1, <2>1, <3>1, <3>2 DEF KeywordGood, KeywordHolds
  <2> QED
    BY <2>2, <2>3
<1>3. CASE Map!DefinedKeyword(m, kw)
  <2>1. Defining(m, kw) # {} /\ ps' = Push(m, Meaning(m, kw)) /\ cm' = cm
    BY <1>3, PartsSame DEF Map!DefinedKeyword
  <2>2. IsMachine(Map!MapValue, ps')
    BY <2>1, MeaningKnown, PushMachine
  <2>3. ~Map!InOrder(m, kw)
    BY <2>1, PartsSame DEF Map!InOrder
  <2> QED
    BY <1>1, <2>1, <2>2, <2>3 DEF KeywordGood, KeywordHolds
<1>4. CASE Map!Operator(m, kw)
  <2>1. CASE cm.status = "bad"
    <3>1. ps' = m /\ cm' = cm
      BY <1>4, <2>1 DEF Map!Operator
    <3> QED
      BY <2>1, <3>1 DEF KeywordGood, KeywordHolds
  <2>2. CASE cm.status = "reading"
    <3>1. /\ ps' = Map!MachineAfter(m, cm, kw)
          /\ cm' = Map!ReadingAfter(m, cm, kw)
      BY <1>4, <2>2 DEF Map!Operator
    <3>2. KeywordGood
      BY <2>2, <3>1, ReadingAfterOK, MachineAfterOK DEF KeywordGood
    <3>3. ASSUME cm'.status = "reading", Map!InOrder(m, kw)
          PROVE  Map!Held(cm') =
                     Map!Held(cm) \cup (IF kw \in Map!Ends
                                        THEN Map!ListedBy(kw, Map!SinceBegin(m)) ELSE {})
      <4>1. kw \in Map!Ends => /\ Len(m.stk) >= section.base
                               /\ Len(Map!SinceBegin(m)) = Map!Arity(kw) * cm.n
        BY <3>3 DEF Map!InOrder, Map!Begins, Map!Ends
      <4> QED
        BY <2>2, <3>1, <3>3, <4>1, HeldAfter
    <3> QED
      BY <2>2, <3>2, <3>3 DEF KeywordHolds
  <2> QED
    BY <1>1, <2>1, <2>2
<1> QED
  BY <1>2, <1>3, <1>4

LEMMA MapKeywordInv ==
    ASSUME Map!EncodingsAssumption, Map!Inv, Map!Keyword
    PROVE  Map!Inv'
<1>1. /\ font \in [encoding : Encodings, toUnicode : BOOLEAN] /\ enc \in Map!Encoders
      /\ IsMachine(Map!MapValue, ps) /\ Map!IsReading(cm)
      /\ read \in 0..MaxKeywords /\ odd \in 0..MaxOdd /\ section.base \in Nat
      /\ Map!HoldsListed
  BY MachineSame DEF Map!Inv
<1>2. PICK kw \in DOMAIN OperandRuns :
          \E run \in OperandRuns[kw] :
             LET m == [ps EXCEPT !.stk = @ \o run]
             IN /\ \/ Map!BuiltinKeyword(m, kw)
                   \/ Map!DefinedKeyword(m, kw)
                   \/ Map!Operator(m, kw)
                /\ Map!Note(m, kw)
  BY DEF Map!Keyword
<1>2a. PICK run \in OperandRuns[kw] :
             LET m == [ps EXCEPT !.stk = @ \o run]
             IN /\ \/ Map!BuiltinKeyword(m, kw)
                   \/ Map!DefinedKeyword(m, kw)
                   \/ Map!Operator(m, kw)
                /\ Map!Note(m, kw)
  BY <1>2
<1> DEFINE m == [ps EXCEPT !.stk = @ \o run]
<1>3. run \in Seq(Map!Written) /\ MaxKeywords \in Nat /\ MaxOdd \in Nat
  BY DEF Map!EncodingsAssumption
<1>4. IsMachine(Map!MapValue, m)
  BY <1>1, <1>3, WrittenValues, WithOperandsMachine
<1>5. /\ \/ Map!BuiltinKeyword(m, kw)
         \/ Map!DefinedKeyword(m, kw)
         \/ Map!Operator(m, kw)
      /\ Map!Note(m, kw)
  BY <1>2a
<1>6. /\ Map!Interpreting /\ read < MaxKeywords /\ read' = read + 1
      /\ font' = font /\ enc' = enc /\ enc = "none"
  BY DEF Map!Keyword, Map!Interpreting
<1> HIDE DEF m
<1>7. KeywordGood /\ KeywordHolds(m, kw)
  BY <1>1, <1>4, <1>5, <1>6, MapKeywordStep
<1>8. section'.base \in Nat
  <2>1. Len(Map!Popped(m).stk) \in Nat
    <3>1. Map!Popped(m).stk \in Seq(Map!MapValue)
      BY <1>4, PartsSame, PoppedMachine DEF IsMachine
    <3> QED
      BY <3>1, LenProperties
  <2>2. CASE kw \in Map!Begins
    <3>1. section' = [op |-> kw, base |-> Len(Map!Popped(m).stk)]
      BY <1>5, <2>2 DEF Map!Note, Map!Begins, Map!Ends
    <3> QED
      BY <2>1, <3>1
  <2>3. CASE kw \in Map!Ends
    <3>1. section' = [op |-> "none", base |-> 0]
      BY <1>5, <2>3 DEF Map!Note, Map!Begins, Map!Ends
    <3> QED
      BY <3>1
  <2>4. CASE kw \notin Map!Begins \cup Map!Ends
    <3>1. section' = section
      BY <1>5, <2>4 DEF Map!Note
    <3> QED
      BY <1>1, <3>1
  <2> QED
    BY <2>2, <2>3, <2>4
<1>9. /\ odd' = (IF Map!InOrder(m, kw) THEN odd ELSE odd + 1) /\ odd' <= MaxOdd
      /\ listed' = IF kw \in Map!Ends /\ Map!InOrder(m, kw)
                   THEN listed \cup Map!ListedBy(kw, Map!SinceBegin(m)) ELSE listed
  BY <1>5 DEF Map!Note
<1>10. odd' \in 0..MaxOdd /\ read' \in 0..MaxKeywords
  BY <1>1, <1>3, <1>6, <1>9
<1>11. Map!HoldsListed'
  <2>1. cm'.status # "new"
    BY <1>7 DEF KeywordGood
  <2>2. ASSUME odd' = 0, cm'.status = "reading" PROVE listed' = Map!Held(cm')
    <3>1. Map!InOrder(m, kw) /\ odd = 0
      BY <1>1, <1>9, <2>2
    <3>2. /\ cm.status = "reading"
          /\ Map!Held(cm') =
               Map!Held(cm) \cup (IF kw \in Map!Ends
                                  THEN Map!ListedBy(kw, Map!SinceBegin(m)) ELSE {})
      BY <1>7, <2>2, <3>1 DEF KeywordHolds
    <3>3. listed = Map!Held(cm)
      BY <1>1, <3>1, <3>2 DEF Map!HoldsListed
    <3> QED
      BY <1>9, <3>1, <3>2, <3>3
  <2> QED
    BY <2>1, <2>2 DEF Map!HoldsListed
<1>12. Map!IsMachine(Map!MapValue, ps)' /\ Map!IsReading(cm)'
  BY <1>7, MachineSame DEF KeywordGood
<1> QED
  BY <1>1, <1>6, <1>8, <1>10, <1>11, <1>12 DEF Map!Inv

LEMMA MapStepInv ==
    ASSUME Map!EncodingsAssumption, Map!Inv, [Map!Next]_(Map!vars)
    PROVE  Map!Inv'
<1>1. /\ font \in [encoding : Encodings, toUnicode : BOOLEAN] /\ enc \in Map!Encoders
      /\ IsMachine(Map!MapValue, ps) /\ Map!IsReading(cm)
      /\ read \in 0..MaxKeywords /\ odd \in 0..MaxOdd /\ section.base \in Nat
      /\ Map!HoldsListed
      /\ enc = "dict" => font.encoding.kind = "dict"
      /\ enc = "cmap" => cm.status = "reading"
  BY MachineSame DEF Map!Inv
<1>2. CASE Map!WithoutMap
  <2>1. /\ enc' = Map!Chosen(font)
        /\ UNCHANGED <<font, ps, cm, read, section, odd, listed>>
    BY <1>2 DEF Map!WithoutMap, Map!noted
  <2>2. /\ enc' \in Map!Encoders /\ enc' # "cmap"
        /\ enc' = "dict" => font.encoding.kind = "dict"
    BY <2>1, ChosenTyped
  <2> QED
    BY <1>1, <2>1, <2>2, MachineSame DEF Map!Inv, Map!HoldsListed
<1>3. CASE Map!StartMap
  <2>1. /\ cm.status = "new" /\ enc = "none"
        /\ cm' \in {Map!StartReading, [Map!StartReading EXCEPT !.status = "panicked"]}
        /\ UNCHANGED <<font, enc, ps, read, section, odd, listed>>
    BY <1>3 DEF Map!StartMap, Map!noted
  <2>2. /\ cm' = [status |-> cm'.status, n |-> cm'.n, space |-> cm'.space,
                  bfchar |-> cm'.bfchar, bfrange |-> cm'.bfrange]
        /\ cm'.status \in {"reading", "panicked"} /\ cm'.n = -1
        /\ cm'.space = << >> /\ cm'.bfchar = << >> /\ cm'.bfrange = << >>
    BY <2>1 DEF Map!StartReading
  <2>3. << >> \in Seq(SpaceSet) /\ << >> \in Seq(CharSet) /\ << >> \in Seq(RangeSet)
        /\ DOMAIN << >> = {}
    BY EmptySeq
  <2>4. Map!IsReading(cm')
    <3>1. cm'.status \in {"new", "reading", "bad", "panicked"} /\ cm'.n \in Int
      BY <2>2
    <3>2. /\ cm'.space \in Seq(SpaceSet) /\ \A i \in DOMAIN cm'.space : Map!IsRange(cm'.space[i])
          /\ cm'.bfchar \in Seq(CharSet) /\ cm'.bfrange \in Seq(RangeSet)
      BY <2>2, <2>3
    <3> QED
      BY <2>2, <3>1, <3>2, ReadingIs
  <2>5. Map!Held(cm') = {}
    BY <2>2, <2>3, HeldIs DEF CharsHeld, RangesHeld
  <2>6. listed' = {}
    BY <1>1, <2>1 DEF Map!HoldsListed
  <2>7. Map!HoldsListed'
    BY <2>2, <2>5, <2>6 DEF Map!HoldsListed
  <2> QED
    BY <1>1, <2>1, <2>4, <2>7, MachineSame DEF Map!Inv
<1>4. CASE Map!Malformed
  <2>1. /\ Map!Panicked /\ enc = "none"
        /\ UNCHANGED <<font, enc, read, section, odd, listed>>
    BY <1>4 DEF Map!Malformed, Map!Interpreting, Map!noted
  <2>2. KeywordGood /\ cm'.status = "panicked"
    BY <1>1, <2>1, PanickedGood
  <2>3. Map!HoldsListed'
    BY <2>2 DEF Map!HoldsListed
  <2> QED
    BY <1>1, <2>1, <2>2, <2>3, MachineSame DEF Map!Inv, KeywordGood
<1>5. CASE Map!Keyword
  BY <1>5, MapKeywordInv
<1>6. CASE Map!Finish
  <2>1. /\ cm.status \in {"reading", "bad"}
        /\ enc' = (IF cm.status = "bad" THEN "nop" ELSE "cmap")
        /\ UNCHANGED <<font, ps, cm, read, section, odd, listed>>
    BY <1>6 DEF Map!Finish, Map!Interpreting, Map!noted
  <2>2. enc' \in Map!Encoders /\ enc' # "dict" /\ (enc' = "cmap" => cm.status = "reading")
    BY <2>1 DEF Map!Encoders
  <2> QED
    BY <1>1, <2>1, <2>2, MachineSame DEF Map!Inv, Map!HoldsListed
<1>7. CASE UNCHANGED (Map!vars)
  BY <1>1, <1>7, MachineSame DEF Map!Inv, Map!HoldsListed, Map!vars
<1> QED
  BY <1>2, <1>3, <1>4, <1>5, <1>6, <1>7 DEF Map!Next

\* For any fonts and any programs of a character map: what getEncoder returns, what is
\* held of the map and the machine that reads it are of their types, and a map that
\* was found bad, or whose reading panicked, is no encoder (page.go 445 to 542).
THEOREM MapTypeCorrect ==
    ASSUME Map!EncodingsAssumption
    PROVE  Map!Spec => []Map!TypeOK
<1>1. Map!Init => Map!Inv
  BY MapInitInv
<1>2. Map!Inv /\ [Map!Next]_(Map!vars) => Map!Inv'
  BY MapStepInv
<1>3. Map!Inv => Map!TypeOK
  <2> SUFFICES ASSUME Map!Inv PROVE Map!TypeOK
    OBVIOUS
  <2>1. Map!IsReading(cm) /\ IsMachine(Map!MapValue, ps)
    BY MachineSame DEF Map!Inv
  <2>2. /\ cm.status \in {"new", "reading", "bad", "panicked"} /\ cm.n \in Int
        /\ \A i \in DOMAIN cm.space : Map!IsRange(cm.space[i])
    BY <2>1, ReadingIs
  <2>3. \A i \in DOMAIN ps.dicts : ps.dicts[i] \in DOMAIN ps.heap
    BY <2>1 DEF IsMachine
  <2> QED
    BY <2>2, <2>3 DEF Map!Inv, Map!TypeOK
<1> QED
  BY <1>1, <1>2, <1>3, PTL DEF Map!Spec

-----------------------------------------------------------------------------
(* The encoders without a map. *)

LEMMA FlattenSame ==
    ASSUME NEW s
    PROVE  Map!FlattenSeq(s) = FlattenSeq(s)
BY DEF Map!FlattenSeq, FlattenSeq

LEMMA CardinalitySame ==
    ASSUME NEW S
    PROVE  Map!Cardinality(S) = Cardinality(S)
BY DEF Map!Cardinality, Cardinality

\* The runes that dictEncoder may show for the byte b.
Runes(d, b) == {<<b>>} \cup {<<"glyph", d[j].name>> : j \in DOMAIN d}

\* f[i] is where dictEncoder is after the first i elements of d.
Places(f, d, b) ==
    /\ \A i \in 0..Len(d) : f[i] \in [n : Int, rune : Runes(d, b)]
    /\ f[0] = [n |-> -1, rune |-> <<b>>]
    /\ \A i \in 1..Len(d) : f[i] = Map!AfterDifference(b, f[i - 1], d[i])
    /\ Map!DecodeByte(d, b) = f[Len(d)].rune

LEMMA AfterDifferenceTyped ==
    ASSUME NEW d \in Seq(Map!Difference), NEW b, NEW i \in 1..Len(d),
           NEW acc \in [n : Int, rune : Runes(d, b)]
    PROVE  Map!AfterDifference(b, acc, d[i]) \in [n : Int, rune : Runes(d, b)]
<1>1. d[i] \in Map!Difference /\ i \in DOMAIN d
  BY LenProperties, ElementOfSeq
<1>2. d[i].kind = "num" => d[i].n \in Int
  BY <1>1 DEF Map!Difference
<1>3. <<"glyph", d[i].name>> \in Runes(d, b)
  BY <1>1 DEF Runes
<1>4. acc.n \in Int /\ acc.rune \in Runes(d, b) /\ acc.n + 1 \in Int
  OBVIOUS
<1> QED
  BY <1>2, <1>3, <1>4 DEF Map!AfterDifference

LEMMA PlacesBuilt ==
    ASSUME NEW d \in Seq(Map!Difference), NEW b
    PROVE  \E f : Places(f, d, b)
<1> DEFINE N == Len(d)
           C == [n : Int, rune : Runes(d, b)]
           Step(i, q) == Map!AfterDifference(b, q, d[i])
           base == [n |-> -1, rune |-> <<b>>]
           Rec(f) == f = [i \in 0..N |-> IF i = 0 THEN base ELSE Step(i, f[i - 1])]
           step == [i \in 1..N |-> [q \in C |-> Step(i, q)]]
<1>1. N \in Nat
  BY LenProperties
<1>2. base \in C
  BY DEF Runes
<1>3. \A i \in 1..N, q \in C : Step(i, q) \in C
  BY AfterDifferenceTyped
<1>4. Map!DecodeByte(d, b) = (CHOOSE g : Rec(g))[N].rune
  BY DEF Map!DecodeByte
<1> HIDE DEF C, Step, N, base
<1>5. step \in [1..N -> [C -> C]]
  BY <1>3
<1>6. \A i \in 1..N, q \in C : step[i][q] = Step(i, q)
  OBVIOUS
<1> HIDE DEF step
<1>7. PICK f : TakesSteps(f, N, C, base, step)
  BY <1>1, <1>2, <1>5, RecursionExists
<1>8. \A i \in 0..N : i # 0 => i \in 1..N /\ i - 1 \in 0..N
  BY <1>1
<1>9. \A i \in 0..N : f[i] = IF i = 0 THEN base ELSE Step(i, f[i - 1])
  BY <1>6, <1>7, <1>8 DEF TakesSteps
<1>10. Rec(f)
  BY <1>7, <1>9 DEF TakesSteps
<1> DEFINE g == CHOOSE g : Rec(g)
<1>11. Rec(g)
  BY <1>10
<1> HIDE DEF g
<1>12. \A i \in 0..N : g[i] = IF i = 0 THEN base ELSE Step(i, g[i - 1])
  BY <1>11
<1>13. Map!DecodeByte(d, b) = g[N].rune
  BY <1>4 DEF g
<1> HIDE DEF Rec
<1>14. \A i \in 1..N : i \in 0..N /\ i # 0
  BY <1>1
<1>15. \A i \in 1..N : g[i - 1] \in C => g[i] \in C
  BY <1>3, <1>12, <1>14
<1>16. 0 \in 0..N /\ g[0] = base
  BY <1>1, <1>12
<1>17. \A i \in 0..N : g[i] \in C
  BY <1>1, <1>2, <1>15, <1>16, RecursionTyped
<1>18. \A i \in 1..N : g[i] = Map!AfterDifference(b, g[i - 1], d[i])
  BY <1>12, <1>14 DEF Step
<1> QED
  BY <1>13, <1>16, <1>17, <1>18 DEF N, base, C, Places

\* The place of the next element of Differences.
LEMMA PlaceNext ==
    ASSUME NEW d \in Seq(Map!Difference)
    PROVE  /\ Map!Place(d, 1) = -1
           /\ \A i \in 1..Len(d) :
                 /\ Map!Place(d, i) \in Int
                 /\ d[i].kind = "num" => Map!Place(d, i + 1) = d[i].n
                 /\ d[i].kind = "name" => Map!Place(d, i + 1) = Map!Place(d, i) + 1
                 /\ d[i].kind \notin {"num", "name"} => Map!Place(d, i + 1) = Map!Place(d, i)
<1> DEFINE numbers(j) == {i \in 1..j - 1 : d[i].kind = "num"}
           start(j) == IF numbers(j) = {} THEN 0 ELSE Map!Max(numbers(j))
           names(j) == {i \in start(j) + 1..j - 1 : d[i].kind = "name"}
<1>1. \A j : Map!Place(d, j) =
                (IF start(j) = 0 THEN -1 ELSE d[start(j)].n) + Cardinality(names(j))
  BY CardinalitySame DEF Map!Place
<1>2. Len(d) \in Nat /\ \A i \in 1..Len(d) : d[i].kind = "num" => d[i].n \in Int
  <2>1. \A i \in 1..Len(d) : d[i] \in Map!Difference
    BY ElementOfSeq
  <2> QED
    BY <2>1, LenProperties DEF Map!Difference
<1>3. ASSUME NEW j \in 1..Len(d) + 1
      PROVE  /\ start(j) \in 0..j - 1
             /\ start(j) # 0 => start(j) \in numbers(j) /\ \A i \in numbers(j) : i <= start(j)
             /\ start(j) = 0 => numbers(j) = {}
             /\ names(j) \in SUBSET (1..j - 1) /\ Cardinality(names(j)) \in Nat
             /\ IsFiniteSet(names(j))
  <2>1. /\ start(j) \in 0..j - 1
        /\ start(j) # 0 => start(j) \in numbers(j) /\ \A i \in numbers(j) : i <= start(j)
        /\ start(j) = 0 => numbers(j) = {}
    <3> SUFFICES ASSUME numbers(j) # {}
                 PROVE  /\ start(j) \in 1..j - 1 /\ start(j) \in numbers(j)
                        /\ \A i \in numbers(j) : i <= start(j)
      BY <1>2
    <3>1. numbers(j) \in SUBSET (1..j - 1) /\ j - 1 \in Nat
      BY <1>2
    <3> HIDE DEF numbers
    <3>2. PICK x \in numbers(j) : \A y \in numbers(j) : y <= x
      BY <3>1, GreatestOfSet
    <3>3. Map!Max(numbers(j)) \in numbers(j)
          /\ \A y \in numbers(j) : y <= Map!Max(numbers(j))
      BY <3>1, <3>2 DEF Map!Max
    <3> QED
      BY <3>1, <3>3
  <2>2. names(j) \in SUBSET (1..j - 1)
    <3> HIDE DEF start
    <3> QED
      BY <2>1
  <2> HIDE DEF names, start, numbers
  <2>3. IsFiniteSet(1..j - 1)
    BY <1>2, FS_Interval
  <2>4. IsFiniteSet(names(j))
    BY <2>2, <2>3, FS_Subset
  <2>5. Cardinality(names(j)) \in Nat
    BY <2>4, FS_CardinalityType
  <2> QED
    BY <2>1, <2>2, <2>4, <2>5
<1>4. Map!Place(d, 1) = -1
  <2>1. start(1) = 0 /\ names(1) = {}
    OBVIOUS
  <2> HIDE DEF start, names
  <2>2. Cardinality(names(1)) = 0
    BY <2>1, FS_EmptySet
  <2>3. Map!Place(d, 1) = (IF start(1) = 0 THEN -1 ELSE d[start(1)].n) + Cardinality(names(1))
    BY <1>1, Zenon
  <2> QED
    BY <2>1, <2>2, <2>3
<1>5. ASSUME NEW i \in 1..Len(d)
      PROVE  /\ Map!Place(d, i) \in Int
             /\ d[i].kind = "num" => Map!Place(d, i + 1) = d[i].n
             /\ d[i].kind = "name" => Map!Place(d, i + 1) = Map!Place(d, i) + 1
             /\ d[i].kind \notin {"num", "name"} => Map!Place(d, i + 1) = Map!Place(d, i)
  <2>1. i \in 1..Len(d) + 1 /\ i + 1 \in 1..Len(d) + 1 /\ (i + 1) - 1 = i
    BY <1>2
  <2>2. \A k : k \in 1..(i + 1) - 1 <=> k \in 1..i - 1 \/ k = i
    BY <2>1
  <2>3. d[i].kind = "num" => numbers(i + 1) = numbers(i) \cup {i}
    BY <2>2
  <2>4. d[i].kind # "num" => numbers(i + 1) = numbers(i)
    BY <2>2
  <2>5. i \notin numbers(i) /\ i \in Nat \ {0}
    BY <2>1
  <2>6. /\ start(i) \in 0..i - 1
        /\ names(i) \in SUBSET (1..i - 1) /\ Cardinality(names(i)) \in Nat
        /\ IsFiniteSet(names(i))
        /\ start(i) # 0 => start(i) \in numbers(i)
    BY <1>3, <2>1
  <2>7. start(i) # 0 => d[start(i)].n \in Int
    <3>1. start(i) # 0 => d[start(i)].kind = "num" /\ start(i) \in 1..Len(d)
      <4> HIDE DEF start
      <4> QED
        BY <2>1, <2>6
    <3> QED
      BY <1>2, <3>1
  <2>8. Map!Place(d, i) \in Int
    <3> HIDE DEF start, names
    <3> QED
      BY <1>1, <2>6, <2>7
  <2>9. CASE d[i].kind = "num"
    <3>1. /\ start(i + 1) \in 0..i
          /\ start(i + 1) # 0 => start(i + 1) \in numbers(i + 1)
                                 /\ \A k \in numbers(i + 1) : k <= start(i + 1)
          /\ start(i + 1) = 0 => numbers(i + 1) = {}
      BY <1>3, <2>1
    <3>2. start(i + 1) = i
      <4>1. i \in numbers(i + 1)
        BY <2>3, <2>9
      <4> HIDE DEF start, numbers
      <4>2. start(i + 1) # 0
        BY <3>1, <4>1
      <4>3. start(i + 1) \in 0..i /\ i <= start(i + 1)
        BY <3>1, <4>1, <4>2
      <4> QED
        BY <4>3
    <3>3. names(i + 1) = {}
      <4> HIDE DEF start
      <4> QED
        BY <2>1, <3>2
    <3>4. Map!Place(d, i + 1) = d[i].n + 0
      <4> HIDE DEF start, names
      <4>1. Cardinality(names(i + 1)) = 0 /\ start(i + 1) # 0
        BY <2>5, <3>2, <3>3, FS_EmptySet
      <4>2. Map!Place(d, i + 1) =
                (IF start(i + 1) = 0 THEN -1 ELSE d[start(i + 1)].n) + Cardinality(names(i + 1))
        BY <1>1, Zenon
      <4> QED
        BY <3>2, <4>1, <4>2
    <3> QED
      BY <1>2, <2>8, <2>9, <3>4
  <2>10. CASE d[i].kind # "num"
    <3>1. start(i + 1) = start(i)
      BY <2>4, <2>10
    <3>2. CASE d[i].kind = "name"
      <4>1. names(i + 1) = names(i) \cup {i} /\ i \notin names(i)
        <5> HIDE DEF start
        <5> QED
          BY <2>1, <2>6, <3>1, <3>2
      <4> HIDE DEF names, start, numbers
      <4>2. Cardinality(names(i + 1)) = Cardinality(names(i)) + 1
        BY <2>6, <4>1, FS_AddElement
      <4>3. Map!Place(d, i + 1) = Map!Place(d, i) + 1
        BY <1>1, <2>6, <2>7, <3>1, <4>2
      <4> QED
        BY <2>8, <3>2, <4>3
    <3>3. CASE d[i].kind # "name"
      <4>1. names(i + 1) = names(i)
        <5> HIDE DEF start
        <5> QED
          BY <2>1, <2>6, <3>1, <3>3
      <4> HIDE DEF names, start, numbers
      <4>2. Map!Place(d, i + 1) = Map!Place(d, i)
        BY <1>1, <3>1, <4>1
      <4> QED
        BY <2>8, <2>10, <3>3, <4>2
    <3> QED
      BY <3>2, <3>3
  <2> QED
    BY <2>9, <2>10
<1> QED
  BY <1>4, <1>5

\* The names among the first i elements of d that stand for a rune, at the place b.
At(d, b, i) ==
    {j \in 1..i : d[j].kind = "name" /\ d[j].name \in KnownNames /\ Map!Place(d, j) = b}

\* The first of them is shown, or else the byte.
FirstAt(d, b, i) ==
    IF At(d, b, i) = {} THEN <<b>> ELSE <<"glyph", d[Map!Min(At(d, b, i))].name>>

LEMMA FirstAtNext ==
    ASSUME NEW d \in Seq(Map!Difference), NEW b, NEW i \in 1..Len(d)
    PROVE  FirstAt(d, b, i) =
               IF /\ d[i].kind = "name" /\ d[i].name \in KnownNames
                  /\ Map!Place(d, i) = b /\ Len(FirstAt(d, b, i - 1)) = 1
               THEN <<"glyph", d[i].name>> ELSE FirstAt(d, b, i - 1)
<1> DEFINE new == d[i].kind = "name" /\ d[i].name \in KnownNames /\ Map!Place(d, i) = b
<1>1. Len(d) \in Nat
  BY LenProperties
<1>2. At(d, b, i) = At(d, b, i - 1) \cup (IF new THEN {i} ELSE {})
  <2>1. \A k : k \in 1..i <=> k \in 1..i - 1 \/ k = i
    BY <1>1
  <2> QED
    BY <2>1 DEF At
<1>3. At(d, b, i - 1) \in SUBSET (1..i - 1)
  BY DEF At
<1>4. Len(FirstAt(d, b, i - 1)) = 1 <=> At(d, b, i - 1) = {}
  BY DEF FirstAt
<1> HIDE DEF new
<1>5. CASE ~new
  <2>1. At(d, b, i) = At(d, b, i - 1)
    BY <1>2, <1>5
  <2> QED
    BY <1>5, <2>1 DEF FirstAt, new
<1>6. CASE new /\ At(d, b, i - 1) = {}
  <2>1. At(d, b, i) = {i}
    BY <1>2, <1>6
  <2>2. Map!Min({i}) = i
    BY <1>1 DEF Map!Min
  <2> QED
    BY <1>4, <1>6, <2>1, <2>2 DEF FirstAt, new
<1>7. CASE new /\ At(d, b, i - 1) # {}
  <2> DEFINE S == At(d, b, i - 1)
             T == At(d, b, i)
  <2>1. S \in SUBSET Nat /\ T \in SUBSET Nat /\ T = S \cup {i} /\ S # {} /\ T # {}
        /\ \A k \in S : k < i
    BY <1>1, <1>2, <1>3, <1>7
  <2> HIDE DEF S, T
  <2>2. Map!Min(S) \in S /\ \A y \in S : Map!Min(S) <= y
    BY <2>1, MapMinIs
  <2>3. Map!Min(T) \in T /\ \A y \in T : Map!Min(T) <= y
    BY <2>1, MapMinIs
  <2>4. Map!Min(T) = Map!Min(S)
    <3> DEFINE x == Map!Min(S)
               y == Map!Min(T)
    <3>1. x \in S /\ x \in T /\ y \in T /\ y <= x
      BY <2>1, <2>2, <2>3
    <3>2. x \in Nat /\ y \in Nat /\ x < i
      BY <2>1, <3>1
    <3>3. y \in S
      BY <2>1, <3>1, <3>2
    <3>4. x <= y
      BY <2>2, <3>3
    <3> HIDE DEF x, y
    <3>5. x = y
      BY <3>1, <3>2, <3>4
    <3> QED
      BY <3>5 DEF x, y
  <2>5. FirstAt(d, b, i) = FirstAt(d, b, i - 1)
    BY <2>1, <2>4 DEF FirstAt, S, T
  <2> QED
    BY <1>4, <1>7, <2>5
<1> QED
  BY <1>5, <1>6, <1>7

\* dictEncoder shows a byte as the first known name at its place.
LEMMA DecodeByteIs ==
    ASSUME NEW d \in Seq(Map!Difference), NEW b
    PROVE  Map!DecodeByte(d, b) = FirstAt(d, b, Len(d))
<1> DEFINE N == Len(d)
<1>1. PICK f : Places(f, d, b)
  BY PlacesBuilt
<1> DEFINE T == {i \in Nat : i <= N =>
                    f[i] = [n |-> Map!Place(d, i + 1), rune |-> FirstAt(d, b, i)]}
<1>2. N \in Nat /\ DOMAIN d = 1..N
  BY LenProperties
<1>3. 0 \in T
  <2>1. At(d, b, 0) = {}
    BY DEF At
  <2>2. FirstAt(d, b, 0) = <<b>> /\ 0 + 1 = 1
    BY <2>1 DEF FirstAt
  <2>3. f[0] = [n |-> Map!Place(d, 0 + 1), rune |-> FirstAt(d, b, 0)]
    BY <1>1, <2>2, PlaceNext DEF Places
  <2> QED
    BY <2>3
<1>4. ASSUME NEW k \in Nat, k \in T PROVE k + 1 \in T
  <2> SUFFICES ASSUME k + 1 <= N
               PROVE  f[k + 1] = [n |-> Map!Place(d, (k + 1) + 1), rune |-> FirstAt(d, b, k + 1)]
    OBVIOUS
  <2> DEFINE i == k + 1
             acc == f[k]
  <2>1. i \in 1..N /\ i - 1 = k
    BY <1>2
  <2>2. acc = [n |-> Map!Place(d, i), rune |-> FirstAt(d, b, i - 1)]
    BY <1>2, <1>4, <2>1
  <2>3. f[i] = Map!AfterDifference(b, acc, d[i])
    BY <1>1, <2>1 DEF Places
  <2> HIDE DEF i, acc
  <2>4. acc.n = Map!Place(d, i) /\ acc.rune = FirstAt(d, b, i - 1)
    BY <2>2
  <2>5. /\ d[i].kind = "num" => Map!Place(d, i + 1) = d[i].n
        /\ d[i].kind = "name" => Map!Place(d, i + 1) = Map!Place(d, i) + 1
        /\ d[i].kind \notin {"num", "name"} => Map!Place(d, i + 1) = Map!Place(d, i)
    BY <2>1, PlaceNext
  <2>6. FirstAt(d, b, i) =
            IF /\ d[i].kind = "name" /\ d[i].name \in KnownNames
               /\ Map!Place(d, i) = b /\ Len(FirstAt(d, b, i - 1)) = 1
            THEN <<"glyph", d[i].name>> ELSE FirstAt(d, b, i - 1)
    BY <2>1, FirstAtNext
  <2>7. f[i] = [n |-> Map!Place(d, i + 1), rune |-> FirstAt(d, b, i)]
    <3>1. CASE d[i].kind = "num"
      BY <2>3, <2>4, <2>5, <2>6, <3>1 DEF Map!AfterDifference
    <3>2. CASE d[i].kind \notin {"num", "name"}
      BY <2>2, <2>3, <2>5, <2>6, <3>2 DEF Map!AfterDifference
    <3>3. CASE d[i].kind = "name"
      BY <2>3, <2>4, <2>5, <2>6, <3>3 DEF Map!AfterDifference
    <3> QED
      BY <3>1, <3>2, <3>3
  <2> QED
    BY <2>7 DEF i
<1> HIDE DEF T
<1>5. Nat \subseteq T
  BY <1>3, <1>4, SetInduction
<1>6. f[N] = [n |-> Map!Place(d, N + 1), rune |-> FirstAt(d, b, N)]
  BY <1>2, <1>5 DEF T
<1> QED
  BY <1>1, <1>6 DEF Places

LEMMA TextsTyped ==
    ASSUME Map!EncodingsAssumption, NEW codes \in Texts
    PROVE  /\ codes \in Seq(Seq(Map!Byte)) /\ Map!FlattenSeq(codes) \in Seq(Map!Byte)
           /\ Map!FlattenSeq(codes) = FlattenSeq(codes)
<1>1. codes \in Seq(Seq(Map!Byte))
  BY DEF Map!EncodingsAssumption
<1>2. FlattenSeq(codes) \in Seq(Map!Byte)
  BY <1>1, EmptySeq, FlattenAppend
<1> QED
  BY <1>1, <1>2, FlattenSame

LEMMA TablesKeep ==
    ASSUME Map!EncodingsAssumption, Map!Inv
    PROVE  Map!TablesKeepBytes
<1> SUFFICES ASSUME enc \notin {"none", "cmap"}, NEW codes \in Texts
             PROVE  LET raw == Map!FlattenSeq(codes)
                        text == Map!Decode(raw, TRUE)
                    IN /\ Len(text) = Len(raw)
                       /\ enc = "dict" =>
                             \A k \in DOMAIN raw :
                                LET d == font.encoding.differences
                                    at == {j \in DOMAIN d : /\ d[j].kind = "name"
                                                            /\ d[j].name \in KnownNames
                                                            /\ Map!Place(d, j) = raw[k]}
                                IN text[k] = IF at = {} THEN <<raw[k]>>
                                             ELSE <<"glyph", d[Map!Min(at)].name>>
  BY DEF Map!TablesKeepBytes
<1> DEFINE raw == Map!FlattenSeq(codes)
           text == Map!Decode(raw, TRUE)
           d == font.encoding.differences
<1>1. raw \in Seq(Map!Byte)
  BY TextsTyped
<1>2. /\ font.encoding \in Encodings /\ enc \in Map!Encoders
      /\ enc = "dict" => font.encoding.kind = "dict"
  BY DEF Map!Inv
<1>3. enc = "dict" => d \in Seq(Map!Difference)
  BY <1>2 DEF Map!EncodingsAssumption, Map!IsEncoding
<1> HIDE DEF raw
<1>4. DOMAIN raw = 1..Len(raw) /\ Len(raw) \in Nat
  BY <1>1, LenProperties
<1>5. CASE enc = "nop"
  <2>1. text = [i \in DOMAIN raw |-> <<raw[i]>>]
    BY <1>5 DEF Map!Decode, Map!Preserved
  <2> HIDE DEF text
  <2>2. Len(text) = Len(raw)
    BY <1>4, <2>1
  <2> QED
    BY <1>5, <2>2 DEF raw, text
<1>6. CASE enc = "dict"
  <2>1. text = [i \in DOMAIN raw |-> Map!DecodeByte(d, raw[i])]
    BY <1>6 DEF Map!Decode, Map!DecodeDict
  <2>2. DOMAIN d = 1..Len(d)
    BY <1>3, <1>6, LenProperties
  <2> HIDE DEF text, d
  <2>3. Len(text) = Len(raw)
    BY <1>4, <2>1
  <2>4. ASSUME NEW k \in DOMAIN raw
        PROVE  LET at == {j \in DOMAIN d : /\ d[j].kind = "name"
                                           /\ d[j].name \in KnownNames
                                           /\ Map!Place(d, j) = raw[k]}
               IN text[k] = IF at = {} THEN <<raw[k]>> ELSE <<"glyph", d[Map!Min(at)].name>>
    <3>1. text[k] = FirstAt(d, raw[k], Len(d))
      BY <1>3, <1>6, <2>1, DecodeByteIs
    <3> QED
      BY <2>2, <3>1 DEF FirstAt, At
  <2> QED
    BY <2>3, <2>4 DEF raw, text, d
<1>7. CASE enc # "nop" /\ enc # "dict"
  <2>1. text = [i \in DOMAIN raw |-> <<enc, raw[i]>>]
    BY <1>7 DEF Map!Decode, Map!DecodeTable
  <2> HIDE DEF text
  <2>2. Len(text) = Len(raw)
    BY <1>4, <2>1
  <2> QED
    BY <1>7, <2>2 DEF raw, text
<1> QED
  BY <1>5, <1>6, <1>7

-----------------------------------------------------------------------------
(* What a map shows for a code. *)

\* The last element of a sequence and those before it.
LEMMA LastAndFront ==
    ASSUME NEW S, NEW s \in Seq(S), s # << >>
    PROVE  /\ Len(s) \in Nat /\ Len(s) >= 1 /\ DOMAIN s = 1..Len(s)
           /\ Map!Last(s) = s[Len(s)] /\ Map!Last(s) \in S
           /\ Map!Front(s) \in Seq(S) /\ Len(Map!Front(s)) = Len(s) - 1
           /\ \A i \in 1..Len(s) - 1 : Map!Front(s)[i] = s[i]
<1>1. Len(s) \in Nat /\ DOMAIN s = 1..Len(s) /\ Len(s) >= 1
  BY LenProperties, EmptySeq
<1>2. Map!Last(s) = s[Len(s)] /\ Map!Last(s) \in S
  BY <1>1, ElementOfSeq DEF Map!Last
<1> DEFINE n == Len(s) - 1
           f == SubSeq(s, 1, n)
<1>3. Map!Front(s) = f
  BY DEF Map!Front
<1>4. n \in Nat /\ n <= Len(s)
  BY <1>1
<1> HIDE DEF n
<1>5. f \in Seq(S) /\ DOMAIN f = 1..n /\ \A i \in 1..n : f[i] = s[i]
  BY <1>4, SubSeqProperties
<1>6. Len(f) = n
  <2> HIDE DEF f
  <2> QED
    BY <1>4, <1>5, LenProperties
<1> QED
  BY <1>1, <1>2, <1>3, <1>5, <1>6 DEF n

\* Two codes that differ in the last byte at most.
LEMMA SameFront ==
    ASSUME NEW S, NEW s \in Seq(S), NEW t \in Seq(S), s # << >>, Len(s) = Len(t),
           Map!Front(s) = Map!Front(t), Map!Last(s) = Map!Last(t)
    PROVE  s = t
<1>1. Len(s) \in Nat /\ Len(s) >= 1
  BY LastAndFront
<1>2. t # << >>
  BY <1>1
<1>3. \A i \in 1..Len(s) : s[i] = t[i]
  <2> TAKE i \in 1..Len(s)
  <2>1. i = Len(s) \/ i \in 1..Len(s) - 1
    BY <1>1
  <2>2. s[Len(s)] = t[Len(s)]
    BY <1>2, LastAndFront
  <2>3. \A j \in 1..Len(s) - 1 : Map!Front(s)[j] = s[j]
    BY LastAndFront
  <2>4. \A j \in 1..Len(s) - 1 : Map!Front(t)[j] = t[j]
    BY <1>2, LastAndFront
  <2> QED
    BY <2>1, <2>2, <2>3, <2>4
<1> QED
  BY <1>3, SeqEqual

LEMMA ByteIs ==
    ASSUME Map!CMapAssumption
    PROVE  /\ ByteSize \in Nat \ {0} /\ MaxCode \in Nat \ {0}
           /\ \A x \in Map!Byte : x \in Nat /\ x < ByteSize
           /\ \A x \in Nat : x < ByteSize => x \in Map!Byte
BY DEF Map!CMapAssumption, Map!Byte

\* What the lexer and the parser give for a string, and for an array.
LEMMA DestinationTyped ==
    ASSUME NEW v \in Map!MapValue
    PROVE  /\ v.kind = "string" => v.s \in Seq(Map!Byte)
           /\ v.kind = "array" => v.elems \in Seq(Map!Element)
BY DEF Map!MapValue, Map!Written, Map!Element

\* The last byte is replaced.
LEMMA LastReplaced ==
    ASSUME NEW S, NEW s \in Seq(S), s # << >>, NEW x \in S
    PROVE  [s EXCEPT ![Len(s)] = x] = Map!Front(s) \o <<x>>
<1> DEFINE n == Len(s)
           f == Map!Front(s)
           one == <<x>>
           t == f \o one
           u == [s EXCEPT ![n] = x]
<1>1. /\ n \in Nat /\ n >= 1 /\ DOMAIN s = 1..n
      /\ f \in Seq(S) /\ Len(f) = n - 1
      /\ \A i \in 1..n - 1 : f[i] = s[i]
  BY LastAndFront
<1>2. one \in Seq(S) /\ Len(one) = 1 /\ one[1] = x
  OBVIOUS
<1>3. n \in 1..n
  BY <1>1
<1>4. /\ u \in Seq(S) /\ Len(u) = n
      /\ \A i \in 1..n : u[i] = IF i = n THEN x ELSE s[i]
  <2> HIDE DEF n
  <2>1. n \in 1..Len(s) /\ Len(s) = n
    BY <1>3 DEF n
  <2> QED
    BY <2>1, ExceptSeq
<1> HIDE DEF n, f, one, t, u
<1>5. /\ t \in Seq(S) /\ Len(t) = (n - 1) + 1
      /\ \A i \in 1..(n - 1) + 1 :
            t[i] = IF i <= n - 1 THEN f[i] ELSE one[i - (n - 1)]
  <2>1. /\ t \in Seq(S) /\ Len(t) = Len(f) + Len(one)
        /\ \A i \in 1..Len(f) + Len(one) :
              t[i] = IF i <= Len(f) THEN f[i] ELSE one[i - Len(f)]
    BY <1>1, <1>2, ConcatProperties DEF t
  <2> QED
    BY <1>1, <1>2, <2>1
<1>6. \A i \in 1..n : u[i] = t[i]
  <2> TAKE i \in 1..n
  <2>1. CASE i = n
    <3>1. ~(i <= n - 1) /\ i - (n - 1) = 1 /\ i \in 1..(n - 1) + 1
      BY <1>1, <2>1
    <3> QED
      BY <1>2, <1>4, <1>5, <2>1, <3>1
  <2>2. CASE i # n
    <3>1. i <= n - 1 /\ i \in 1..n - 1 /\ i \in 1..(n - 1) + 1
      BY <1>1, <2>2
    <3> QED
      BY <1>1, <1>4, <1>5, <2>2, <3>1
  <2> QED
    BY <2>1, <2>2
<1>7. Len(t) = Len(u)
  BY <1>1, <1>4, <1>5
<1> QED
  BY <1>4, <1>5, <1>6, <1>7, SeqEqual, Zenon DEF u, t, one, f, n

\* A range whose last bytes only differ: the code and the list of the program agree.
LEMMA RangeTextIs ==
    ASSUME Map!CMapAssumption, NEW br \in RangeSet, NEW c \in Seq(Map!Byte), c # << >>,
           Len(br.lo) = Len(c), br.dst.kind \in {"string", "array"},
           Map!InRange(br, c) # Map!Unspecified
    PROVE  (IF br.dst.kind = "string" THEN Map!RangeWithString(br, c)
            ELSE Map!RangeWithArray(br, c)) = Map!InRange(br, c)
<1> DEFINE lo == br.lo
           dst == br.dst
           k == Map!Last(c) - Map!Last(lo)
           shown == Map!InRange(br, c)
<1>1. lo \in Seq(Map!Byte) /\ dst \in Map!MapValue
  BY DEF RangeSet
<1>2. Len(c) \in Nat /\ Len(c) >= 1
  BY LastAndFront
<1>3. lo # << >>
  BY <1>2
<1>4. Map!Last(c) \in Map!Byte /\ Map!Last(lo) \in Map!Byte
  BY <1>1, <1>3, LastAndFront
<1>5. Map!Front(c) = Map!Front(lo) /\ ~(k < 0)
  <2>1. k \in Int
    BY <1>4, ByteIs
  <2>2. Map!Front(c) # Map!Front(lo) \/ k < 0 => shown = Map!Unspecified
    <3>1. k < 0 => ~(k = 0) /\ ~(k > 0)
      BY <2>1
    <3> QED
      BY <3>1 DEF Map!InRange
  <2> QED
    BY <2>2
<1>6. k \in Nat /\ k < ByteSize /\ ByteSize \in Nat \ {0}
  BY <1>4, <1>5, ByteIs
<1>7. Map!Offset(br, c) = k
  BY <1>6 DEF Map!Offset
<1>8. lo = c <=> k = 0
  <2>1. lo = c => k = 0
    <3>1. ASSUME NEW x \in Nat PROVE x - x = 0
      OBVIOUS
    <3>2. Map!Last(c) \in Nat
      BY <1>4, ByteIs
    <3> QED
      BY <3>1, <3>2
  <2>2. k = 0 => Map!Last(c) = Map!Last(lo)
    BY <1>4, ByteIs
  <2>3. Map!Last(c) = Map!Last(lo) => c = lo
    BY <1>1, <1>5, SameFront
  <2> QED
    BY <2>1, <2>2, <2>3
<1>9. CASE dst.kind = "string"
  <2>1. dst.s \in Seq(Map!Byte)
    BY <1>1, <1>9, DestinationTyped
  <2>2. CASE k = 0
    <3>1. shown = Map!Utf16(dst.s)
      BY <1>5, <1>9, <2>2 DEF Map!InRange
    <3>2. Map!RangeWithString(br, c) = Map!Utf16(dst.s)
      BY <1>8, <2>2 DEF Map!RangeWithString
    <3> QED
      BY <1>9, <3>1, <3>2
  <2>3. CASE k # 0 /\ dst.s = << >>
    <3>1. shown = Map!Broken
      BY <1>5, <1>6, <1>9, <2>3 DEF Map!InRange
    <3>2. Map!RangeWithString(br, c) = Map!Broken
      BY <1>8, <2>3 DEF Map!RangeWithString
    <3> QED
      BY <1>9, <3>1, <3>2
  <2>4. CASE k # 0 /\ dst.s # << >>
    <3> DEFINE s == dst.s
               n == Len(s)
               last == Map!Last(s) + k
               t == Map!Front(s) \o <<last>>
    <3>1. k > 0 /\ ~(k = 0)
      BY <1>6, <2>4
    <3>2. shown = IF last >= ByteSize THEN Map!Unspecified ELSE Map!Utf16(t)
      BY <1>5, <1>9, <2>4, <3>1 DEF Map!InRange
    <3>3. ~(last >= ByteSize)
      BY <3>2
    <3>4. /\ n \in Nat /\ n >= 1 /\ DOMAIN s = 1..n
          /\ Map!Last(s) = s[n] /\ Map!Last(s) \in Map!Byte
          /\ Map!Front(s) \in Seq(Map!Byte) /\ Len(Map!Front(s)) = n - 1
          /\ \A i \in 1..n - 1 : Map!Front(s)[i] = s[i]
      BY <2>1, <2>4, LastAndFront
    <3>5. last \in Map!Byte /\ last % ByteSize = last
      <4>1. last \in Nat /\ last < ByteSize /\ ByteSize \in Nat \ {0}
        <5>1. Map!Last(s) \in Nat
          BY <3>4, ByteIs
        <5> HIDE DEF s, k
        <5> QED
          BY <1>6, <3>3, <5>1
      <4> HIDE DEF last
      <4>2. last % ByteSize = last
        BY <4>1
      <4> QED
        BY <4>1, <4>2, ByteIs
    <3>6. Map!RangeWithString(br, c) =
              Map!Utf16([s EXCEPT ![n] = (@ + Map!Offset(br, c)) % ByteSize])
      BY <1>8, <2>4 DEF Map!RangeWithString
    <3>7. [s EXCEPT ![n] = (@ + Map!Offset(br, c)) % ByteSize] = [s EXCEPT ![n] = last]
      <4>1. (s[n] + Map!Offset(br, c)) % ByteSize = last
        BY <1>7, <3>4, <3>5
      <4> HIDE DEF s, n, last
      <4> QED
        BY <4>1
    <3>8. [s EXCEPT ![n] = last] = t
      <4>1. s \in Seq(Map!Byte) /\ s # << >>
        BY <2>1, <2>4
      <4> HIDE DEF s, last
      <4> QED
        BY <3>5, <4>1, LastReplaced
    <3> HIDE DEF s, last, t, n
    <3> QED
      BY <1>9, <3>2, <3>3, <3>6, <3>7, <3>8
  <2> QED
    BY <2>2, <2>3, <2>4
<1>10. CASE dst.kind = "array"
  <2>1. DOMAIN dst.elems = 1..Len(dst.elems) /\ Len(dst.elems) \in Nat
    BY <1>1, <1>10, DestinationTyped, LenProperties
  <2>2. k + 1 \in DOMAIN dst.elems <=> k < Len(dst.elems)
    BY <1>6, <2>1
  <2>3. shown = IF k < Len(dst.elems) /\ dst.elems[k + 1].kind = "string"
                THEN Map!Utf16(dst.elems[k + 1].s) ELSE Map!Unspecified
    BY <1>5, <1>10 DEF Map!InRange
  <2>4. Map!RangeWithArray(br, c) =
            IF k + 1 \in DOMAIN dst.elems /\ dst.elems[k + 1].kind = "string"
            THEN Map!Utf16(dst.elems[k + 1].s) ELSE << >>
    BY <1>7 DEF Map!RangeWithArray
  <2> QED
    BY <1>10, <2>2, <2>3, <2>4
<1> QED
  BY <1>9, <1>10

-----------------------------------------------------------------------------
\* A rune of a text.
Rune == Seq(Int)

LEMMA ByteInt ==
    ASSUME Map!CMapAssumption
    PROVE  Map!Byte \subseteq Int /\ \A s \in Seq(Map!Byte) : s \in Seq(Int)
<1>1. Map!Byte \subseteq Int
  BY ByteIs
<1>2. ASSUME NEW s \in Seq(Map!Byte) PROVE s \in Seq(Int)
  <2>1. Len(s) \in Nat /\ s \in [1..Len(s) -> Map!Byte]
    BY LenProperties
  <2>2. s \in [1..Len(s) -> Int]
    BY <1>1, <2>1
  <2> QED
    BY <2>1, <2>2, SeqDef
<1> QED
  BY <1>1, <1>2

LEMMA TextsOfRunes ==
    ASSUME NEW s \in Seq(Int)
    PROVE  Map!Utf16(s) \in Seq(Rune) /\ Map!Preserved(s) \in Seq(Rune)
<1>1. Len(s) \in Nat /\ DOMAIN s = 1..Len(s) /\ \A i \in 1..Len(s) : s[i] \in Int
  BY LenProperties, ElementOfSeq
<1>2. Map!Preserved(s) \in Seq(Rune)
  <2>1. \A i \in 1..Len(s) : <<s[i]>> \in Rune
    BY <1>1 DEF Rune
  <2>2. Map!Preserved(s) = [i \in 1..Len(s) |-> <<s[i]>>]
    BY <1>1 DEF Map!Preserved
  <2>3. Map!Preserved(s) \in [1..Len(s) -> Rune]
    BY <2>1, <2>2
  <2> QED
    BY <1>1, <2>3, SeqDef
<1>3. CASE Len(s) % 2 = 1
  <2>1. <<-1>> \in Rune
    BY DEF Rune
  <2>2. Map!Utf16(s) = << <<-1>> >>
    BY <1>3 DEF Map!Utf16, Map!Broken, Map!HalfPair
  <2> QED
    BY <1>2, <2>1, <2>2
<1>4. CASE Len(s) % 2 # 1
  <2> DEFINE h == Len(s) \div 2
  <2>1. h \in Nat /\ 2 * h <= Len(s)
    BY <1>1
  <2> HIDE DEF h
  <2>2. \A i \in 1..h : 2 * i - 1 \in 1..Len(s) /\ 2 * i \in 1..Len(s)
    BY <1>1, <2>1
  <2>3. \A i \in 1..h : <<s[2 * i - 1], s[2 * i]>> \in Rune
    <3> TAKE i \in 1..h
    <3>1. s[2 * i - 1] \in Int /\ s[2 * i] \in Int
      BY <1>1, <2>2
    <3> HIDE DEF h
    <3> QED
      BY <3>1 DEF Rune
  <2>4. Map!Utf16(s) = [i \in 1..h |-> <<s[2 * i - 1], s[2 * i]>>]
    BY <1>4 DEF Map!Utf16, h
  <2>5. Map!Utf16(s) \in [1..h -> Rune]
    BY <2>3, <2>4
  <2> QED
    BY <1>2, <2>1, <2>5, SeqDef
<1> QED
  BY <1>3, <1>4

LEMMA NoRunes == << >> \in Seq(Rune) /\ Map!Broken \in Seq(Rune)
<1>1. <<-1>> \in Rune
  BY DEF Rune
<1> QED
  BY <1>1 DEF Map!Broken, Map!HalfPair

\* Whatever a map makes of a code is a text.
LEMMA CodeTextTyped ==
    ASSUME Map!CMapAssumption, NEW r, Map!IsReading(r), NEW c \in Seq(Map!Byte), c # << >>
    PROVE  Map!CodeText(r, c) \in Seq(Rune)
<1> DEFINE T == Map!CharsOf(r, c)
           Q == Map!RangesOf(r, c)
<1>1. /\ r.bfchar \in Seq(CharSet) /\ r.bfrange \in Seq(RangeSet)
      /\ DOMAIN r.bfchar \subseteq Nat /\ DOMAIN r.bfrange \subseteq Nat
  <2>1. r.bfchar \in Seq(CharSet) /\ r.bfrange \in Seq(RangeSet)
    BY ReadingIs
  <2> QED
    BY <2>1, LenProperties
<1>2. CASE T # {}
  <2>1. T \in SUBSET Nat /\ T \subseteq DOMAIN r.bfchar
    BY <1>1 DEF Map!CharsOf
  <2>2. Map!Min(T) \in DOMAIN r.bfchar
    BY <1>2, <2>1, MapMinIs
  <2>3. r.bfchar[Map!Min(T)] \in CharSet
    BY <1>1, <2>2, LenProperties, ElementOfSeq
  <2>4. r.bfchar[Map!Min(T)].repl \in Seq(Int)
    BY <2>3, ByteInt DEF CharSet
  <2>5. Map!CodeText(r, c) = Map!Utf16(r.bfchar[Map!Min(T)].repl)
    BY <1>2 DEF Map!CodeText
  <2> QED
    BY <2>4, <2>5, TextsOfRunes
<1>3. CASE T = {} /\ Q = {}
  <2>1. Map!CodeText(r, c) = Map!Preserved(c) /\ c \in Seq(Int)
    BY <1>3, ByteInt DEF Map!CodeText
  <2> QED
    BY <2>1, TextsOfRunes
<1>4. CASE T = {} /\ Q # {}
  <2> DEFINE br == r.bfrange[Map!Min(Q)]
             k == Map!Offset(br, c)
  <2>1. Q \in SUBSET Nat /\ Q \subseteq DOMAIN r.bfrange
    BY <1>1 DEF Map!RangesOf
  <2>2. Map!Min(Q) \in DOMAIN r.bfrange /\ Map!Min(Q) \in Q
    BY <1>4, <2>1, MapMinIs
  <2>3. br \in RangeSet
    BY <1>1, <2>2, LenProperties, ElementOfSeq
  <2>4. Len(br.lo) = Len(c) /\ br.dst.kind \in {"string", "array"}
    BY <2>2, Zenon DEF Map!RangesOf
  <2>5. Map!CodeText(r, c) = IF br.dst.kind = "string" THEN Map!RangeWithString(br, c)
                             ELSE Map!RangeWithArray(br, c)
    BY <1>4 DEF Map!CodeText
  <2> HIDE DEF br
  <2>6. br.lo \in Seq(Map!Byte) /\ br.dst \in Map!MapValue
    BY <2>3 DEF RangeSet
  <2>7. k \in Int
    <3>1. Len(c) \in Nat /\ Len(c) >= 1
      BY LastAndFront
    <3>2. br.lo # << >>
      BY <2>4, <3>1
    <3>3. Map!Last(c) \in Nat /\ Map!Last(br.lo) \in Nat /\ ByteSize \in Nat \ {0}
      BY <2>6, <3>2, LastAndFront, ByteIs
    <3>4. \A x, y \in Nat : (x - y) % ByteSize \in Int
      BY <3>3
    <3> QED
      BY <3>3, <3>4 DEF Map!Offset
  <2>8. CASE br.dst.kind = "string"
    <3>1. br.dst.s \in Seq(Map!Byte) /\ br.dst.s \in Seq(Int)
      BY <2>6, <2>8, DestinationTyped, ByteInt
    <3>2. CASE br.lo = c
      <4>1. Map!RangeWithString(br, c) = Map!Utf16(br.dst.s)
        BY <3>2 DEF Map!RangeWithString
      <4> QED
        BY <2>5, <2>8, <3>1, <4>1, TextsOfRunes
    <3>3. CASE br.lo # c /\ br.dst.s = << >>
      <4>1. Map!RangeWithString(br, c) = Map!Broken
        BY <3>3 DEF Map!RangeWithString
      <4> QED
        BY <2>5, <2>8, <4>1, NoRunes
    <3>4. CASE br.lo # c /\ br.dst.s # << >>
      <4> DEFINE s == br.dst.s
                 n == Len(s)
                 x == (s[n] + k) % ByteSize
      <4>1. Map!RangeWithString(br, c) = Map!Utf16([s EXCEPT ![n] = (@ + k) % ByteSize])
        BY <3>4 DEF Map!RangeWithString
      <4>2. n \in Nat /\ n >= 1 /\ DOMAIN s = 1..n
        BY <3>1, <3>4, LastAndFront
      <4>3. s[n] \in Int
        BY <3>1, <4>2, ElementOfSeq
      <4>4. x \in Int
        <5>1. ByteSize \in Nat \ {0}
          BY ByteIs
        <5> HIDE DEF k, s, n
        <5> QED
          BY <2>7, <4>3, <5>1
      <4>5. [s EXCEPT ![n] = (@ + k) % ByteSize] = [s EXCEPT ![n] = x]
        OBVIOUS
      <4>6. [s EXCEPT ![n] = x] \in Seq(Int)
        <5> HIDE DEF x, s, n
        <5>1. s \in Seq(Int) /\ n = Len(s) /\ n \in 1..Len(s)
          BY <3>1, <4>2 DEF s, n
        <5> QED
          BY <4>4, <5>1, ExceptSeq
      <4> QED
        BY <2>5, <2>8, <4>1, <4>5, <4>6, TextsOfRunes
    <3> QED
      BY <3>2, <3>3, <3>4
  <2>9. CASE br.dst.kind = "array"
    <3> DEFINE i == k + 1
    <3>1. br.dst.elems \in Seq(Map!Element)
      BY <2>6, <2>9, DestinationTyped
    <3>2. CASE i \in DOMAIN br.dst.elems /\ br.dst.elems[i].kind = "string"
      <4>1. br.dst.elems[i] \in Map!Element
        BY <3>1, <3>2, LenProperties, ElementOfSeq
      <4>2. br.dst.elems[i].s \in Seq(Map!Byte)
        BY <3>2, <4>1 DEF Map!Element
      <4>3. Map!RangeWithArray(br, c) = Map!Utf16(br.dst.elems[i].s)
        BY <3>2 DEF Map!RangeWithArray
      <4> QED
        BY <2>5, <2>9, <4>2, <4>3, ByteInt, TextsOfRunes
    <3>3. CASE ~(i \in DOMAIN br.dst.elems /\ br.dst.elems[i].kind = "string")
      <4>1. Map!RangeWithArray(br, c) = << >>
        BY <3>3 DEF Map!RangeWithArray
      <4> QED
        BY <2>5, <2>9, <4>1, NoRunes
    <3> QED
      BY <3>2, <3>3
  <2> QED
    BY <2>4, <2>8, <2>9
<1> QED
  BY <1>2, <1>3, <1>4

LEMMA ExpectedOne ==
    ASSUME NEW c, Map!IsListed(c), NEW x \in listed, x.code = c
    PROVE  Map!Expected(c) = x.text /\ x.text # Map!Unspecified
<1>1. x.text \in Map!ListedTexts(c)
  BY DEF Map!ListedTexts
<1>2. \A s, t \in Map!ListedTexts(c) : s = t
  BY DEF Map!IsListed
<1>3. Map!Expected(c) \in Map!ListedTexts(c)
  BY <1>1 DEF Map!Expected
<1>4. Map!Unspecified \notin Map!ListedTexts(c)
  BY DEF Map!IsListed
<1> QED
  BY <1>1, <1>2, <1>3, <1>4

LEMMA ExpectedNone ==
    ASSUME NEW c, \A x \in listed : x.code # c
    PROVE  Map!Expected(c) = Map!Preserved(c)
<1>1. Map!ListedTexts(c) = {}
  BY DEF Map!ListedTexts
<1> QED
  BY <1>1 DEF Map!Expected

\* A code that an orderly program lists has an entry: the first is as good as any.
LEMMA CodeTextIs ==
    ASSUME Map!CMapAssumption, Map!IsReading(cm), listed = Map!Held(cm),
           NEW c \in Seq(Map!Byte), c # << >>, Map!IsListed(c)
    PROVE  Map!CodeText(cm, c) = Map!Expected(c)
<1> DEFINE T == Map!CharsOf(cm, c)
           Q == Map!RangesOf(cm, c)
<1>1. /\ cm.bfchar \in Seq(CharSet) /\ cm.bfrange \in Seq(RangeSet)
      /\ DOMAIN cm.bfchar \subseteq Nat /\ DOMAIN cm.bfrange \subseteq Nat
  <2>1. cm.bfchar \in Seq(CharSet) /\ cm.bfrange \in Seq(RangeSet)
    BY ReadingIs
  <2> QED
    BY <2>1, LenProperties
<1>2. CASE T # {}
  <2> DEFINE i == Map!Min(T)
             x == Map!CharListed(cm.bfchar[i])
  <2>1. T \in SUBSET Nat
    BY <1>1 DEF Map!CharsOf
  <2>2. i \in T
    BY <1>2, <2>1, MapMinIs
  <2>3. i \in DOMAIN cm.bfchar /\ cm.bfchar[i].orig = c
    BY <2>2 DEF Map!CharsOf
  <2>4. x \in listed
    BY <2>3 DEF Map!Held
  <2>5. x.code = c /\ x.text = Map!Utf16(cm.bfchar[i].repl)
    BY <2>3 DEF Map!CharListed
  <2>6. Map!CodeText(cm, c) = Map!Utf16(cm.bfchar[i].repl)
    BY <1>2 DEF Map!CodeText
  <2> HIDE DEF x
  <2> QED
    BY <2>4, <2>5, <2>6, ExpectedOne
<1>3. CASE T = {} /\ Q # {}
  <2> DEFINE i == Map!Min(Q)
             br == cm.bfrange[i]
             x == [code |-> c, text |-> Map!InRange(br, c)]
  <2>1. Q \in SUBSET Nat
    BY <1>1 DEF Map!RangesOf
  <2>2. i \in Q
    BY <1>3, <2>1, MapMinIs
  <2>3. /\ i \in DOMAIN cm.bfrange /\ Len(br.lo) = Len(c)
        /\ Map!Between(br.lo, c, br.hi) /\ br.dst.kind \in {"string", "array"}
    BY <2>2, Zenon DEF Map!RangesOf
  <2>4. br \in RangeSet
    BY <1>1, <2>3, LenProperties, ElementOfSeq
  <2>5. x \in Map!RangeListed(br)
    <3> HIDE DEF br
    <3>1. br.lo \in Seq(Map!Byte)
      BY <2>4 DEF RangeSet
    <3>2. c \in [DOMAIN br.lo -> Map!Byte]
      BY <2>3, <3>1, LenProperties
    <3>3. c \in Map!CodesBetween(br.lo, br.hi)
      BY <2>3, <3>2 DEF Map!CodesBetween
    <3> QED
      BY <2>3, <3>3 DEF Map!RangeListed
  <2>6. x \in listed
    BY <2>3, <2>5 DEF Map!Held
  <2>7. Map!Expected(c) = Map!InRange(br, c) /\ Map!InRange(br, c) # Map!Unspecified
    <3>1. x.code = c /\ x.text = Map!InRange(br, c)
      OBVIOUS
    <3> HIDE DEF x
    <3> QED
      BY <2>6, <3>1, ExpectedOne
  <2>8. Map!CodeText(cm, c) = IF br.dst.kind = "string" THEN Map!RangeWithString(br, c)
                              ELSE Map!RangeWithArray(br, c)
    BY <1>3 DEF Map!CodeText
  <2> HIDE DEF br
  <2> QED
    BY <2>3, <2>4, <2>7, <2>8, RangeTextIs
<1>4. CASE T = {} /\ Q = {}
  <2>1. Map!CodeText(cm, c) = Map!Preserved(c)
    BY <1>4 DEF Map!CodeText
  <2>2. ASSUME NEW x \in listed, x.code = c PROVE FALSE
    <3>1. CASE \E i \in DOMAIN cm.bfchar : x = Map!CharListed(cm.bfchar[i])
      <4>1. PICK i \in DOMAIN cm.bfchar : x = Map!CharListed(cm.bfchar[i])
        BY <3>1
      <4>2. i \in T
        BY <2>2, <4>1 DEF Map!CharListed, Map!CharsOf
      <4> QED
        BY <1>4, <4>2
    <3>2. CASE \E i \in DOMAIN cm.bfrange : x \in Map!RangeListed(cm.bfrange[i])
      <4>1. PICK i \in DOMAIN cm.bfrange : x \in Map!RangeListed(cm.bfrange[i])
        BY <3>2
      <4> DEFINE br == cm.bfrange[i]
      <4>2. br \in RangeSet
        BY <1>1, LenProperties, ElementOfSeq
      <4>3. /\ br.dst.kind \in {"string", "array"}
            /\ c \in Map!CodesBetween(br.lo, br.hi)
        BY <2>2, <4>1 DEF Map!RangeListed
      <4>4. c \in [DOMAIN br.lo -> Map!Byte] /\ Map!Between(br.lo, c, br.hi)
        BY <4>3 DEF Map!CodesBetween
      <4>5. Len(br.lo) = Len(c)
        <5> HIDE DEF br
        <5>1. DOMAIN c = 1..Len(c) /\ Len(c) \in Nat
          BY LenProperties
        <5>2. br.lo \in Seq(Map!Byte)
          BY <4>2 DEF RangeSet
        <5>3. DOMAIN br.lo = 1..Len(br.lo) /\ Len(br.lo) \in Nat
          BY <5>2, LenProperties
        <5>4. 1..Len(c) = 1..Len(br.lo)
          BY <4>4, <5>1, <5>3
        <5> QED
          BY <5>1, <5>3, <5>4
      <4>6. i \in Q
        BY <4>3, <4>4, <4>5 DEF Map!RangesOf
      <4> QED
        BY <1>4, <4>6
    <3> QED
      BY <3>1, <3>2 DEF Map!Held
  <2> QED
    BY <2>1, <2>2, ExpectedNone
<1> QED
  BY <1>2, <1>3, <1>4

-----------------------------------------------------------------------------
(* How a map cuts a string. *)

\* The lengths that findNextCodespace finds.
Widths(r, raw) ==
    {n \in 1..MaxCode : /\ n <= Len(raw)
                        /\ \E i \in DOMAIN r.space :
                              /\ Len(r.space[i].lo) = n
                              /\ Map!Between(r.space[i].lo, SubSeq(raw, 1, n), r.space[i].hi)}

LEMMA WidthTyped ==
    ASSUME Map!CMapAssumption, NEW r, NEW raw \in Seq(Map!Byte)
    PROVE  /\ Map!Width(r, raw) \in 0..Len(raw)
           /\ Widths(r, raw) # {} =>
                 /\ Map!Width(r, raw) \in Widths(r, raw)
                 /\ \A n \in Widths(r, raw) : Map!Width(r, raw) <= n
<1> DEFINE W == Widths(r, raw)
<1>1. Map!Width(r, raw) = IF W = {} THEN 0 ELSE Map!Min(W)
  BY DEF Map!Width, Widths
<1>2. W \in SUBSET Nat /\ \A n \in W : n <= Len(raw)
  BY ByteIs DEF Widths
<1>3. Len(raw) \in Nat
  BY LenProperties
<1> HIDE DEF W
<1>4. CASE W = {}
  BY <1>1, <1>3, <1>4 DEF W
<1>5. CASE W # {}
  <2>1. Map!Min(W) \in W /\ \A n \in W : Map!Min(W) <= n
    BY <1>2, <1>5, MapMinIs
  <2> QED
    BY <1>1, <1>2, <1>3, <1>5, <2>1 DEF W
<1> QED
  BY <1>4, <1>5

\* The first elements of a sequence.
LEMMA PrefixIs ==
    ASSUME NEW S, NEW s \in Seq(S), NEW a \in Nat, NEW n \in Nat, a + n <= Len(s)
    PROVE  /\ SubSeq(s, a + 1, a + n) \in Seq(S) /\ Len(SubSeq(s, a + 1, a + n)) = n
           /\ \A i \in 1..n : SubSeq(s, a + 1, a + n)[i] = s[a + i]
<1>1. Len(s) \in Nat
  BY LenProperties
<1>2. a + 1 \in Int /\ a + n \in Int /\ \A i \in a + 1..a + n : s[i] \in S
  <2>1. \A i \in a + 1..a + n : i \in 1..Len(s)
    BY <1>1
  <2> QED
    BY <2>1, ElementOfSeq
<1> DEFINE m == a + 1
           k == a + n
           q == SubSeq(s, m, k)
<1>3. m \in Int /\ k \in Int /\ \A i \in m..k : s[i] \in S
  BY <1>2
<1>4. k - m + 1 = n /\ (m <= k \/ n = 0) /\ \A i \in 1..n : m + i - 1 = a + i
  OBVIOUS
<1> HIDE DEF m, k
<1>5. /\ q \in Seq(S) /\ Len(q) = IF m <= k THEN k - m + 1 ELSE 0
      /\ \A i \in 1..k - m + 1 : q[i] = s[m + i - 1]
  BY <1>3, SubSeqProperties
<1>6. Len(q) = n
  BY <1>3, <1>4, <1>5 DEF m, k
<1>7. \A i \in 1..n : q[i] = s[a + i]
  BY <1>4, <1>5
<1> QED
  BY <1>5, <1>6, <1>7 DEF m, k

\* The shortest codespace of a string that begins with a code is that of the code.
LEMMA WidthIs ==
    ASSUME Map!CMapAssumption, Map!IsReading(cm), NEW c \in Seq(Map!Byte), Map!IsCode(c),
           NEW raw \in Seq(Map!Byte), Len(c) <= Len(raw),
           \A i \in 1..Len(c) : raw[i] = c[i]
    PROVE  Map!Width(cm, raw) = Len(c) /\ Len(c) >= 1
<1> DEFINE W == Widths(cm, raw)
           w == Map!Width(cm, raw)
<1>1. Len(c) \in Nat /\ Len(raw) \in Nat
  BY LenProperties
<1>2. ASSUME NEW n \in 1..Len(c) PROVE SubSeq(raw, 1, n) = SubSeq(c, 1, n) /\ Len(SubSeq(c, 1, n)) = n
  <2>1. n \in Nat /\ 0 + n <= Len(c) /\ 0 + n <= Len(raw) /\ 0 + 1 = 1 /\ 0 + n = n /\ 0 \in Nat
    BY <1>1
  <2>2. /\ SubSeq(c, 0 + 1, 0 + n) \in Seq(Map!Byte) /\ Len(SubSeq(c, 0 + 1, 0 + n)) = n
        /\ \A i \in 1..n : SubSeq(c, 0 + 1, 0 + n)[i] = c[0 + i]
    BY <2>1, PrefixIs
  <2>3. /\ SubSeq(raw, 0 + 1, 0 + n) \in Seq(Map!Byte) /\ Len(SubSeq(raw, 0 + 1, 0 + n)) = n
        /\ \A i \in 1..n : SubSeq(raw, 0 + 1, 0 + n)[i] = raw[0 + i]
    BY <2>1, PrefixIs
  <2> DEFINE u == SubSeq(c, 1, n)
             v == SubSeq(raw, 1, n)
  <2>4. /\ u \in Seq(Map!Byte) /\ v \in Seq(Map!Byte) /\ Len(u) = n /\ Len(v) = n
    BY <2>1, <2>2, <2>3
  <2>5. \A i \in 1..n : u[i] = v[i]
    <3> TAKE i \in 1..n
    <3>1. 0 + i = i /\ i \in 1..Len(c)
      BY <1>1
    <3>2. u[i] = c[i] /\ v[i] = raw[i]
      BY <2>1, <2>2, <2>3, <3>1
    <3> QED
      BY <3>1, <3>2
  <2> HIDE DEF u, v
  <2>6. u = v
    BY <2>4, <2>5, SeqEqual
  <2> QED
    BY <2>4, <2>6 DEF u, v
<1>3. SubSeq(c, 1, Len(c)) = c
  <2>1. 0 + Len(c) = Len(c) /\ 0 + 1 = 1 /\ 0 \in Nat /\ Len(c) <= Len(c)
    BY <1>1
  <2> DEFINE n == Len(c)
             u == SubSeq(c, 0 + 1, 0 + n)
  <2>2. u \in Seq(Map!Byte) /\ Len(u) = n /\ \A i \in 1..n : u[i] = c[0 + i]
    <3>1. n \in Nat /\ 0 + n <= Len(c) /\ 0 \in Nat
      BY <1>1
    <3> HIDE DEF n
    <3> QED
      BY <3>1, PrefixIs
  <2>3. \A i \in 1..n : u[i] = c[i]
    <3>1. \A i \in 1..n : 0 + i = i
      BY <1>1
    <3> QED
      BY <2>2, <3>1
  <2> HIDE DEF u
  <2>4. u = c
    BY <2>2, <2>3, SeqEqual
  <2> QED
    BY <2>1, <2>4 DEF u
<1>4. PICK i \in DOMAIN cm.space :
          Len(cm.space[i].lo) = Len(c) /\ Map!Between(cm.space[i].lo, c, cm.space[i].hi)
  BY DEF Map!IsCode, Map!InSpace
<1>5. Len(c) \in 1..MaxCode
  BY <1>4, ReadingIs DEF Map!IsRange
<1>6. Len(c) \in W
  <2>1. Len(c) \in 1..Len(c)
    BY <1>1, <1>5
  <2>2. SubSeq(raw, 1, Len(c)) = c
    BY <1>2, <1>3, <2>1
  <2> QED
    BY <1>4, <1>5, <2>2 DEF Widths
<1>7. w \in W /\ w <= Len(c)
  BY <1>6, WidthTyped
<1>8. w \in Nat /\ w >= 1
  BY <1>7 DEF Widths
<1>9. ASSUME w < Len(c) PROVE FALSE
  <2>1. w \in 1..Len(c) - 1 /\ w \in 1..Len(c)
    BY <1>1, <1>8, <1>9
  <2>2. SubSeq(raw, 1, w) = SubSeq(c, 1, w) /\ Len(SubSeq(c, 1, w)) = w
    BY <1>2, <2>1
  <2>3. PICK k \in DOMAIN cm.space :
            /\ Len(cm.space[k].lo) = w
            /\ Map!Between(cm.space[k].lo, SubSeq(raw, 1, w), cm.space[k].hi)
    BY <1>7 DEF Widths
  <2>4. Map!InSpace(SubSeq(c, 1, w))
    BY <2>2, <2>3 DEF Map!InSpace
  <2> QED
    BY <2>1, <2>4 DEF Map!IsCode
<1> QED
  BY <1>1, <1>5, <1>7, <1>8, <1>9

\* f[i] is piece[i] and then f, w[i] further on; nothing is left behind N.
Cuts(f, N, piece, w) ==
    f = [i \in 1..N + 1 |-> IF i > N THEN << >> ELSE piece[i] \o f[i + w[i]]]

\* The same for the last k of them.
CutsLast(f, N, piece, w, k) ==
    /\ f = [i \in 1..N + 1 |-> f[i]]
    /\ f[N + 1] = << >>
    /\ \A i \in 1..N : i > N - k => f[i] = piece[i] \o f[i + w[i]]

\* A recursion that only looks ahead has a solution.
LEMMA CutsExist ==
    ASSUME NEW N \in Nat, NEW piece, NEW w \in [1..N -> Nat \ {0}],
           \A i \in 1..N : i + w[i] <= N + 1
    PROVE  \E f : Cuts(f, N, piece, w)
<1> DEFINE Good(f, k) == CutsLast(f, N, piece, w, k)
           T == {k \in Nat : k <= N => \E f : Good(f, k)}
<1>1. 0 \in T
  <2> DEFINE f == [i \in 1..N + 1 |-> << >>]
  <2>1. f = [i \in 1..N + 1 |-> f[i]] /\ f[N + 1] = << >>
    OBVIOUS
  <2>2. \A i \in 1..N : ~(i > N - 0)
    OBVIOUS
  <2> HIDE DEF f
  <2>3. Good(f, 0)
    BY <2>1, <2>2 DEF CutsLast
  <2> QED
    BY <2>3
<1>2. ASSUME NEW k \in Nat, k \in T PROVE k + 1 \in T
  <2> SUFFICES ASSUME k + 1 <= N PROVE \E f : Good(f, k + 1)
    OBVIOUS
  <2>1. PICK f : Good(f, k)
    <3>1. k <= N
      OBVIOUS
    <3> QED
      BY <1>2, <3>1
  <2> DEFINE m == N - k
             new == piece[m] \o f[m + w[m]]
             g == [i \in 1..N + 1 |-> IF i = m THEN new ELSE f[i]]
  <2>2. m \in 1..N /\ N - (k + 1) = m - 1 /\ m = N - k
    OBVIOUS
  <2>3. g = [i \in 1..N + 1 |-> g[i]] /\ g[N + 1] = << >>
    <3>1. N + 1 # m
      BY <2>2
    <3> QED
      BY <2>1, <3>1 DEF CutsLast
  <2>4. ASSUME NEW i \in 1..N, i > m - 1 PROVE g[i] = piece[i] \o g[i + w[i]]
    <3>1. i + w[i] \in 1..N + 1 /\ i + w[i] # m /\ w[i] \in Nat \ {0}
      BY <2>2, <2>4
    <3>2. g[i + w[i]] = f[i + w[i]]
      BY <3>1
    <3>3. CASE i = m
      <4>1. i \in 1..N + 1 /\ g[i] = new
        <5>1. i \in 1..N + 1
          OBVIOUS
        <5> HIDE DEF new, m
        <5> QED
          BY <3>3, <5>1
      <4> HIDE DEF g, m
      <4> QED
        BY <3>2, <3>3, <4>1
    <3>4. CASE i # m
      <4>1. i > N - k /\ i \in 1..N + 1
        BY <2>2, <2>4, <3>4
      <4>2. f[i] = piece[i] \o f[i + w[i]]
        BY <2>1, <4>1 DEF CutsLast
      <4> QED
        BY <3>2, <3>4, <4>1, <4>2
    <3> QED
      BY <3>3, <3>4, Zenon
  <2> HIDE DEF g, m
  <2>5. Good(g, k + 1)
    BY <2>2, <2>3, <2>4 DEF CutsLast
  <2> QED
    BY <2>5
<1> HIDE DEF T
<1>3. N \in T
  BY <1>1, <1>2, SetInduction
<1>4. PICK f : Good(f, N)
  <2>1. N <= N
    OBVIOUS
  <2> QED
    BY <1>3, <2>1 DEF T
<1>5. f = [i \in 1..N + 1 |-> f[i]] /\ f[N + 1] = << >>
  BY <1>4 DEF CutsLast
<1>6. \A i \in 1..N : f[i] = piece[i] \o f[i + w[i]]
  <2>1. \A i \in 1..N : i > N - N
    OBVIOUS
  <2> QED
    BY <1>4, <2>1 DEF CutsLast
<1>7. ASSUME NEW i \in 1..N + 1
      PROVE  f[i] = IF i > N THEN << >> ELSE piece[i] \o f[i + w[i]]
  <2>1. CASE i > N
    <3>1. i = N + 1
      BY <2>1
    <3> QED
      BY <1>5, <2>1, <3>1
  <2>2. CASE ~(i > N)
    <3>1. i \in 1..N
      BY <2>2
    <3> QED
      BY <1>6, <2>2, <3>1
  <2> QED
    BY <2>1, <2>2
<1>8. Cuts(f, N, piece, w)
  BY <1>5, <1>7, Zenon DEF Cuts
<1> QED
  BY <1>8

\* All it gives are texts if the pieces are.
LEMMA CutsTyped ==
    ASSUME NEW N \in Nat, NEW S, NEW piece \in [1..N -> Seq(S)], NEW w \in [1..N -> Nat \ {0}],
           \A i \in 1..N : i + w[i] <= N + 1,
           NEW f, Cuts(f, N, piece, w)
    PROVE  /\ f[N + 1] = << >>
           /\ \A i \in 1..N : f[i] = piece[i] \o f[i + w[i]]
           /\ \A i \in 1..N + 1 : f[i] \in Seq(S)
<1>1. \A i \in 1..N + 1 : f[i] = IF i > N THEN << >> ELSE piece[i] \o f[i + w[i]]
  <2> DEFINE F(i) == IF i > N THEN << >> ELSE piece[i] \o f[i + w[i]]
  <2>1. f = [i \in 1..N + 1 |-> F(i)]
    BY DEF Cuts
  <2> HIDE DEF F
  <2>2. \A i \in 1..N + 1 : f[i] = F(i)
    BY <2>1
  <2> QED
    BY <2>2 DEF F
<1>2. f[N + 1] = << >>
  <2>1. N + 1 \in 1..N + 1 /\ N + 1 > N
    OBVIOUS
  <2> QED
    BY <1>1, <2>1
<1>3. \A i \in 1..N : f[i] = piece[i] \o f[i + w[i]]
  <2>1. \A i \in 1..N : i \in 1..N + 1 /\ ~(i > N)
    OBVIOUS
  <2> QED
    BY <1>1, <2>1
<1> DEFINE T == {k \in Nat : \A i \in 1..N + 1 : i > N - k => f[i] \in Seq(S)}
<1>4. 0 \in T
  <2>1. << >> \in Seq(S)
    BY EmptySeq
  <2>2. \A i \in 1..N + 1 : i > N - 0 => i = N + 1
    OBVIOUS
  <2> QED
    BY <1>2, <2>1, <2>2
<1>5. ASSUME NEW k \in Nat, k \in T PROVE k + 1 \in T
  <2> SUFFICES ASSUME NEW i \in 1..N + 1, i > N - (k + 1), ~(i > N - k) PROVE f[i] \in Seq(S)
    BY <1>5
  <2>1. i \in 1..N /\ i = N - k
    OBVIOUS
  <2>2. i + w[i] \in 1..N + 1 /\ i + w[i] > N - k
    <3>1. w[i] \in Nat \ {0} /\ i + w[i] <= N + 1
      BY <2>1
    <3> QED
      BY <2>1, <3>1
  <2>3. f[i + w[i]] \in Seq(S) /\ piece[i] \in Seq(S)
    BY <1>5, <2>1, <2>2
  <2>4. f[i] = piece[i] \o f[i + w[i]]
    BY <1>3, <2>1
  <2> QED
    BY <2>3, <2>4, ConcatProperties
<1> HIDE DEF T
<1>6. N + 1 \in T
  BY <1>4, <1>5, SetInduction
<1>7. \A i \in 1..N + 1 : f[i] \in Seq(S)
  <2>1. \A i \in 1..N + 1 : i > N - (N + 1)
    OBVIOUS
  <2> QED
    BY <1>6, <2>1 DEF T
<1> QED
  BY <1>2, <1>3, <1>7

\* f[i] is what a map shows of raw from its i-th byte on.
Decodes(f, r, raw) ==
    /\ f[Len(raw) + 1] = << >>
    /\ \A i \in 1..Len(raw) + 1 : f[i] \in Seq(Rune)
    /\ \A i \in 1..Len(raw) :
          LET width == Map!Width(r, SubSeq(raw, i, Len(raw)))
          IN width # 0 => f[i] = Map!CodeText(r, SubSeq(raw, i, i + width - 1)) \o f[i + width]

LEMMA SuffixIs ==
    ASSUME NEW S, NEW s \in Seq(S), NEW i \in 1..Len(s)
    PROVE  /\ SubSeq(s, i, Len(s)) \in Seq(S) /\ Len(SubSeq(s, i, Len(s))) = Len(s) + 1 - i
           /\ \A k \in 1..Len(s) + 1 - i : SubSeq(s, i, Len(s))[k] = s[i + k - 1]
<1> DEFINE N == Len(s)
           q == SubSeq(s, i, N)
<1>1. N \in Nat
  BY LenProperties
<1>2. i \in Int /\ N \in Int /\ \A k \in i..N : s[k] \in S
  <2>1. \A k \in i..N : k \in 1..Len(s)
    BY <1>1
  <2> QED
    BY <1>1, <2>1, ElementOfSeq
<1>3. i \in 1..N
  OBVIOUS
<1> HIDE DEF N
<1>4. /\ q \in Seq(S) /\ Len(q) = IF i <= N THEN N - i + 1 ELSE 0
      /\ \A k \in 1..N - i + 1 : q[k] = s[i + k - 1]
  BY <1>2, SubSeqProperties
<1>5. i <= N /\ N - i + 1 = N + 1 - i
  BY <1>1, <1>3
<1> QED
  BY <1>4, <1>5 DEF N

LEMMA DecodeIs ==
    ASSUME Map!CMapAssumption, NEW r, Map!IsReading(r), NEW raw \in Seq(Map!Byte)
    PROVE  \E f : Decodes(f, r, raw) /\ Map!DecodeCMap(r, raw) = Map!Outcome(f[1])
<1> DEFINE N == Len(raw)
           W(i) == Map!Width(r, SubSeq(raw, i, N))
           one(i) == Map!Preserved(<<raw[i]>>)
           code(i) == Map!CodeText(r, SubSeq(raw, i, i + W(i) - 1))
           piece == [i \in 1..N |-> IF W(i) = 0 THEN one(i) ELSE code(i)]
           w == [i \in 1..N |-> IF W(i) = 0 THEN 1 ELSE W(i)]
           Rec(f) == f = [i \in 1..N + 1 |->
                             IF i > N THEN << >>
                             ELSE IF W(i) = 0 THEN one(i) \o f[i + 1]
                                  ELSE code(i) \o f[i + W(i)]]
           text == CHOOSE f : Rec(f)
<1>1. N \in Nat
  BY LenProperties
<1>2. Map!DecodeCMap(r, raw) = Map!Outcome(text[1])
  BY DEF Map!DecodeCMap
<1>3. ASSUME NEW i \in 1..N
      PROVE  W(i) \in 0..N + 1 - i
  <2>1. SubSeq(raw, i, N) \in Seq(Map!Byte) /\ Len(SubSeq(raw, i, N)) = N + 1 - i
    BY SuffixIs
  <2> QED
    BY <2>1, WidthTyped
<1>4. ASSUME NEW i \in 1..N
      PROVE  one(i) \in Seq(Rune) /\ (W(i) # 0 => code(i) \in Seq(Rune))
  <2>1. raw[i] \in Map!Byte
    BY ElementOfSeq
  <2>2. <<raw[i]>> \in Seq(Int)
    BY <2>1, ByteInt
  <2>3. one(i) \in Seq(Rune)
    <3> DEFINE c == <<raw[i]>>
    <3> HIDE DEF c
    <3>1. Map!Preserved(c) \in Seq(Rune)
      BY <2>2, TextsOfRunes DEF c
    <3> QED
      BY <3>1 DEF c
  <2>4. ASSUME W(i) # 0 PROVE code(i) \in Seq(Rune)
    <3> DEFINE a == i - 1
               n == W(i)
               c == SubSeq(raw, i, i + n - 1)
    <3>1. n \in Nat /\ n >= 1 /\ a \in Nat /\ a + 1 = i /\ a + n = i + n - 1 /\ a + n <= N
      BY <1>1, <1>3, <2>4
    <3> HIDE DEF n, a
    <3>2. SubSeq(raw, a + 1, a + n) \in Seq(Map!Byte) /\ Len(SubSeq(raw, a + 1, a + n)) = n
      BY <3>1, PrefixIs
    <3>3. c \in Seq(Map!Byte) /\ Len(c) >= 1
      BY <3>1, <3>2
    <3> HIDE DEF c
    <3>4. c # << >>
      BY <3>3
    <3>5. Map!CodeText(r, c) \in Seq(Rune)
      BY <3>3, <3>4, CodeTextTyped
    <3> QED
      BY <3>5 DEF c, n
  <2> QED
    BY <2>3, <2>4
<1>5. piece \in [1..N -> Seq(Rune)]
  <2> HIDE DEF W, one, code
  <2> QED
    BY <1>4
<1>6. w \in [1..N -> Nat \ {0}] /\ \A i \in 1..N : i + w[i] <= N + 1
  <2> HIDE DEF W
  <2>1. ASSUME NEW i \in 1..N
        PROVE  w[i] \in Nat \ {0} /\ i + w[i] <= N + 1
    <3>1. w[i] = IF W(i) = 0 THEN 1 ELSE W(i)
      OBVIOUS
    <3> HIDE DEF w, N
    <3> QED
      BY <1>1, <1>3, <3>1
  <2>2. w = [i \in 1..N |-> w[i]]
    OBVIOUS
  <2> HIDE DEF w
  <2> QED
    BY <2>1, <2>2
<1>7. \A f : Cuts(f, N, piece, w) <=> Rec(f)
  <2> HIDE DEF W, one, code, N
  <2> TAKE f
  <2> DEFINE A(i) == IF i > N THEN << >> ELSE piece[i] \o f[i + w[i]]
             B(i) == IF i > N THEN << >>
                     ELSE IF W(i) = 0 THEN one(i) \o f[i + 1] ELSE code(i) \o f[i + W(i)]
  <2>1. ASSUME NEW i \in 1..N + 1 PROVE A(i) = B(i)
    <3>1. CASE i > N
      BY <3>1
    <3>2. CASE ~(i > N)
      <4>1. i \in 1..N
        BY <1>1, <3>2
      <4>2. /\ piece[i] = IF W(i) = 0 THEN one(i) ELSE code(i)
            /\ w[i] = IF W(i) = 0 THEN 1 ELSE W(i)
        BY <4>1
      <4> HIDE DEF piece, w
      <4> QED
        BY <3>2, <4>2
    <3> QED
      BY <3>1, <3>2
  <2>2. Cuts(f, N, piece, w) <=> f = [i \in 1..N + 1 |-> A(i)]
    BY DEF Cuts
  <2>3. Rec(f) <=> f = [i \in 1..N + 1 |-> B(i)]
    OBVIOUS
  <2> HIDE DEF A, B, Rec, piece, w
  <2>4. [i \in 1..N + 1 |-> A(i)] = [i \in 1..N + 1 |-> B(i)]
    BY <2>1
  <2> QED
    BY <2>2, <2>3, <2>4
<1>8. Cuts(text, N, piece, w)
  <2> HIDE DEF Rec, piece, w, N
  <2>1. \E f : Cuts(f, N, piece, w)
    BY <1>1, <1>6, CutsExist
  <2>2. \E f : Rec(f)
    BY <1>7, <2>1
  <2>3. Rec(text)
    BY <2>2
  <2> QED
    BY <1>7, <2>3
<1>9. /\ text[N + 1] = << >>
      /\ \A i \in 1..N : text[i] = piece[i] \o text[i + w[i]]
      /\ \A i \in 1..N + 1 : text[i] \in Seq(Rune)
  <2> HIDE DEF text, piece, w, N
  <2> QED
    BY <1>1, <1>5, <1>6, <1>8, CutsTyped
<1>10. ASSUME NEW i \in 1..N, W(i) # 0
       PROVE  text[i] = code(i) \o text[i + W(i)]
  <2>1. piece[i] = code(i) /\ w[i] = W(i)
    BY <1>10
  <2> HIDE DEF text, piece, w, W, code
  <2> QED
    BY <1>9, <2>1
<1>11. Decodes(text, r, raw)
  <2> HIDE DEF text
  <2> QED
    BY <1>9, <1>10 DEF Decodes
<1> QED
  BY <1>2, <1>11

-----------------------------------------------------------------------------
(* The codes of a string, one after the other. *)

\* s[k] follows the first k - 1 sequences in all.
PartAt(flat, all, s, k) ==
    LET a == Len(flat[k - 1])
    IN /\ a \in Nat
       /\ Len(flat[k]) = a + Len(s[k]) /\ a + Len(s[k]) <= Len(all)
       /\ \A j \in 1..Len(s[k]) : all[a + j] = s[k][j]

\* The concatenation of all has that of the first k at its beginning, and then s[k + 1].
LEMMA PartsOfFlat ==
    ASSUME NEW S, NEW s \in Seq(Seq(S)), NEW flat, IsFlat(flat, S, s)
    PROVE  \A k \in 1..Len(s) : PartAt(flat, flat[Len(s)], s, k)
<1> DEFINE n == Len(s)
           all == flat[n]
<1>1. n \in Nat /\ \A k \in 1..n : s[k] \in Seq(S)
  BY LenProperties, ElementOfSeq
<1> HIDE DEF n
<1>2. /\ \A k \in 0..n : flat[k] \in Seq(S) /\ Len(flat[k]) \in Nat
      /\ \A k \in 1..n : flat[k] = flat[k - 1] \o s[k]
  <2>1. \A k \in 0..n : flat[k] \in Seq(S)
    BY DEF IsFlat, n
  <2> QED
    BY <2>1, LenProperties DEF IsFlat, n
<1>3. ASSUME NEW k \in 1..n
      PROVE  /\ k \in 0..n /\ k - 1 \in 0..n
             /\ Len(flat[k]) = Len(flat[k - 1]) + Len(s[k])
             /\ Len(flat[k - 1]) \in Nat /\ Len(s[k]) \in Nat
             /\ \A j \in 1..Len(flat[k - 1]) + Len(s[k]) :
                   flat[k][j] = IF j <= Len(flat[k - 1]) THEN flat[k - 1][j]
                                ELSE s[k][j - Len(flat[k - 1])]
  <2>1. k \in 0..n /\ k - 1 \in 0..n
    BY <1>1
  <2>2. /\ flat[k - 1] \in Seq(S) /\ s[k] \in Seq(S) /\ Len(flat[k - 1]) \in Nat
        /\ Len(s[k]) \in Nat /\ flat[k] = flat[k - 1] \o s[k]
    BY <1>1, <1>2, <2>1, LenProperties
  <2> DEFINE u == flat[k - 1]
             v == s[k]
             q == flat[k]
  <2>3. u \in Seq(S) /\ v \in Seq(S) /\ q = u \o v
    BY <2>2
  <2> HIDE DEF u, v, q
  <2>4. /\ Len(q) = Len(u) + Len(v)
        /\ \A j \in 1..Len(u) + Len(v) : q[j] = IF j <= Len(u) THEN u[j] ELSE v[j - Len(u)]
    BY <2>3, ConcatProperties
  <2> QED
    BY <2>1, <2>2, <2>4 DEF u, v, q
<1> DEFINE Begins(k) == /\ Len(flat[k]) <= Len(all)
                        /\ \A j \in 1..Len(flat[k]) : all[j] = flat[k][j]
           T == {d \in Nat : d <= n => Begins(n - d)}
<1>4. 0 \in T
  <2>1. n - 0 = n /\ n \in 0..n
    BY <1>1
  <2>2. Len(all) \in Nat
    BY <1>2, <2>1
  <2> QED
    BY <2>1, <2>2
<1>5. ASSUME NEW d \in Nat, d \in T PROVE d + 1 \in T
  <2> SUFFICES ASSUME d + 1 <= n PROVE Begins(n - (d + 1))
    OBVIOUS
  <2> DEFINE k == n - d
  <2>1. k \in 1..n /\ n - (d + 1) = k - 1 /\ d <= n
    BY <1>1
  <2>2. Begins(k)
    BY <1>5, <2>1
  <2> HIDE DEF all
  <2>3. Begins(k - 1)
    <3> HIDE DEF k
    <3>0. Len(all) \in Nat
      <4>1. n \in 0..n
        BY <1>1
      <4> QED
        BY <1>2, <4>1 DEF all
    <3>1. /\ Len(flat[k]) = Len(flat[k - 1]) + Len(s[k])
          /\ Len(flat[k - 1]) \in Nat /\ Len(s[k]) \in Nat
          /\ \A j \in 1..Len(flat[k - 1]) + Len(s[k]) :
                flat[k][j] = IF j <= Len(flat[k - 1]) THEN flat[k - 1][j]
                             ELSE s[k][j - Len(flat[k - 1])]
      BY <1>3, <2>1
    <3> DEFINE before == flat[k - 1]
               x == Len(before)
               y == Len(s[k])
    <3>2. /\ Len(flat[k]) = x + y /\ x \in Nat /\ y \in Nat
          /\ \A j \in 1..x + y : flat[k][j] = IF j <= x THEN before[j] ELSE s[k][j - x]
      BY <3>1
    <3> HIDE DEF x, y, before
    <3>3. x <= Len(all)
      BY <2>2, <3>0, <3>2
    <3>4. ASSUME NEW j \in 1..x PROVE all[j] = before[j]
      <4>1. j \in 1..x + y /\ j <= x
        BY <3>2
      <4>2. all[j] = flat[k][j]
        BY <2>2, <3>2, <4>1
      <4> QED
        BY <3>2, <4>1, <4>2
    <3> QED
      BY <3>3, <3>4 DEF x, before
  <2> QED
    BY <2>1, <2>3 DEF all
<1> HIDE DEF T
<1>6. ASSUME NEW k \in 0..n PROVE Begins(k)
  <2>1. n - k \in Nat /\ n - k <= n /\ n - (n - k) = k
    BY <1>1
  <2>2. n - k \in T
    BY <1>4, <1>5, <2>1, SetInduction
  <2> DEFINE d == n - k
  <2>3. d <= n /\ n - d = k /\ d \in T
    BY <2>1, <2>2
  <2> HIDE DEF d, Begins
  <2>4. Begins(n - d)
    BY <2>3 DEF T
  <2> QED
    BY <2>3, <2>4
<1> HIDE DEF all
<1>7. ASSUME NEW k \in 1..n
      PROVE  PartAt(flat, all, s, k)
  <2> DEFINE a == Len(flat[k - 1])
             v == s[k]
  <2>1. /\ k \in 0..n /\ Len(flat[k]) = a + Len(v) /\ a \in Nat /\ Len(v) \in Nat
        /\ \A j \in 1..a + Len(v) : flat[k][j] = IF j <= a THEN flat[k - 1][j] ELSE v[j - a]
    BY <1>3
  <2>2. Len(flat[k]) <= Len(all) /\ \A j \in 1..Len(flat[k]) : all[j] = flat[k][j]
    BY <1>6, <2>1
  <2>3. v \in Seq(S)
    BY <1>1
  <2> HIDE DEF a, v
  <2>4. ASSUME NEW j \in 1..Len(v) PROVE all[a + j] = v[j]
    <3>1. a + j \in 1..a + Len(v) /\ ~(a + j <= a) /\ (a + j) - a = j
      BY <2>1
    <3>2. flat[k][a + j] = v[(a + j) - a]
      BY <2>1, <3>1
    <3> QED
      BY <2>1, <2>2, <3>1, <3>2
  <2>5. a + Len(v) <= Len(all)
    BY <2>1, <2>2
  <2> QED
    BY <2>1, <2>4, <2>5 DEF a, v, PartAt
<1> QED
  BY <1>7 DEF n, all

LEMMA ConcatAssoc ==
    ASSUME NEW S, NEW s \in Seq(S), NEW t \in Seq(S), NEW u \in Seq(S)
    PROVE  (s \o t) \o u = s \o (t \o u)
<1> DEFINE x == s \o t
           y == t \o u
           A == x \o u
           B == s \o y
<1>1. /\ x \in Seq(S) /\ Len(x) = Len(s) + Len(t)
      /\ \A i \in 1..Len(s) + Len(t) : x[i] = IF i <= Len(s) THEN s[i] ELSE t[i - Len(s)]
  BY ConcatProperties
<1>2. /\ y \in Seq(S) /\ Len(y) = Len(t) + Len(u)
      /\ \A i \in 1..Len(t) + Len(u) : y[i] = IF i <= Len(t) THEN t[i] ELSE u[i - Len(t)]
  BY ConcatProperties
<1>3. Len(s) \in Nat /\ Len(t) \in Nat /\ Len(u) \in Nat
  BY LenProperties
<1> HIDE DEF x, y
<1>4. /\ A \in Seq(S) /\ Len(A) = Len(x) + Len(u)
      /\ \A i \in 1..Len(x) + Len(u) : A[i] = IF i <= Len(x) THEN x[i] ELSE u[i - Len(x)]
  <2>1. x \in Seq(S)
    BY <1>1
  <2> QED
    BY <2>1, ConcatProperties
<1>5. /\ B \in Seq(S) /\ Len(B) = Len(s) + Len(y)
      /\ \A i \in 1..Len(s) + Len(y) : B[i] = IF i <= Len(s) THEN s[i] ELSE y[i - Len(s)]
  <2>1. y \in Seq(S)
    BY <1>2
  <2> QED
    BY <2>1, ConcatProperties
<1> HIDE DEF A, B
<1>6. Len(A) = Len(B)
  BY <1>1, <1>2, <1>3, <1>4, <1>5
<1>7. ASSUME NEW i \in 1..Len(A) PROVE A[i] = B[i]
  <2>0. i \in 1..Len(x) + Len(u) /\ i \in 1..Len(s) + Len(y)
    BY <1>4, <1>5, <1>6
  <2>1. CASE i <= Len(s)
    <3>1. i <= Len(x) /\ i \in 1..Len(s) + Len(t)
      BY <1>1, <1>3, <2>1
    <3> QED
      BY <1>1, <1>4, <1>5, <2>0, <2>1, <3>1
  <2>2. CASE ~(i <= Len(s)) /\ i <= Len(s) + Len(t)
    <3>1. /\ i <= Len(x) /\ i \in 1..Len(s) + Len(t)
          /\ i - Len(s) \in 1..Len(t) + Len(u) /\ i - Len(s) <= Len(t)
      BY <1>1, <1>3, <2>2
    <3>2. A[i] = t[i - Len(s)]
      BY <1>1, <1>4, <2>0, <2>2, <3>1
    <3>3. B[i] = t[i - Len(s)]
      BY <1>2, <1>5, <2>0, <2>2, <3>1
    <3> QED
      BY <3>2, <3>3
  <2>3. CASE ~(i <= Len(s) + Len(t))
    <3>1. /\ ~(i <= Len(x)) /\ ~(i <= Len(s))
          /\ i - Len(s) \in 1..Len(t) + Len(u) /\ ~(i - Len(s) <= Len(t))
          /\ i - Len(x) = (i - Len(s)) - Len(t)
      BY <1>1, <1>2, <1>3, <2>0, <2>3
    <3>2. A[i] = u[i - Len(x)]
      BY <1>4, <2>0, <3>1
    <3>3. B[i] = u[(i - Len(s)) - Len(t)]
      BY <1>2, <1>5, <2>0, <3>1
    <3> QED
      BY <3>1, <3>2, <3>3
  <2> QED
    BY <2>1, <2>2, <2>3
<1>8. A = B
  BY <1>4, <1>5, <1>6, <1>7, SeqEqual
<1> QED
  BY <1>8 DEF A, B, x, y

\* A string of listed codes gives their texts.
LEMMA DecodedCodes ==
    ASSUME Map!CMapAssumption, Map!IsReading(cm), listed = Map!Held(cm),
           NEW codes \in Seq(Seq(Map!Byte)), \A k \in DOMAIN codes : Map!IsListed(codes[k])
    PROVE  Map!DecodeCMap(cm, FlattenSeq(codes)) =
               Map!Outcome(FlattenSeq([k \in DOMAIN codes |-> Map!Expected(codes[k])]))
<1> DEFINE n == Len(codes)
           texts == [k \in DOMAIN codes |-> Map!Expected(codes[k])]
           raw == FlattenSeq(codes)
           C == Seq(Rune)
<1>1. n \in Nat /\ DOMAIN codes = 1..n /\ \A k \in 1..n : codes[k] \in Seq(Map!Byte)
  BY LenProperties, ElementOfSeq
<1>2. ASSUME NEW k \in 1..n
      PROVE  LET c == codes[k]
             IN /\ Map!IsCode(c) /\ c # << >>
                /\ Map!CodeText(cm, c) = Map!Expected(c) /\ Map!Expected(c) \in C
  <2> DEFINE c == codes[k]
  <2>1. Map!IsListed(c) /\ c \in Seq(Map!Byte)
    BY <1>1
  <2> HIDE DEF c
  <2>2. Map!IsCode(c)
    BY <2>1 DEF Map!IsListed
  <2>3. Len(c) >= 1
    <3>1. \A i \in 1..Len(c) : c[i] = c[i]
      OBVIOUS
    <3>2. Len(c) <= Len(c)
      BY <2>1, LenProperties
    <3> QED
      BY <2>1, <2>2, <3>1, <3>2, WidthIs
  <2>4. c # << >>
    BY <2>3
  <2>5. Map!CodeText(cm, c) = Map!Expected(c)
    BY <2>1, <2>4, CodeTextIs
  <2>6. Map!CodeText(cm, c) \in C
    BY <2>1, <2>4, CodeTextTyped
  <2> QED
    BY <2>2, <2>4, <2>5, <2>6 DEF c
<1>3. /\ texts \in Seq(C) /\ Len(texts) = n
      /\ \A k \in 1..n : texts[k] = Map!Expected(codes[k]) /\ texts[k] \in C
  <2> HIDE DEF C, n
  <2>1. \A k \in 1..n : Map!Expected(codes[k]) \in C
    BY <1>2
  <2>2. texts \in [1..n -> C]
    BY <1>1, <2>1
  <2>3. texts \in Seq(C)
    BY <1>1, <2>2, SeqDef
  <2>4. Len(texts) = n
    <3>1. DOMAIN texts = 1..n /\ DOMAIN texts = 1..Len(texts) /\ Len(texts) \in Nat
      BY <2>2, <2>3, LenProperties
    <3> QED
      BY <1>1, <3>1
  <2> QED
    BY <1>1, <2>1, <2>3, <2>4
<1>4. PICK flat : IsFlat(flat, Map!Byte, codes) /\ flat[n] = raw
  BY FlatExists
<1> HIDE DEF texts
<1>5. PICK shown : IsFlat(shown, Rune, texts) /\ shown[Len(texts)] = FlattenSeq(texts)
  BY <1>3, FlatExists
<1>6. /\ flat[0] = << >> /\ raw \in Seq(Map!Byte) /\ Len(raw) \in Nat
  <2>1. n \in 0..n
    BY <1>1
  <2>2. raw \in Seq(Map!Byte)
    BY <1>4, <2>1 DEF IsFlat
  <2> QED
    BY <1>4, <2>2, LenProperties DEF IsFlat
<1> HIDE DEF raw, n, C
<1>7. PICK f : Decodes(f, cm, raw) /\ Map!DecodeCMap(cm, raw) = Map!Outcome(f[1])
  BY <1>6, DecodeIs
<1>8. /\ shown[0] = << >> /\ \A k \in 0..n : shown[k] \in C
      /\ \A k \in 1..n : shown[k] = shown[k - 1] \o texts[k]
  BY <1>3, <1>5 DEF IsFlat, C
<1>9. \A k \in 1..n : PartAt(flat, raw, codes, k)
  BY <1>4, PartsOfFlat DEF n
<1>10. ASSUME NEW k \in 1..n
       PROVE  /\ f[Len(flat[k - 1]) + 1] = texts[k] \o f[Len(flat[k]) + 1]
              /\ f[Len(flat[k]) + 1] \in C
  <2> DEFINE a == Len(flat[k - 1])
             c == codes[k]
             m == Len(c)
             i == a + 1
             rest == SubSeq(raw, i, Len(raw))
  <2>1. /\ a \in Nat /\ Len(flat[k]) = a + m /\ a + m <= Len(raw)
        /\ \A j \in 1..m : raw[a + j] = c[j]
    BY <1>9 DEF PartAt
  <2>2. /\ c \in Seq(Map!Byte) /\ Map!IsCode(c) /\ Map!CodeText(cm, c) = texts[k]
    BY <1>1, <1>2, <1>3
  <2>3. m \in Nat /\ m >= 1
    <3> HIDE DEF c
    <3>1. \A j \in 1..m : c[j] = c[j]
      OBVIOUS
    <3>2. m \in Nat /\ m <= m
      BY <2>2, LenProperties
    <3> QED
      BY <2>2, <3>1, <3>2, WidthIs
  <2> HIDE DEF a, c, m
  <2>4. i \in 1..Len(raw) /\ i + m \in 1..Len(raw) + 1
    BY <1>6, <2>1, <2>3
  <2>5. /\ rest \in Seq(Map!Byte) /\ Len(rest) = Len(raw) + 1 - i
        /\ \A j \in 1..Len(raw) + 1 - i : rest[j] = raw[i + j - 1]
    <3> HIDE DEF i
    <3> QED
      BY <1>6, <2>4, SuffixIs
  <2>6. m <= Len(rest)
    BY <1>6, <2>1, <2>3, <2>5
  <2>7. \A j \in 1..m : rest[j] = c[j]
    <3> TAKE j \in 1..m
    <3>1. j \in 1..Len(raw) + 1 - i /\ i + j - 1 = a + j
      BY <1>6, <2>1, <2>3
    <3>2. rest[j] = raw[i + j - 1]
      BY <2>5, <3>1
    <3> QED
      BY <2>1, <3>1, <3>2
  <2>8. Map!Width(cm, rest) = m
    <3> HIDE DEF rest
    <3>1. Len(c) <= Len(rest) /\ \A j \in 1..Len(c) : rest[j] = c[j]
      BY <2>6, <2>7 DEF m
    <3> QED
      BY <2>2, <2>5, <3>1, WidthIs DEF m
  <2>9. SubSeq(raw, i, i + m - 1) = c
    <3> DEFINE q == SubSeq(raw, a + 1, a + m)
    <3>1. /\ q \in Seq(Map!Byte) /\ Len(q) = m
          /\ \A j \in 1..m : q[j] = raw[a + j]
      BY <1>6, <2>1, <2>3, PrefixIs, SMTT(30)
    <3>2. i + m - 1 = a + m
      BY <2>1, <2>3
    <3> HIDE DEF q
    <3>3. q = c
      BY <2>1, <2>2, <3>1, SeqEqual DEF m
    <3> QED
      BY <3>2, <3>3 DEF q
  <2>10. f[i] = Map!CodeText(cm, SubSeq(raw, i, i + m - 1)) \o f[i + m]
    <3>1. m # 0
      BY <2>3
    <3> HIDE DEF i
    <3>2. LET width == Map!Width(cm, SubSeq(raw, i, Len(raw)))
          IN width # 0 => f[i] = Map!CodeText(cm, SubSeq(raw, i, i + width - 1)) \o f[i + width]
      BY <1>7, <2>4 DEF Decodes
    <3> QED
      BY <2>8, <3>1, <3>2
  <2>11. f[i] = texts[k] \o f[i + m]
    BY <2>2, <2>9, <2>10
  <2>12. f[i + m] \in C
    <3> HIDE DEF i
    <3> QED
      BY <1>7, <2>4 DEF Decodes, C
  <2>13. i + m = Len(flat[k]) + 1
    BY <2>1, <2>3
  <2> QED
    BY <2>11, <2>12, <2>13 DEF a
<1> DEFINE Done(k) == f[1] = shown[k] \o f[Len(flat[k]) + 1]
           T == {k \in Nat : k <= n => Done(k)}
<1>11. f[1] \in C
  <2>1. 1 \in 1..Len(raw) + 1
    BY <1>6
  <2> QED
    BY <1>7, <2>1 DEF Decodes, C
<1>12. 0 \in T
  <2>1. Len(flat[0]) + 1 = 1
    BY <1>6
  <2>2. << >> \o f[1] = f[1]
    BY <1>11, ConcatEmptySeq DEF C
  <2> QED
    BY <1>8, <2>1, <2>2
<1> HIDE DEF Done
<1>13. ASSUME NEW k \in Nat, k \in T PROVE k + 1 \in T
  <2> SUFFICES ASSUME k + 1 <= n PROVE Done(k + 1)
    OBVIOUS
  <2> DEFINE next == k + 1
             before == shown[k]
             x == f[Len(flat[k]) + 1]
             y == f[Len(flat[next]) + 1]
  <2>1. next \in 1..n /\ next - 1 = k /\ k \in 0..n /\ k <= n
    BY <1>1
  <2>2. Done(k)
    BY <1>13, <2>1
  <2> HIDE DEF next
  <2>3. x = texts[next] \o y /\ y \in C
    BY <1>10, <2>1
  <2>4. shown[next] = shown[k] \o texts[next] /\ shown[k] \in C /\ texts[next] \in C
    BY <1>3, <1>8, <2>1
  <2> DEFINE text == texts[next]
  <2>5. f[1] = before \o x
    BY <2>2 DEF Done
  <2> HIDE DEF x, y, text, before
  <2>6. before \in Seq(Rune) /\ text \in Seq(Rune) /\ y \in Seq(Rune)
    BY <2>3, <2>4 DEF C, text, before
  <2>7. (before \o text) \o y = before \o (text \o y)
    BY <2>6, ConcatAssoc, SMTT(30)
  <2>8. f[1] = shown[next] \o y
    BY <2>3, <2>4, <2>5, <2>7 DEF text, before
  <2> QED
    BY <2>8 DEF Done, y, next
<1> HIDE DEF T
<1>14. n \in T
  BY <1>1, <1>12, <1>13, SetInduction
<1>15. f[1] = shown[n] \o f[Len(flat[n]) + 1]
  <2>1. n <= n
    BY <1>1
  <2> QED
    BY <1>14, <2>1 DEF T, Done
<1>16. f[Len(flat[n]) + 1] = << >>
  BY <1>4, <1>7 DEF Decodes
<1>17. shown[n] \in C /\ shown[n] \o << >> = shown[n]
  <2>1. n \in 0..n
    BY <1>1
  <2>2. shown[n] \in C
    BY <1>8, <2>1
  <2> QED
    BY <2>2, ConcatEmptySeq DEF C
<1> QED
  BY <1>3, <1>5, <1>7, <1>15, <1>16, <1>17 DEF texts, raw

\* What an orderly program lists is what the map decodes (MapDecodesAsListed).
LEMMA MapDecodes ==
    ASSUME Map!CMapAssumption, Map!EncodingsAssumption, Map!Inv
    PROVE  Map!MapDecodesAsListed
<1> SUFFICES ASSUME enc = "cmap", odd = 0, NEW codes \in Texts,
                    \A k \in DOMAIN codes : Map!IsListed(codes[k])
             PROVE  Map!Decode(Map!FlattenSeq(codes), TRUE)
                        = Map!Outcome(Map!FlattenSeq(
                             [k \in DOMAIN codes |-> Map!Expected(codes[k])]))
  BY DEF Map!MapDecodesAsListed
<1>1. Map!IsReading(cm) /\ cm.status = "reading" /\ Map!HoldsListed
  BY DEF Map!Inv
<1>2. listed = Map!Held(cm)
  BY <1>1 DEF Map!HoldsListed
<1>3. codes \in Seq(Seq(Map!Byte)) /\ Map!FlattenSeq(codes) = FlattenSeq(codes)
  BY TextsTyped
<1> DEFINE raw == FlattenSeq(codes)
           texts == [k \in DOMAIN codes |-> Map!Expected(codes[k])]
<1>4. Map!DecodeCMap(cm, raw) = Map!Outcome(FlattenSeq(texts))
  BY <1>1, <1>2, <1>3, DecodedCodes
<1>5. Map!FlattenSeq(texts) = FlattenSeq(texts)
  BY FlattenSame
<1> HIDE DEF raw, texts
<1>6. Map!Decode(raw, TRUE) = Map!DecodeCMap(cm, raw)
  BY DEF Map!Decode
<1> QED
  BY <1>3, <1>4, <1>5, <1>6 DEF raw, texts

\* Whatever the font, its Differences and the program of its ToUnicode stream: a map
\* cuts a string into the codes that an orderly program lists and shows what it lists
\* for each, or panics on half a pair (page.go 444 and 544), and the other encoders
\* drop no byte and follow the Differences (page.go 303).
THEOREM DecodesAsListedCorrect ==
    ASSUME Map!CMapAssumption, Map!EncodingsAssumption
    PROVE  Map!Spec => []Map!DecodesAsListed
<1>1. Map!Init => Map!Inv
  BY MapInitInv
<1>2. Map!Inv /\ [Map!Next]_(Map!vars) => Map!Inv'
  BY MapStepInv
<1>3. Map!Inv => Map!DecodesAsListed
  BY MapDecodes, TablesKeep DEF Map!DecodesAsListed
<1> QED
  BY <1>1, <1>2, <1>3, PTL DEF Map!Spec

=============================================================================
