----------------------------- MODULE ContentStream -----------------------------
(***************************************************************************)
(* The three readers of a page's content, side by side on the same page:   *)
(*                                                                         *)
(*   plain    GetPlainText, whose panics become an error                   *)
(*   rows     walkTextBlocks, for GetTextByRow and GetTextByColumn         *)
(*   content  Content, for GetStyledTexts, whose panics go to the caller   *)
(*                                                                         *)
(* The program of the page is drawn token by token.  Each operator pops    *)
(* every operand (args) before it looks at them, also when it is unknown,  *)
(* so the operand stacks of the three are equal and ps stands for all.     *)
(*                                                                         *)
(* A string is one code, or empty, and its glyph is 1 wide.  Decoding a    *)
(* string is noting the encoder that is asked, not its answer: whether it  *)
(* answers with text or, when the allocator refuses, with the bytes as     *)
(* they are, is said in Encodings.  Matrices are translations, or all      *)
(* zeros.  Coordinates are halves of a unit.                               *)
(***************************************************************************)
EXTENDS Interpreter

CONSTANTS
    Fonts,          \* names of the fonts in the page's resources
    Codes,          \* the codes a string may consist of
    Runs,           \* operands that may come in a row
    Keywords,       \* keywords that may come
    MaxKeywords,    \* bound on the keywords of a program
    MaxStreams      \* bound on the streams of the page's Contents

NL == "\n"

Strings == Codes \cup {"", NL}

NoFont == "no font"

\* The elements of an array; a reader of TJ treats all that is neither a number
\* nor a string alike, so a name stands for any of them.
Element ==
    [kind : {"num"}, n : Int] \cup [kind : {"name"}, name : STRING]
        \cup [kind : {"string"}, s : Strings]

Operand == Element \cup [kind : {"array"}, elems : Seq(Element)]

ASSUME ContentAssumption ==
    /\ Fonts \cap {NoFont, "nop", "pdfdoc", "unbound", "none"} = {}
    /\ MaxKeywords \in Nat
    /\ MaxStreams \in Nat \ {0}
    /\ Runs \subseteq Seq(Operand)

VARIABLES
    hasFonts,  \* the page's resources have a Font dictionary, never changed
    ps,        \* the machine of Interpret
    plain,     \* GetPlainText: status, encoder, what it has written
    rows,      \* walkTextBlocks: status, encoder, position, pieces of text
    content,   \* Content: status, encoder, graphics state and stack, glyphs
    stream,    \* which of the streams is read, 0 before the first
    read,      \* number of keywords read
    result     \* what the callers get from the texts in the end

vars == <<hasFonts, ps, plain, rows, content, stream, read, result>>

-----------------------------------------------------------------------------
(* Operands *)

Number(v) == IF v.kind = "num" THEN v.n ELSE 0

Name(v) == IF v.kind = "name" THEN v.name ELSE ""

RawString(v) == IF v.kind = "string" THEN v.s ELSE ""

Elements(v) == IF v.kind = "array" THEN v.elems ELSE << >>

Add(p, q) == <<p[1] + q[1], p[2] + q[2]>>

Origin == <<0, 0>>

\* The matrix of zeros, which every move leaves as it is.
Nowhere == << >>

Moved(place, d) == IF place = Nowhere THEN Nowhere ELSE Add(d, place)

-----------------------------------------------------------------------------
(* GetPlainText *)

PlainStart == [status |-> "running", enc |-> "nop", out |-> << >>]

\* A call that failed has nothing; how is "panicked" or "stopped".
PlainFailed(how) == [status |-> how, enc |-> "nop", out |-> << >>]

PlainShow(p, s) ==
    IF s = "" THEN p ELSE [p EXCEPT !.out = Append(@, [enc |-> p.enc, s |-> s])]

\* Operators that check their number of operands.  The operator " asks for
\* three and falls through to ', which asks for one.
TextPanics(op, args) ==
    \/ op = "Tf" /\ Len(args) # 2
    \/ op \in {"'", "Tj"} /\ Len(args) # 1
    \/ op = "TJ" /\ args = << >>
    \/ op = "\""

\* The page has a font of this name.
HasFont(f) == hasFonts /\ f \in Fonts

\* The encoder after Tf: fonts are looked up in the map made before.
Lookup(op, args, enc) ==
    IF HasFont(Name(args[1])) THEN Name(args[1]) ELSE "nop"

\* The strings of a TJ array.
PlainArray(p, elems) ==
    LET after[n \in 0..Len(elems)] ==
            IF n = 0 THEN p ELSE PlainShow(after[n - 1], RawString(elems[n]))
    IN after[Len(elems)]

\* The operator op on a call of GetPlainText that goes on.
PlainDo(p, op, args) ==
    CASE op = "BT" -> [p EXCEPT !.out = Append(@, [enc |-> "none", s |-> NL])]
      [] op = "T*" -> PlainShow(p, NL)
      [] op = "Tf" -> [p EXCEPT !.enc = Lookup(op, args, @)]
      [] op \in {"'", "Tj"} -> PlainShow(p, RawString(args[1]))
      [] op = "TJ" -> PlainArray(p, Elements(args[1]))
      [] OTHER -> p

PlainAfter(p, op, args) ==
    IF p.status # "running" THEN p
    ELSE IF TextPanics(op, args) THEN PlainFailed("panicked")
    ELSE PlainDo(p, op, args)

-----------------------------------------------------------------------------
(* walkTextBlocks *)

RowsStart ==
    [status |-> "running", enc |-> "nop", at |-> Origin, out |-> << >>]

\* The panic is recovered in GetTextByRow and GetTextByColumn, which then return
\* neither text nor an error: what the recover assigns are no named results.
RowsFailed(how) ==
    [status |-> how, enc |-> "nop", at |-> Origin, out |-> << >>]

Piece(w, s) == [enc |-> w.enc, s |-> s, x |-> w.at[1], y |-> w.at[2]]

Walker(w, s) == [w EXCEPT !.out = Append(@, Piece(w, s))]

\* Mutant: the array of TJ ends at its first number.
WalkArrayShort(w, elems) ==
    IF elems # << >> /\ Head(elems).kind = "string"
    THEN Walker(w, RawString(Head(elems))) ELSE w

WalkElement(w, v) == IF v.kind = "string" THEN Walker(w, v.s) ELSE w

\* The strings of a TJ array, all at the same place.
WalkArray(w, elems) ==
    LET after[n \in 0..Len(elems)] ==
            IF n = 0 THEN w ELSE WalkElement(after[n - 1], elems[n])
    IN after[Len(elems)]

\* Td does not move the position; Tm does, by its last two operands.
RowsDo(w, op, args) ==
    CASE op = "Tf" -> [w EXCEPT !.enc = Lookup(op, args, @)]
      [] op \in {"'", "Tj"} -> Walker(w, RawString(args[1]))
      [] op = "TJ" -> WalkArray(w, Elements(args[1]))
      [] op = "Td" -> Walker(w, "")
      [] op = "Tm" -> [w EXCEPT !.at = <<Number(args[5]), Number(args[6])>>]
      [] OTHER -> w

RowsAfter(w, op, args) ==
    IF w.status # "running" THEN w
    ELSE IF TextPanics(op, args) \/ (op = "Tm" /\ Len(args) < 6) THEN RowsFailed("panicked")
    ELSE RowsDo(w, op, args)

-----------------------------------------------------------------------------
(* Content *)

\* The parts of gstate that the place, the size and the label of a glyph depend
\* on.  The text matrices are zero until BT, Tm sets them.
InitialG ==
    [tf |-> NoFont, tfs |-> 0, tc |-> 0, tl |-> 0, tm |-> Nowhere,
     tlm |-> Nowhere, ctm |-> Origin]

\* Two fields are no variables of the program: restored, that Q has brought back
\* another font since the last Tf, and quoted, that the program had the operator ".
ContentStart ==
    [status |-> "running", enc |-> "nop", g |-> InitialG, gstack |-> << >>,
     text |-> << >>, restored |-> FALSE, quoted |-> FALSE]

ContentFailed(how) == [ContentStart EXCEPT !.status = how]

\* With a text matrix of zeros a glyph has no size and is at the origin.
Glyph(c, s) ==
    [font |-> c.g.tf, enc |-> c.enc, s |-> s,
     size |-> IF c.g.tm = Nowhere THEN 0 ELSE c.g.tfs,
     at |-> IF c.g.tm = Nowhere THEN Origin ELSE Add(c.g.tm, c.g.ctm),
     restored |-> c.restored]

Advance(c, d) == [c EXCEPT !.g.tm = Moved(@, <<d, 0>>)]

ShowText(c, s) ==
    IF s = "" THEN c
    ELSE Advance([c EXCEPT !.text = Append(@, Glyph(c, s))], 1 + c.g.tc)

ShowElement(c, v) ==
    IF v.kind = "string" THEN ShowText(c, v.s) ELSE Advance(c, -Number(v))

\* The strings of a TJ array, and the numbers that move them.
ShowArray(c, elems) ==
    LET after[n \in 0..Len(elems)] ==
            IF n = 0 THEN c ELSE ShowElement(after[n - 1], elems[n])
    IN after[Len(elems)]

\* The start of a line d away from the start of this one.
NextLine(c, d) ==
    LET there == Moved(c.g.tlm, d) IN [c EXCEPT !.g.tlm = there, !.g.tm = there]

OneOperand == {"Tc", "TL", "Tr", "Ts", "Tw", "Tz", "'", "Tj"}

Showing == {"'", "\"", "Tj", "TJ"}

\* Mutant: operators with one operand ignore any others.
ContentPanicsLate(c, op, args) ==
    \/ op \in OneOperand /\ args = << >>
    \/ op \in {"cm", "Tm"} /\ Len(args) # 6
    \/ op = "re" /\ Len(args) # 4
    \/ op \in {"Td", "TD", "Tf"} /\ Len(args) # 2
    \/ op = "\"" /\ Len(args) # 3
    \/ op = "TJ" /\ args = << >>
    \/ op = "Q" /\ c.gstack = << >>
    \/ op \in Showing /\ c.enc = "unbound"

\* The checks of operands, the empty stack of graphics states, and an encoder
\* without a reader, which panics whatever it is given to decode.
ContentPanics(c, op, args) ==
    \/ op \in OneOperand /\ Len(args) # 1
    \/ op \in {"cm", "Tm"} /\ Len(args) # 6
    \/ op = "re" /\ Len(args) # 4
    \/ op \in {"Td", "TD", "Tf"} /\ Len(args) # 2
    \/ op = "\"" /\ Len(args) # 3
    \/ op = "TJ" /\ args = << >>
    \/ op = "Q" /\ c.gstack = << >>
    \/ op \in Showing /\ c.enc = "unbound"

\* A name the page has no font for is decoded as PDFDocEncoding, by an encoder
\* that has a reader only if there is a Font dictionary to look the name up in.
FontEncoder(f) ==
    IF HasFont(f) THEN f ELSE IF hasFonts THEN "pdfdoc" ELSE "unbound"

FontLabel(f) == IF HasFont(f) THEN f ELSE NoFont

\* Mutant: the encoder is looked up only for the first font of the page.
SetFontOnce(c, args) ==
    [c EXCEPT !.g.tf = FontLabel(Name(args[1])),
              !.g.tfs = Number(args[2]),
              !.enc = IF @ = "nop" THEN FontEncoder(Name(args[1])) ELSE @,
              !.restored = FALSE]

\* Tf: the font and its encoder are looked up anew, and the size is set.
SetFont(c, args) ==
    [c EXCEPT !.g.tf = FontLabel(Name(args[1])),
              !.g.tfs = Number(args[2]),
              !.enc = FontEncoder(Name(args[1])),
              !.restored = FALSE]

\* Q brings back the font and leaves the encoder.
Restore(c) ==
    [c EXCEPT !.g = Last(c.gstack),
              !.gstack = Front(@),
              !.restored = @ \/ Last(c.gstack).tf # c.g.tf]

\* Tc, TL, TD, Tm, cm and Tf set a part of the graphics state, BT resets two.
SetState(c, op, args) ==
    CASE op = "BT" -> [c EXCEPT !.g.tm = Origin, !.g.tlm = Origin]
      [] op = "cm" -> [c EXCEPT !.g.ctm = Add(<<Number(args[5]), Number(args[6])>>, @)]
      [] op = "Tc" -> [c EXCEPT !.g.tc = Number(args[1])]
      [] op = "TL" -> [c EXCEPT !.g.tl = Number(args[1])]
      [] op = "Tf" -> SetFont(c, args)
      [] op = "Tm" -> [c EXCEPT !.g.tm = <<Number(args[5]), Number(args[6])>>,
                                !.g.tlm = <<Number(args[5]), Number(args[6])>>]

\* The operators that start a line; TD also sets the leading, " the spacing.
MoveLine(c, op, args) ==
    CASE op = "Td" -> NextLine(c, <<Number(args[1]), Number(args[2])>>)
      [] op = "TD" -> NextLine([c EXCEPT !.g.tl = -Number(args[2])],
                               <<Number(args[1]), Number(args[2])>>)
      [] op \in {"T*", "'"} -> NextLine(c, <<0, -c.g.tl>>)
      [] op = "\"" -> NextLine([c EXCEPT !.g.tc = Number(args[2])], <<0, -c.g.tl>>)

\* After TJ a newline is shown, through the encoder and with its width.
ContentDo(c, op, args) ==
    CASE op \in {"BT", "cm", "Tc", "TL", "Tf", "Tm"} -> SetState(c, op, args)
      [] op = "q" -> [c EXCEPT !.gstack = Append(@, c.g)]
      [] op = "Q" -> Restore(c)
      [] op \in {"Td", "TD", "T*"} -> MoveLine(c, op, args)
      [] op \in {"'", "\""} ->
             ShowText([MoveLine(c, op, args) EXCEPT !.quoted = @ \/ op = "\""],
                      RawString(args[Len(args)]))
      [] op = "Tj" -> ShowText(c, RawString(args[1]))
      [] op = "TJ" -> ShowText(ShowArray(c, Elements(args[1])), NL)
      [] OTHER -> c

ContentAfter(c, op, args) ==
    IF c.status # "running" THEN c
    ELSE IF ContentPanics(c, op, args) THEN ContentFailed("panicked")
    ELSE ContentDo(c, op, args)

-----------------------------------------------------------------------------
(* What the callers make of the texts *)

\* int64(x): the fraction is cut off, towards zero.
Trunc(x) == IF x >= 0 THEN x \div 2 ELSE -((-x) \div 2)

\* The orders of pieces, TextHorizontal.Less and TextVertical.Less, and of groups.
Less(order, a, b) ==
    CASE order = "TextHorizontal" -> a.x < b.x \/ (a.x = b.x /\ a.y > b.y)
      [] order = "TextVertical" -> a.y > b.y \/ (a.y = b.y /\ a.x < b.x)
      [] order = "Rows" -> a.position > b.position
      [] order = "Columns" -> a.position < b.position

\* The element e comes before the first element it is less than.
Put(order, seq, e) ==
    LET after == {i \in DOMAIN seq : Less(order, e, seq[i])}
    IN InsertAt(seq, Min(after \cup {Len(seq) + 1}), e)

Sorted(order, seq) ==
    LET upTo[n \in 0..Len(seq)] ==
            IF n = 0 THEN << >> ELSE Put(order, upTo[n - 1], seq[n])
    IN upTo[Len(seq)]

\* The position of the row or the column that a piece is in.
Position(groups, p) == Trunc(IF groups = "Rows" THEN p.y ELSE p.x)

\* A piece goes to the group at its position, or it is the first of a new one.
Join(groups, found, p) ==
    LET at == Position(groups, p)
    IN IF \E i \in DOMAIN found : found[i].position = at
       THEN [i \in DOMAIN found |->
                IF found[i].position = at
                THEN [found[i] EXCEPT !.pieces = Append(@, p)] ELSE found[i]]
       ELSE Append(found, [position |-> at, pieces |-> <<p>>])

\* The groups in the order of their first pieces.
Found(groups, out) ==
    LET upTo[n \in 0..Len(out)] ==
            IF n = 0 THEN << >> ELSE Join(groups, upTo[n - 1], out[n])
    IN upTo[Len(out)]

\* The pieces of every group sorted.
PiecesSorted(order, found) ==
    [i \in DOMAIN found |-> [found[i] EXCEPT !.pieces = Sorted(order, @)]]

\* Mutant: the rows stay in the order they were found.
RowsOfUnsorted(out) == PiecesSorted("TextHorizontal", Found("Rows", out))

\* GetTextByRow: pieces by the whole part of Y, rows from the top down.
RowsOf(out) == Sorted("Rows", PiecesSorted("TextHorizontal", Found("Rows", out)))

\* GetTextByColumn: pieces by the whole part of X, columns left to right.
ColumnsOf(out) ==
    Sorted("Columns", PiecesSorted("TextVertical", Found("Columns", out)))

\* IsSameSentence; five units are the ten halves of a coordinate, and sizes that
\* differ by less than a tenth are equal.
SameSentence(last, glyph) ==
    /\ last.font = glyph.font
    /\ last.size = glyph.size
    /\ last.y - glyph.at[2] \in -9..9

Sentence(glyph) ==
    [font |-> glyph.font, size |-> glyph.size, y |-> glyph.at[2], s |-> <<glyph.s>>]

\* The glyph goes to the last sentence or starts one.
JoinSentence(found, glyph) ==
    IF found # << >> /\ SameSentence(Last(found), glyph)
    THEN [found EXCEPT ![Len(found)].s = Append(@, glyph.s)]
    ELSE Append(found, Sentence(glyph))

\* GetStyledTexts on one page: the last element is lastTextStyle, which is
\* added when the page ends.
SentencesOf(text) ==
    LET upTo[n \in 0..Len(text)] ==
            IF n = 0 THEN << >> ELSE JoinSentence(upTo[n - 1], text[n])
    IN upTo[Len(text)]

-----------------------------------------------------------------------------
NoResult == [rows |-> << >>, columns |-> << >>, sentences |-> << >>]

Running == "running" \in {plain.status, rows.status, content.status}

Init ==
    /\ hasFonts \in BOOLEAN
    /\ ps = Start
    /\ plain = PlainStart
    /\ rows = RowsStart
    /\ content = ContentStart
    /\ stream = 0
    /\ read = 0
    /\ result = NoResult

\* The next stream of an array, or the only one; the stacks go on.
NextStream ==
    /\ Running
    /\ stream < MaxStreams
    /\ stream' = stream + 1
    /\ UNCHANGED <<hasFonts, ps, plain, rows, content, read, result>>

\* Operands; they are objects that readObject returns.
Operands ==
    /\ Running
    /\ stream > 0
    /\ read < MaxKeywords
    /\ ps.stk = << >>
    /\ \E run \in Runs : ps' = [ps EXCEPT !.stk = @ \o run]
    /\ UNCHANGED <<hasFonts, plain, rows, content, stream, read, result>>

Fail(p, failed) == IF p.status = "running" THEN failed ELSE p

\* A panic in every call that is still reading, as what is read is to blame: the
\* lexer finds no token, an element of Contents is not a stream, a string that
\* all show has no decoding, or a keyword of Interpret is out of place.
PanicAll ==
    /\ plain' = Fail(plain, PlainFailed("panicked"))
    /\ rows' = Fail(rows, RowsFailed("panicked"))
    /\ content' = Fail(content, ContentFailed("panicked"))

Malformed ==
    /\ Running
    /\ stream > 0
    /\ PanicAll
    /\ ps' = Start
    /\ UNCHANGED <<hasFonts, stream, read, result>>

\* A call stops alone, at any time: each has its own share of the budget and
\* allocates other things, the operands (page.go 757, 1036, 1167), the pieces of
\* a new column or row (890, 987), the glyphs of a page (1109), and each decodes
\* newlines where the others do not (775, 1314), which may panic (text.go 56).
StopAlone ==
    /\ \/ /\ plain.status = "running"
          /\ plain' = PlainFailed("stopped")
          /\ UNCHANGED <<rows, content>>
       \/ /\ rows.status = "running"
          /\ rows' = RowsFailed("stopped")
          /\ UNCHANGED <<plain, content>>
       \/ /\ content.status = "running"
          /\ content' = ContentFailed("stopped")
          /\ UNCHANGED <<plain, rows>>
    /\ UNCHANGED <<hasFonts, ps, stream, read, result>>

BuiltinKeyword(kw) ==
    /\ kw \in Builtins
    /\ IF BuiltinPanics(ps, kw)
       THEN /\ PanicAll
            /\ ps' = Start
       ELSE /\ ps' = AfterBuiltin(ps, kw)
            /\ UNCHANGED <<plain, rows, content>>

\* A keyword that an open dictionary defines stands for its value.
DefinedKeyword(kw) ==
    /\ kw \notin Builtins
    /\ Defining(ps, kw) # {}
    /\ ps' = Push(ps, Meaning(ps, kw))
    /\ UNCHANGED <<plain, rows, content>>

Operator(op) ==
    /\ op \notin Builtins
    /\ Defining(ps, op) = {}
    /\ plain' = PlainAfter(plain, op, ps.stk)
    /\ rows' = RowsAfter(rows, op, ps.stk)
    /\ content' = ContentAfter(content, op, ps.stk)
    /\ ps' = [ps EXCEPT !.stk = << >>]

Keyword ==
    /\ Running
    /\ stream > 0
    /\ read < MaxKeywords
    /\ \E kw \in Keywords :
          BuiltinKeyword(kw) \/ DefinedKeyword(kw) \/ Operator(kw)
    /\ read' = read + 1
    /\ UNCHANGED <<hasFonts, stream, result>>

Ended(p) == IF p.status = "running" THEN [p EXCEPT !.status = "done"] ELSE p

\* The program ends, or the page has no Contents.  sort.Sort is not stable:
\* pieces at the same place may come out as they came or the other way round.
Finish ==
    /\ Running
    /\ plain' = Ended(plain)
    /\ rows' = Ended(rows)
    /\ content' = Ended(content)
    /\ \E out \in {rows.out, Reverse(rows.out)} :
          result' = [rows |-> RowsOf(out), columns |-> ColumnsOf(out),
                     sentences |-> SentencesOf(content.text)]
    /\ ps' = Start
    /\ UNCHANGED <<hasFonts, stream, read>>

Next ==
    \/ NextStream
    \/ Operands
    \/ Malformed
    \/ StopAlone
    \/ Keyword
    \/ Finish

Spec == Init /\ [][Next]_vars

-----------------------------------------------------------------------------
(* Properties *)

Statuses == {"running", "panicked", "stopped", "done"}

Failed == {"panicked", "stopped"}

\* The call is reading the page or has read it to its end.
Goes(p) == p.status \notin Failed

\* The encoders of a page without a font.
NoFontEncoders == {"nop", "pdfdoc", "unbound"}

Encoders == Fonts \cup NoFontEncoders \cup {"none"}

\* A call that failed holds no text any more.
FailedIsEmpty ==
    /\ ~Goes(plain) => plain.out = << >>
    /\ ~Goes(rows) => rows.out = << >>
    /\ ~Goes(content) => content.text = << >> /\ content.gstack = << >>

\* The shape of the state; a call that failed holds nothing any more, and the
\* callers get rows, columns and sentences only in the end.
TypeOK ==
    /\ plain.status \in Statuses /\ plain.enc \in Encoders
    /\ rows.status \in Statuses /\ rows.enc \in Encoders
    /\ content.status \in Statuses /\ content.enc \in Encoders
    /\ content.g.tf \in Fonts \cup {NoFont}
    /\ \A i \in DOMAIN ps.dicts : ps.dicts[i] \in DOMAIN ps.heap
    /\ stream \in 0..MaxStreams /\ read \in 0..MaxKeywords
    /\ Running => result = NoResult
    /\ FailedIsEmpty

\* One name for the ways to decode a font that is missing.
Decoder(enc) == IF enc \in NoFontEncoders THEN "nop" ELSE enc

\* The glyphs gs and then the string s, unless it is empty or ends a line.
AndGlyph(gs, enc, s) ==
    IF s \in {"", NL} THEN gs ELSE Append(gs, <<Decoder(enc), s>>)

\* The glyphs of a sequence, without line ends and without pieces that are empty.
Glyphs(out) ==
    LET upTo[n \in 0..Len(out)] ==
            IF n = 0 THEN << >> ELSE AndGlyph(upTo[n - 1], out[n].enc, out[n].s)
    IN upTo[Len(out)]

\* The three readers of page.go 713, 1016 and 1093 are written apart; those that
\* have not failed have shown the same strings in the same order through the
\* encoders of the same fonts.
SameText ==
    /\ Goes(plain) /\ Goes(rows) =>
          Glyphs(plain.out) = Glyphs(rows.out)
    /\ Goes(plain) /\ Goes(content) =>
          Glyphs(plain.out) = Glyphs(content.text)
    /\ Goes(rows) /\ Goes(content) =>
          Glyphs(rows.out) = Glyphs(content.text)

\* How often the piece p is in a sequence.
Count(seq, p) == Cardinality({i \in DOMAIN seq : seq[i] = p})

Flat(groups) == FlattenSeq([i \in DOMAIN groups |-> groups[i].pieces])

\* GetTextByRow, GetTextByColumn and GetStyledTexts lose nothing: every piece is
\* exactly once in a row and in a column, and the sentences are the glyphs of the
\* page joined.  Rows and columns are in reading order: a piece of a row is above
\* every piece of a later row, a column is left of the later ones, also where the
\* cut towards zero makes the group at zero twice as wide as the others.
ResultsKeepText ==
    ~Running =>
        /\ \A p \in ToSet(rows.out) :
              /\ Count(Flat(result.rows), p) = Count(rows.out, p)
              /\ Count(Flat(result.columns), p) = Count(rows.out, p)
        /\ \A i, j \in DOMAIN result.rows : i < j =>
              \A p \in ToSet(result.rows[i].pieces) :
                 \A q \in ToSet(result.rows[j].pieces) : p.y > q.y
        /\ \A i, j \in DOMAIN result.columns : i < j =>
              \A p \in ToSet(result.columns[i].pieces) :
                 \A q \in ToSet(result.columns[j].pieces) : p.x < q.x
        /\ FlattenSeq([i \in DOMAIN result.sentences |-> result.sentences[i].s])
              = [i \in DOMAIN content.text |-> content.text[i].s]

\* A glyph of Content is decoded with the encoder of the font it is labelled
\* with, as long as Q has not brought back another font since the last Tf: g.Tf
\* is a part of the graphics state, and the encoder (page.go 1101) is not.
DecodedByItsFont ==
    \A i \in DOMAIN content.text :
        LET t == content.text[i]
        IN \/ t.restored
           \/ t.enc = t.font
           \/ t.font = NoFont /\ t.enc \in NoFontEncoders

\* What the readers ask of the operands nests: on a page that Content has read so
\* far, walkTextBlocks has not panicked, unless there was the operator " (page.go
\* 788 and 1053 ask for three operands and for one), and on one that
\* walkTextBlocks has read, GetPlainText has not.  So Q without q costs the styled
\* text and not the plain text.  Each may still stop alone, for want of memory.
ChecksNest ==
    /\ Goes(content) /\ ~content.quoted => rows.status # "panicked"
    /\ Goes(rows) => plain.status # "panicked"

-----------------------------------------------------------------------------
(* The inductive invariant of the readers. *)

Place == Int \X Int

Matrix == Place \cup {Nowhere}

Value == Operand \cup [kind : {"dict"}, ref : Nat]

PlainState ==
    [status : Statuses, enc : Encoders, out : Seq([enc : Encoders, s : Strings])]

RowsState ==
    [status : Statuses, enc : Encoders, at : Place,
     out : Seq([enc : Encoders, s : Strings, x : Int, y : Int])]

GState ==
    [tf : Fonts \cup {NoFont}, tfs : Int, tc : Int, tl : Int, tm : Matrix,
     tlm : Matrix, ctm : Place]

ContentState ==
    [status : Statuses, enc : Encoders, g : GState, gstack : Seq(GState),
     text : Seq([font : Fonts \cup {NoFont}, enc : Encoders, s : Strings, size : Int,
                 at : Place, restored : BOOLEAN]),
     restored : BOOLEAN, quoted : BOOLEAN]

ReadersOK == plain \in PlainState /\ rows \in RowsState /\ content \in ContentState

\* The three calls end together.
EndTogether == "done" \in {plain.status, rows.status, content.status} => ~Running

\* The font that the next glyph is labelled with and the encoder it goes through.
FontOK ==
    \/ content.restored
    \/ content.enc = content.g.tf
    \/ content.g.tf = NoFont /\ content.enc \in NoFontEncoders

\* The readers that go on decode the next string alike.
SameDecoder ==
    /\ Goes(plain) /\ Goes(rows) =>
          Decoder(plain.enc) = Decoder(rows.enc)
    /\ Goes(plain) /\ Goes(content) =>
          Decoder(plain.enc) = Decoder(content.enc)
    /\ Goes(rows) /\ Goes(content) =>
          Decoder(rows.enc) = Decoder(content.enc)

Inv ==
    /\ IsMachine(Value, ps)
    /\ ReadersOK
    /\ stream \in 0..MaxStreams /\ read \in 0..MaxKeywords
    /\ Running => result = NoResult
    /\ EndTogether
    /\ FailedIsEmpty
    /\ ChecksNest
    /\ FontOK /\ DecodedByItsFont
    /\ SameDecoder /\ SameText
=============================================================================
