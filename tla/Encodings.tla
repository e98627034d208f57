------------------------------- MODULE Encodings -------------------------------
(***************************************************************************)
(* The encoder of a font (getEncoder): a table, the Differences of an      *)
(* encoding, a character map that is read from the ToUnicode stream        *)
(* (readCmap), or none.  The program of the stream is drawn keyword by     *)
(* keyword, each with the operands in front of it.                         *)
(*                                                                         *)
(* A rune of a text is a tuple: a pair of bytes, a preserved byte alone, a *)
(* table and a byte, or the name of a glyph.                               *)
(***************************************************************************)
EXTENDS CMap

CONSTANTS
    Encodings,      \* what Encoding may be: see IsEncoding
    KnownNames,     \* names of glyphs that stand for a rune
    OperandRuns,    \* the operands that may come before each keyword
    Texts,          \* sequences of codes, to decode
    MaxKeywords,    \* bound on the keywords of a program
    MaxOdd          \* bound on its keywords that are out of order

TableOf ==
    [WinAnsiEncoding |-> "winansi", MacRomanEncoding |-> "macroman"]

\* An element of Differences.
Difference ==
    [kind : {"num"}, n : Int] \cup [kind : {"name"}, name : STRING] \cup [kind : {"other"}]

IsEncoding(e) ==
    \/ e.kind = "name"
    \/ e.kind = "dict" /\ e.differences \in Seq(Difference)
    \/ e.kind \in {"null", "other"}

\* What is read of the elements of an array and of an operand.
Element ==
    [kind : {"num"}, n : Int] \cup [kind : {"name"}, name : STRING]
        \cup [kind : {"string"}, s : Seq(Byte)] \cup [kind : {"null"}]

Written == Element \cup [kind : {"array"}, elems : Seq(Element)]

ASSUME EncodingsAssumption ==
    /\ \A e \in Encodings : IsEncoding(e)
    /\ \A kw \in DOMAIN OperandRuns : OperandRuns[kw] \subseteq Seq(Written)
    /\ Texts \subseteq Seq(Seq(Byte))
    /\ MaxKeywords \in Nat /\ MaxOdd \in Nat

VARIABLES
    font,      \* the Encoding of the font, and whether it has a ToUnicode stream
    enc,       \* the encoder that getEncoder returns, "none" before
    ps,        \* the machine of Interpret
    cm,        \* the reading of the character map
    read,      \* number of keywords read
    section,   \* the begin keyword that waits for its end, and the stack below it
    odd,       \* number of keywords out of order
    listed     \* codes and their texts, as the program lists them

vars == <<font, enc, ps, cm, read, section, odd, listed>>

\* The last three are no variables of the program: they note what it was given.
noted == <<section, odd, listed>>

-----------------------------------------------------------------------------
(* getEncoder and the encoders that need no map *)

\* Without a name and with Identity-H, ToUnicode is looked for.
AsksForMap(e) ==
    e.kind = "null" \/ (e.kind = "name" /\ e.name = "Identity-H")

Chosen(f) ==
    CASE AsksForMap(f.encoding) -> "pdfdoc"
      [] f.encoding.kind = "name" /\ f.encoding.name \in DOMAIN TableOf ->
             TableOf[f.encoding.name]
      [] f.encoding.kind = "dict" -> "dict"
      [] OTHER -> "nop"

\* dictEncoder on the byte b: a number sets the code of the next name; the first
\* name at the code that stands for a rune is taken, or else the byte.
AfterDifference(b, acc, x) ==
    IF x.kind = "num" THEN [n |-> x.n, rune |-> acc.rune]
    ELSE IF x.kind # "name" THEN acc
    ELSE IF acc.n = b /\ Len(acc.rune) = 1 /\ x.name \in KnownNames
    THEN [n |-> acc.n + 1, rune |-> <<"glyph", x.name>>]
    ELSE [n |-> acc.n + 1, rune |-> acc.rune]

DecodeByte(differences, b) ==
    LET acc[i \in 0..Len(differences)] ==
            IF i = 0 THEN [n |-> -1, rune |-> <<b>>]
            ELSE AfterDifference(b, acc[i - 1], differences[i])
    IN acc[Len(differences)].rune

DecodeDict(differences, raw) ==
    [i \in DOMAIN raw |-> DecodeByte(differences, raw[i])]

DecodeTable(table, raw) == [i \in DOMAIN raw |-> <<table, raw[i]>>]

\* The text of raw; without room for the runes the bytes stay as they are.
Decode(raw, room) ==
    IF ~room \/ enc = "nop" THEN Preserved(raw)
    ELSE CASE enc = "cmap" -> DecodeCMap(cm, raw)
           [] enc = "dict" -> DecodeDict(font.encoding.differences, raw)
           [] OTHER -> DecodeTable(enc, raw)

-----------------------------------------------------------------------------
(* What the program lists.  The text of a code that is listed with a carry   *)
(* out of the last byte, in a range over several of the bytes before, or     *)
(* with an array that has no string for it, is not specified here.           *)

Unspecified == << <<-2>> >>

CodesBetween(lo, hi) ==
    {c \in [DOMAIN lo -> Byte] : c # << >> /\ Between(lo, c, hi)}

InRange(br, c) ==
    LET k == Last(c) - Last(br.lo)
    IN CASE Front(c) # Front(br.lo) \/ k < 0 -> Unspecified
         [] Front(c) = Front(br.lo) /\ k = 0 /\ br.dst.kind = "string" -> Utf16(br.dst.s)
         [] Front(c) = Front(br.lo) /\ k > 0 /\ br.dst.kind = "string" ->
                IF br.dst.s = << >> THEN Broken
                ELSE IF Last(br.dst.s) + k >= ByteSize THEN Unspecified
                ELSE Utf16(Front(br.dst.s) \o <<Last(br.dst.s) + k>>)
         [] OTHER ->
                IF k < Len(br.dst.elems) /\ br.dst.elems[k + 1].kind = "string"
                THEN Utf16(br.dst.elems[k + 1].s) ELSE Unspecified

CharListed(e) == [code |-> e.orig, text |-> Utf16(e.repl)]

RangeListed(br) ==
    {[code |-> c, text |-> InRange(br, c)] :
        c \in IF br.dst.kind \in {"string", "array"} THEN CodesBetween(br.lo, br.hi) ELSE {}}

ListedBy(op, operands) ==
    LET entries == 1..Len(operands) \div Arity(op)
        part(i, k) == operands[Arity(op) * (i - 1) + k]
    IN CASE op = "endbfchar" ->
                {CharListed([orig |-> Bytes(part(i, 1)), repl |-> Bytes(part(i, 2))]) :
                    i \in entries}
         [] op = "endbfrange" ->
                UNION {RangeListed([lo |-> Bytes(part(i, 1)), hi |-> Bytes(part(i, 2)),
                                    dst |-> part(i, 3)]) : i \in entries}
         [] OTHER -> {}

BeginOf ==
    [endcodespacerange |-> "begincodespacerange", endbfchar |-> "beginbfchar",
     endbfrange |-> "beginbfrange"]

\* The operands that were pushed since the begin.
SinceBegin(m) == SubSeq(m.stk, section.base + 1, Len(m.stk))

\* Is op, which the machine m is at, where it belongs, and has the program given
\* it no other meaning?
InOrder(m, op) ==
    /\ Defining(m, op) = {}
    /\ CASE op \in Begins ->
              section.op = "none" /\ Top(m).kind = "num" /\ Top(m).n >= 0
         [] op \in Ends ->
              /\ section.op = BeginOf[op]
              /\ Len(m.stk) >= section.base
              /\ Len(SinceBegin(m)) = Arity(op) * cm.n
         [] OTHER -> section.op = "none"

Note(m, op) ==
    /\ odd' = IF InOrder(m, op) THEN odd ELSE odd + 1
    /\ odd' <= MaxOdd
    /\ section' = CASE op \in Begins -> [op |-> op, base |-> Len(Popped(m).stk)]
                    [] op \in Ends -> [op |-> "none", base |-> 0]
                    [] OTHER -> section
    /\ listed' = IF op \in Ends /\ InOrder(m, op)
                 THEN listed \cup ListedBy(op, SinceBegin(m)) ELSE listed

-----------------------------------------------------------------------------
Init ==
    /\ font \in [encoding : Encodings, toUnicode : BOOLEAN]
    /\ enc = "none"
    /\ ps = Start
    /\ cm = [StartReading EXCEPT !.status = "new"]
    /\ read = 0
    /\ section = [op |-> "none", base |-> 0]
    /\ odd = 0
    /\ listed = {}

WithoutMap ==
    /\ cm.status = "new" /\ enc = "none"
    /\ ~(AsksForMap(font.encoding) /\ font.toUnicode)
    /\ enc' = Chosen(font)
    /\ UNCHANGED <<font, ps, cm, read, noted>>

\* readCmap begins; the allocator may refuse the slices of the map.
StartMap ==
    /\ cm.status = "new" /\ enc = "none"
    /\ AsksForMap(font.encoding) /\ font.toUnicode
    /\ cm' \in {StartReading, [StartReading EXCEPT !.status = "panicked"]}
    /\ UNCHANGED <<font, enc, ps, read, noted>>

\* Interpret goes on after the map is found bad.
Interpreting == cm.status \in {"reading", "bad"} /\ enc = "none"

Panicked == cm' = Refused(cm, "panicked") /\ ps' = Start

\* The lexer finds no token.
Malformed ==
    /\ Interpreting
    /\ Panicked
    /\ UNCHANGED <<font, enc, read, noted>>

BuiltinKeyword(m, kw) ==
    /\ kw \in Builtins
    /\ IF BuiltinPanics(m, kw) THEN Panicked
       ELSE ps' = AfterBuiltin(m, kw) /\ UNCHANGED cm

DefinedKeyword(m, kw) ==
    /\ kw \notin Builtins
    /\ Defining(m, kw) # {}
    /\ ps' = Push(m, Meaning(m, kw))
    /\ UNCHANGED cm

Operator(m, kw) ==
    /\ kw \notin Builtins
    /\ Defining(m, kw) = {}
    /\ IF cm.status = "bad" THEN ps' = m /\ UNCHANGED cm
       ELSE /\ ps' = MachineAfter(m, cm, kw)
            /\ cm' = ReadingAfter(m, cm, kw)

Keyword ==
    /\ Interpreting
    /\ read < MaxKeywords
    /\ \E kw \in DOMAIN OperandRuns :
          \E run \in OperandRuns[kw] :
             LET m == [ps EXCEPT !.stk = @ \o run]
             IN /\ \/ BuiltinKeyword(m, kw)
                   \/ DefinedKeyword(m, kw)
                   \/ Operator(m, kw)
                /\ Note(m, kw)
    /\ read' = read + 1
    /\ UNCHANGED <<font, enc>>

\* The stream ends; without a map the bytes are shown as they are.
Finish ==
    /\ Interpreting
    /\ enc' = IF cm.status = "bad" THEN "nop" ELSE "cmap"
    /\ UNCHANGED <<font, ps, cm, read, noted>>

Next ==
    \/ WithoutMap
    \/ StartMap
    \/ Malformed
    \/ Keyword
    \/ Finish

Spec == Init /\ [][Next]_vars

-----------------------------------------------------------------------------
(* Properties *)

Encoders == {"none", "winansi", "macroman", "pdfdoc", "nop", "dict", "cmap"}

IsRange(e) == Len(e.lo) \in 1..MaxCode /\ Len(e.lo) = Len(e.hi)

\* The shape of the state.  Codespaces have codes of one to four bytes whatever the
\* program says, and a map that was found bad, or whose reading panicked, is never
\* an encoder.
TypeOK ==
    /\ enc \in Encoders
    /\ cm.status \in {"new", "reading", "bad", "panicked"}
    /\ cm.n \in Int
    /\ \A i \in DOMAIN cm.space : IsRange(cm.space[i])
    /\ enc = "cmap" => cm.status = "reading"
    /\ \A i \in DOMAIN ps.dicts : ps.dicts[i] \in DOMAIN ps.heap
    /\ read \in 0..MaxKeywords /\ odd \in 0..MaxOdd

InSpace(s) ==
    \E i \in DOMAIN cm.space :
        Len(cm.space[i].lo) = Len(s) /\ Between(cm.space[i].lo, s, cm.space[i].hi)

\* A code that no shorter one hides.
IsCode(c) == InSpace(c) /\ \A n \in 1..Len(c) - 1 : ~InSpace(SubSeq(c, 1, n))

\* What the program lists for the code c.
ListedTexts(c) == {e.text : e \in {x \in listed : x.code = c}}

Expected(c) ==
    IF ListedTexts(c) = {} THEN Preserved(c) ELSE CHOOSE t \in ListedTexts(c) : TRUE

IsListed(c) ==
    /\ IsCode(c)
    /\ \A s, t \in ListedTexts(c) : s = t
    /\ Unspecified \notin ListedTexts(c)

\* What a map owes its program.
MapDecodesAsListed ==
    (enc = "cmap" /\ odd = 0) =>
        \A codes \in Texts :
            (\A i \in DOMAIN codes : IsListed(codes[i])) =>
                Decode(FlattenSeq(codes), TRUE)
                    = Outcome(FlattenSeq([i \in DOMAIN codes |-> Expected(codes[i])]))

\* The code at which Differences has its j-th element: the last number before it
\* and one for each name since.
Place(d, j) ==
    LET numbers == {i \in 1..j - 1 : d[i].kind = "num"}
        start == IF numbers = {} THEN 0 ELSE Max(numbers)
    IN (IF start = 0 THEN -1 ELSE d[start].n)
           + Cardinality({i \in start + 1..j - 1 : d[i].kind = "name"})

\* What the other encoders owe their font.
TablesKeepBytes ==
    enc \notin {"none", "cmap"} =>
        \A codes \in Texts :
            LET raw == FlattenSeq(codes)
                text == Decode(raw, TRUE)
            IN /\ Len(text) = Len(raw)
               /\ enc = "dict" =>
                     \A k \in DOMAIN raw :
                        LET d == font.encoding.differences
                            at == {j \in DOMAIN d : /\ d[j].kind = "name"
                                                    /\ d[j].name \in KnownNames
                                                    /\ Place(d, j) = raw[k]}
                        IN text[k] = IF at = {} THEN <<raw[k]>> ELSE <<"glyph", d[Min(at)].name>>

\* A string of codes that an orderly program lists is cut back into these codes and
\* gives the texts that are listed, one after the other: the count of every section,
\* the order in which its operands are popped, the shortest codespace, the last byte
\* of a range and of an array and the fallback work together (page.go 444 and 544).
\* Half a pair in a listed text makes Decode panic.  dictEncoder (page.go 303) shows a
\* byte as the first known name at its place, as itself when there is none; no byte is
\* dropped by any encoder but a map.  All that with room for the runes.
DecodesAsListed == MapDecodesAsListed /\ TablesKeepBytes

-----------------------------------------------------------------------------
(* The inductive invariant. *)

MapValue == Written \cup [kind : {"dict"}, ref : Nat]

IsReading(r) ==
    /\ r = [status |-> r.status, n |-> r.n, space |-> r.space,
            bfchar |-> r.bfchar, bfrange |-> r.bfrange]
    /\ r.status \in {"new", "reading", "bad", "panicked"}
    /\ r.n \in Int
    /\ r.space \in Seq([lo : Seq(Byte), hi : Seq(Byte)])
    /\ \A i \in DOMAIN r.space : IsRange(r.space[i])
    /\ r.bfchar \in Seq([orig : Seq(Byte), repl : Seq(Byte)])
    /\ r.bfrange \in Seq([lo : Seq(Byte), hi : Seq(Byte), dst : MapValue])

\* What the entries of a map say.
Held(r) ==
    {CharListed(r.bfchar[i]) : i \in DOMAIN r.bfchar}
        \cup UNION {RangeListed(r.bfrange[i]) : i \in DOMAIN r.bfrange}

\* The sections that an orderly program has ended are those in the map.
HoldsListed ==
    /\ cm.status = "new" => listed = {}
    /\ (odd = 0 /\ cm.status = "reading") => listed = Held(cm)

Inv ==
    /\ font \in [encoding : Encodings, toUnicode : BOOLEAN]
    /\ enc \in Encoders
    /\ enc = "dict" => font.encoding.kind = "dict"
    /\ enc = "cmap" => cm.status = "reading"
    /\ IsMachine(MapValue, ps)
    /\ IsReading(cm)
    /\ read \in 0..MaxKeywords /\ odd \in 0..MaxOdd
    /\ section.base \in Nat
    /\ HoldsListed
=============================================================================
