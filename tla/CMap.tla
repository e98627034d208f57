--------------------------------- MODULE CMap ---------------------------------
(***************************************************************************)
(* Character maps: what readCmap makes of the operators of a ToUnicode     *)
(* stream, and how a map decodes a string (page.go 365 to 650).            *)
(*                                                                         *)
(* A string is a sequence of bytes.  The bytes of a text are taken in      *)
(* pairs, one rune each; a byte that is preserved is a rune of one byte.   *)
(* Bytes are numbers below ByteSize, 256 in the code, and a codespace has  *)
(* codes of up to MaxCode bytes, 4 in the code.                            *)
(***************************************************************************)
EXTENDS Interpreter

CONSTANTS ByteSize, MaxCode

ASSUME CMapAssumption == ByteSize \in Nat \ {0} /\ MaxCode \in Nat \ {0}

Byte == 0..ByteSize - 1

Bytes(v) == IF v.kind = "string" THEN v.s ELSE << >>

Int64(v) == IF v.kind = "num" THEN v.n ELSE 0

\* Comparison of Go strings.
StringLeq(a, b) ==
    \/ IsPrefix(a, b)
    \/ \E i \in DOMAIN a \cap DOMAIN b :
          a[i] < b[i] /\ \A j \in 1..i - 1 : a[j] = b[j]

Between(low, s, high) == StringLeq(low, s) /\ StringLeq(s, high)

-----------------------------------------------------------------------------
(* readCmap.  A reading is a record: status, the count n of the section, and *)
(* the entries of the map in the order in which they are appended.          *)

StartReading ==
    [status |-> "reading", n |-> -1,
     space |-> << >>, bfchar |-> << >>, bfrange |-> << >>]

\* The operand that the i-th Pop returns, and the machine after n of them.
Operand(ps, i) ==
    IF i > Len(ps.stk) THEN Null ELSE ps.stk[Len(ps.stk) + 1 - i]

Drop(ps, n) ==
    [ps EXCEPT !.stk = SubSeq(@, 1, IF n > Len(@) THEN 0 ELSE Len(@) - n)]

\* The i-th entry that a section takes from the stack: the last one comes first.
SpaceEntry(ps, i) ==
    [lo |-> Bytes(Operand(ps, 2 * i)), hi |-> Bytes(Operand(ps, 2 * i - 1))]

CharEntry(ps, i) ==
    [orig |-> Bytes(Operand(ps, 2 * i)), repl |-> Bytes(Operand(ps, 2 * i - 1))]

\* Mutant: the ends of the range are swapped.
RangeEntrySwapped(ps, i) ==
    [lo |-> Bytes(Operand(ps, 3 * i - 1)), hi |-> Bytes(Operand(ps, 3 * i)),
     dst |-> Operand(ps, 3 * i - 2)]

RangeEntry(ps, i) ==
    [lo |-> Bytes(Operand(ps, 3 * i)), hi |-> Bytes(Operand(ps, 3 * i - 1)),
     dst |-> Operand(ps, 3 * i - 2)]

Entries(ps, n, entry(_, _)) == [i \in 1..n |-> entry(ps, i)]

\* What an end keyword finds when no begin was before it.
Refused(cm, status) == [cm EXCEPT !.status = status]

\* Mutant: a range is faulty only when its ends differ in length.
FaultySpacesUnequal(ps, n) ==
    {i \in 1..n : LET e == SpaceEntry(ps, i) IN Len(e.lo) # Len(e.hi)}

\* Codespace ranges are checked one by one, up to the first faulty one.
FaultySpaces(ps, n) ==
    {i \in 1..n : LET e == SpaceEntry(ps, i)
                  IN Len(e.lo) \notin 1..MaxCode \/ Len(e.lo) # Len(e.hi)}

\* Two long codes of the same length are out of range of the array m.space.
EndCodespace(ps, cm) ==
    LET faulty == FaultySpaces(ps, cm.n)
        worst == SpaceEntry(ps, Min(faulty))
    IN CASE cm.n < 0 -> Refused(cm, "bad")
         [] cm.n >= 0 /\ faulty = {} ->
                [cm EXCEPT !.space = @ \o Entries(ps, cm.n, SpaceEntry), !.n = -1]
         [] cm.n >= 0 /\ faulty # {} ->
                Refused(cm, IF Len(worst.lo) = Len(worst.hi) /\ worst.lo # << >>
                            THEN "panicked" ELSE "bad")

\* The count is left as it is, here and at the end of ranges.
EndBfchar(ps, cm) ==
    IF cm.n < 0 THEN Refused(cm, "panicked")
    ELSE [cm EXCEPT !.bfchar = @ \o Entries(ps, cm.n, CharEntry)]

EndBfrange(ps, cm) ==
    IF cm.n < 0 THEN Refused(cm, "panicked")
    ELSE [cm EXCEPT !.bfrange = @ \o Entries(ps, cm.n, RangeEntry)]

Begins == {"begincodespacerange", "beginbfchar", "beginbfrange"}

Ends == {"endcodespacerange", "endbfchar", "endbfrange"}

\* The reading after the operator op.
ReadingAfter(ps, cm, op) ==
    CASE op \in Begins -> [cm EXCEPT !.n = Int64(Top(ps))]
      [] op = "endcodespacerange" -> EndCodespace(ps, cm)
      [] op = "endbfchar" -> EndBfchar(ps, cm)
      [] op = "endbfrange" -> EndBfrange(ps, cm)
      [] OTHER -> cm

\* Operands in an entry of each section.
Arity(op) == IF op = "endbfrange" THEN 3 ELSE 2

\* Entries that the end of a section pops.
Taken(ps, cm, op) ==
    IF cm.n < 0 THEN 0
    ELSE IF op = "endcodespacerange" /\ FaultySpaces(ps, cm.n) # {}
    THEN Min(FaultySpaces(ps, cm.n)) ELSE cm.n

\* The machine after the operator op; defineresource leaves its second operand.
MachineAfter(ps, cm, op) ==
    CASE op = "findresource" -> PushDict(Drop(ps, 2))
      [] op = "begincmap" -> PushDict(ps)
      [] op \in Begins \cup {"endcmap"} -> Popped(ps)
      [] op \in Ends -> Drop(ps, Arity(op) * Taken(ps, cm, op))
      [] op = "defineresource" -> Push(Drop(ps, 3), Operand(ps, 2))
      [] OTHER -> ps

-----------------------------------------------------------------------------
(* Decode *)

\* utf16Decode, which panics on half a pair, noted as a rune that no text has.
HalfPair == <<-1>>

Broken == <<HalfPair>>

Utf16(s) ==
    IF Len(s) % 2 = 1 THEN Broken
    ELSE [i \in 1..Len(s) \div 2 |-> <<s[2 * i - 1], s[2 * i]>>]

Preserved(s) == [i \in DOMAIN s |-> <<s[i]>>]

\* findNextCodespace: the length of the shortest prefix in a codespace, or 0.
Width(cm, raw) ==
    LET widths ==
            {n \in 1..MaxCode : /\ n <= Len(raw)
                                /\ \E i \in DOMAIN cm.space :
                                      /\ Len(cm.space[i].lo) = n
                                      /\ Between(cm.space[i].lo, SubSeq(raw, 1, n),
                                                 cm.space[i].hi)}
    IN IF widths = {} THEN 0 ELSE Min(widths)

\* The distance of the code to the start of the range, in the last byte only.
Offset(br, code) == (Last(code) - Last(br.lo)) % ByteSize

\* resolveBfrangeWithString: the carry into the byte before is lost.
RangeWithString(br, code) ==
    CASE br.lo = code -> Utf16(br.dst.s)
      [] br.lo # code /\ br.dst.s = << >> -> Broken
      [] br.lo # code /\ br.dst.s # << >> ->
             Utf16([br.dst.s EXCEPT ![Len(br.dst.s)] = (@ + Offset(br, code)) % ByteSize])

\* resolveBfrangeWithArray: what is not there, or no string, decodes to nothing.
RangeWithArray(br, code) ==
    LET i == Offset(br, code) + 1
    IN IF i \in DOMAIN br.dst.elems /\ br.dst.elems[i].kind = "string"
       THEN Utf16(br.dst.elems[i].s) ELSE << >>

\* The first entry that has the code; a range for something else is passed over.
CharsOf(cm, code) == {i \in DOMAIN cm.bfchar : cm.bfchar[i].orig = code}

RangesOf(cm, code) ==
    {i \in DOMAIN cm.bfrange :
        LET br == cm.bfrange[i]
        IN /\ Len(br.lo) = Len(code)
           /\ Between(br.lo, code, br.hi)
           /\ br.dst.kind \in {"string", "array"}}

\* resolveCodeMapping, and what Decode does without a mapping.
CodeText(cm, code) ==
    IF CharsOf(cm, code) # {} THEN Utf16(cm.bfchar[Min(CharsOf(cm, code))].repl)
    ELSE IF RangesOf(cm, code) = {} THEN Preserved(code)
    ELSE LET br == cm.bfrange[Min(RangesOf(cm, code))]
         IN IF br.dst.kind = "string" THEN RangeWithString(br, code)
            ELSE RangeWithArray(br, code)

\* A panic of utf16Decode is a panic of Decode.
Outcome(text) == IF HalfPair \in ToSet(text) THEN Broken ELSE text

\* Decode; the text of a byte in no codespace is the byte.
DecodeCMap(cm, raw) ==
    LET text[i \in 1..Len(raw) + 1] ==
            IF i > Len(raw) THEN << >>
            ELSE LET width == Width(cm, SubSeq(raw, i, Len(raw)))
                 IN IF width = 0 THEN Preserved(<<raw[i]>>) \o text[i + 1]
                    ELSE CodeText(cm, SubSeq(raw, i, i + width - 1)) \o text[i + width]
    IN Outcome(text[1])
=============================================================================
