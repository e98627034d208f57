--------------------------------- MODULE Lexer ---------------------------------
(***************************************************************************)
(* The buffer of the lexer and its scanner (lex.go): bytes come from a     *)
(* reader in pieces of any length, one byte may be given back, and         *)
(* readToken makes tokens of them.                                         *)
(*                                                                         *)
(* A text is a sequence of characters.  One letter stands for each         *)
(* keyword, see Keywords.  The characters of a string or a name are        *)
(* tuples: one character, the two digits of a hexadecimal byte, or the     *)
(* digits of an octal one behind a backslash.                              *)
(***************************************************************************)
EXTENDS Integers, Sequences, SequencesExt

Spaces == {" ", "\n", "\r"}

Delims == {"<", ">", "(", ")", "[", "]", "/", "%"}

Digits == {"1", "7"}

HexDigits == Digits \cup {"a"}

Keywords ==
    [R |-> "R", O |-> "obj", E |-> "endobj", N |-> "null", S |-> "stream"]

-----------------------------------------------------------------------------
(* The buffer: where in the text it starts, its length, the read index.      *)

EmptyBuffer == [start |-> 0, len |-> 0, pos |-> 0, eof |-> FALSE]

\* b.offset, that of the next read of the reader, and readOffset.
ReaderOffset(b) == b.start + b.len

ReadOffset(b) == b.start + b.pos

\* What reload may get: at most to the next multiple of the capacity.
Reloads(b, text, capacity) ==
    {n \in 1..capacity - (ReaderOffset(b) % capacity) : ReaderOffset(b) + n <= Len(text)}

Reloaded(b, n) ==
    [start |-> ReaderOffset(b), len |-> n, pos |-> 0, eof |-> b.eof]

AtEnd(b) == [start |-> ReaderOffset(b), len |-> 0, pos |-> 0, eof |-> TRUE]

\* Mutant: the byte is given back also when none was read.
UnreadByteAlways(b) == [b EXCEPT !.pos = @ - 1]

\* Behind the end, where readByte made a newline up, nothing is given back.
UnreadByte(b) == IF b.pos > 0 THEN [b EXCEPT !.pos = @ - 1] ELSE b

-----------------------------------------------------------------------------
(* Tokens, and the state of the scanner in the middle of one.                *)

NoToken == [kind |-> "none"]

EOF == [kind |-> "eof"]

Failed == [kind |-> "failed"]

LineEnd == [kind |-> "line end"]

Keyword(kw) == [kind |-> "keyword", kw |-> kw]

String(s) == [kind |-> "string", s |-> s]

Between == [mode |-> "between", tmp |-> << >>, depth |-> 0, hold |-> << >>]

In(mode) == [Between EXCEPT !.mode = mode]

\* What the scanner does with a byte: go on in a state, with the byte kept or
\* given back (back), or end the token.
GoOn(s) == [scan |-> s, tok |-> NoToken, back |-> FALSE]

GoBack(s) == [scan |-> s, tok |-> NoToken, back |-> TRUE]

Token(tok) == [scan |-> Between, tok |-> tok, back |-> FALSE]

TokenBack(tok) == [scan |-> Between, tok |-> tok, back |-> TRUE]

Panic == Token(Failed)

Added(s, char) == [s EXCEPT !.tmp = Append(@, char), !.hold = << >>]

\* Mutant: behind the end the made-up newlines are skipped.
ScanSpaceEndless(s, eof) == GoOn(Between)

\* A space between tokens; behind the end the made-up newline is one.
ScanSpace(s, eof) == IF eof THEN Token(EOF) ELSE GoOn(Between)

ScanBetween(s, c, eof) ==
    CASE c \in Spaces -> ScanSpace(s, eof)
      [] c = "%" -> GoOn(In("comment"))
      [] c = "<" -> GoOn(In("less"))
      [] c = "(" -> GoOn([In("string") EXCEPT !.depth = 1])
      [] c \in {"[", "]"} -> Token(Keyword(c))
      [] c = "/" -> GoOn(In("name"))
      [] c = ">" -> GoOn(In("greater"))
      [] c = ")" -> Panic
      [] OTHER -> GoBack(In("keyword"))

ScanComment(s, c, eof) ==
    IF c \in {"\n", "\r"} THEN ScanSpace(s, eof) ELSE GoOn(s)

ScanAngle(s, c) ==
    CASE s.mode = "less" /\ c = "<" -> Token(Keyword("<<"))
      [] s.mode = "less" /\ c # "<" -> GoBack(In("hex"))
      [] s.mode = "greater" /\ c = ">" -> Token(Keyword(">>"))
      [] s.mode = "greater" /\ c # ">" -> Panic

\* readHexString.  It skips spaces, also the newlines made up behind the end.
ScanHex(s, c) ==
    CASE c \in Spaces -> GoOn(s)
      [] c = ">" /\ s.hold = << >> -> Token(String(s.tmp))
      [] c \notin Spaces \cup {">"} /\ s.hold = << >> -> GoOn([s EXCEPT !.hold = <<c>>])
      [] c \notin Spaces /\ s.hold # << >> ->
             IF {c, s.hold[1]} \subseteq HexDigits
             THEN GoOn(Added(s, <<s.hold[1], c>>)) ELSE Panic

\* The head of the loop of readLiteralString, which ends at the end of the text.
NextChar(s, eof) ==
    IF eof THEN Token(String(s.tmp)) ELSE GoOn([s EXCEPT !.mode = "string"])

ScanString(s, c, eof) ==
    CASE c = "(" -> NextChar([Added(s, <<c>>) EXCEPT !.depth = @ + 1], eof)
      [] c = ")" -> IF s.depth = 1 THEN Token(String(s.tmp))
                    ELSE NextChar([Added(s, <<c>>) EXCEPT !.depth = @ - 1], eof)
      [] c = "\\" -> GoOn([s EXCEPT !.mode = "escape"])
      [] OTHER -> NextChar(Added(s, <<c>>), eof)

\* Behind a backslash and a carriage return a newline is skipped.
ScanReturn(s, c, eof) ==
    IF c = "\n" THEN NextChar(s, eof)
    ELSE [NextChar(s, eof) EXCEPT !.back = TRUE]

\* The letters behind a backslash, and the control characters they stand for.
Escapes ==
    [n |-> <<"\n">>, r |-> <<"\r">>, t |-> <<"\t">>, f |-> <<"\f">>, b |-> <<"\\", "b">>]

ScanEscape(s, c, eof) ==
    CASE c \in {"(", ")", "\\"} -> NextChar(Added(s, <<c>>), eof)
      [] c \in DOMAIN Escapes -> NextChar(Added(s, Escapes[c]), eof)
      [] c = "\n" -> NextChar(s, eof)
      [] c = "\r" -> GoOn([s EXCEPT !.mode = "return"])
      [] c \in Digits -> GoOn([s EXCEPT !.mode = "octal", !.hold = <<"\\", c>>])
      [] OTHER -> Panic

\* Up to three octal digits, below 256.
ScanOctal(s, c, eof) ==
    LET digits == Append(s.hold, c)
    IN CASE c \notin Digits -> [NextChar(Added(s, s.hold), eof) EXCEPT !.back = TRUE]
         [] c \in Digits /\ Len(digits) < 4 -> GoOn([s EXCEPT !.hold = digits])
         [] c \in Digits /\ Len(digits) = 4 ->
                IF digits[2] = "7" THEN Panic ELSE NextChar(Added(s, digits), eof)

ScanName(s, c) ==
    CASE s.hold # << >> ->
             IF c \notin HexDigits THEN Panic
             ELSE IF Len(s.hold) = 1 THEN GoOn([s EXCEPT !.hold = Append(@, c)])
             ELSE GoOn(Added(s, <<s.hold[2], c>>))
      [] s.hold = << >> /\ c \in Delims \cup Spaces ->
             TokenBack([kind |-> "name", name |-> s.tmp])
      [] s.hold = << >> /\ c = "#" -> GoOn([s EXCEPT !.hold = <<c>>])
      [] OTHER -> GoOn(Added(s, <<c>>))

\* An integer, a boolean or a keyword.  Reals, and integers of more than 64 bits,
\* are left out.
Word(tmp) ==
    IF ToSet(tmp) \subseteq Digits THEN [kind |-> "int", digits |-> tmp]
    ELSE IF tmp = <<"T">> THEN [kind |-> "bool"]
    ELSE IF Len(tmp) = 1 /\ tmp[1] \in DOMAIN Keywords THEN Keyword(Keywords[tmp[1]])
    ELSE Keyword("other")

ScanWord(s, c) ==
    IF c \in Delims \cup Spaces THEN TokenBack(Word(s.tmp))
    ELSE GoOn([s EXCEPT !.tmp = Append(@, c)])

\* The end of the line behind the keyword stream.
ScanLineEnd(s, c) ==
    CASE s.mode = "line end" /\ c = "\r" -> GoOn(In("line feed"))
      [] s.mode = "line end" /\ c = "\n" -> Token(LineEnd)
      [] s.mode = "line end" /\ c \notin {"\r", "\n"} -> Panic
      [] s.mode = "line feed" -> [Token(LineEnd) EXCEPT !.back = (c # "\n")]

\* What is read with the next byte c.
Scan(s, c, eof) ==
    CASE s.mode = "between" -> ScanBetween(s, c, eof)
      [] s.mode = "comment" -> ScanComment(s, c, eof)
      [] s.mode \in {"less", "greater"} -> ScanAngle(s, c)
      [] s.mode = "hex" -> ScanHex(s, c)
      [] s.mode = "string" -> ScanString(s, c, eof)
      [] s.mode = "escape" -> ScanEscape(s, c, eof)
      [] s.mode = "return" -> ScanReturn(s, c, eof)
      [] s.mode = "octal" -> ScanOctal(s, c, eof)
      [] s.mode = "name" -> ScanName(s, c)
      [] s.mode = "keyword" -> ScanWord(s, c)
      [] s.mode \in {"line end", "line feed"} -> ScanLineEnd(s, c)
=============================================================================
