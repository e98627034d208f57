--------------------------- MODULE MCContentStream ---------------------------
(* Operands and keywords of ContentStream for TLC. *)
EXTENDS ContentStream

num(i) == [kind |-> "num", n |-> i]

name(f) == [kind |-> "name", name |-> f]

str(c) == [kind |-> "string", s |-> c]

arr(elems) == [kind |-> "array", elems |-> elems]

\* The identity, moved.
translation(x, y) == <<num(1), num(0), num(0), num(1), num(x), num(y)>>

MCRuns ==
    { <<str("a")>>, <<num(-1)>>,
      <<arr(<<str("b"), num(-2), str("a")>>)>>,
      <<name("F1"), num(1)>>, <<name("F2"), num(1)>>, <<name("F3"), num(1)>>,
      <<name("Tj"), str("b")>>, <<num(0), num(1), str("b")>>,
      translation(-1, 1), translation(3, -4) }

MCKeywords ==
    { "BT", "T*", "Tf", "'", "\"", "Tj", "TJ", "Td", "TD", "Tm", "cm", "q", "Q",
      "TL", "dict", "begin", "def", "pop" }
=============================================================================
