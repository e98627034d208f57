------------------------------- MODULE MCParser -------------------------------
(* Texts and what they write, for TLC. *)
EXTENDS Parser

int(d) == [kind |-> "int", digits |-> d]

nam(n) == [kind |-> "name", name |-> n]

arr(e) == [kind |-> "array", elems |-> e]

dic(m) == [kind |-> "dict", map |-> m]

one == int(<<"1">>)

ptr == [kind |-> "objptr", id |-> <<"1">>, gen |-> <<"7">>]

\* Objects as they are written, with what they are.
Item(text, val) == [text |-> text, val |-> val]

Plain ==
    { Item(<<"1">>, one), Item(<<"7", "1">>, int(<<"7", "1">>)),
      Item(<<"N">>, Nil),
      Item(<<"/", "b", "#", "7", "a">>, nam(<< <<"b">>, <<"7", "a">> >>)),
      Item(<<"<", "7", " ", "a", ">">>, String(<< <<"7", "a">> >>)) }

Nested ==
    { Item(<<"1", " ", "7", " ", "R">>, ptr),
      Item(<<"[", "1", " ", "1", "]">>, arr(<<one, one>>)),
      Item(<<"<", "<", "/", "b", " ", "1", ">", ">">>, dic(<< <<"b">> >> :> one)) }

\* Strings, with what may stand in them.
Strings ==
    { Item(<<"(", "(", ")", "\\", ")", ")">>, String(<< <<"(">>, <<")">>, <<")">> >>)),
      Item(<<"(", "\\", "\r", "\n", "b", "\\", "\r", "b", ")">>, String(<< <<"b">>, <<"b">> >>)),
      Item(<<"(", "\\", "1", "\\", "1", "7", "1", "1", "\\", "n", ")">>,
           String(<< <<"\\", "1">>, <<"\\", "1", "7", "1">>, <<"1">>, <<"\n">> >>)),
      Item(<<"(", "\\", "b", "b", "\\", "r", "\\", "t", "\\", "f", ")">>,
           String(<< <<"\\", "b">>, <<"b">>, <<"\r">>, <<"\t">>, <<"\f">> >>)),
      Item(<<"(", "\n", "\\", "\n", ")">>, String(<< <<"\n">> >>)) }

\* Between two objects; nothing is enough where a delimiter follows.
Gap(next) ==
    {<<" ">>, <<"%", "(", "\r", "\n">>} \cup (IF Head(next) \in Delims THEN {<< >>} ELSE {})

Input(text, expected) ==
    [text |-> text, calls |-> [i \in DOMAIN expected |-> [op |-> "object"]],
     expected |-> expected, written |-> TRUE,
     readFails |-> FALSE, allowEOF |-> TRUE, allowObjptr |-> TRUE, allowStream |-> TRUE]

\* Up to three objects, in an array or one after the other.
Lists ==
    UNION {{Input(<<"[">> \o a.text \o g \o b.text \o <<" ">> \o c.text \o <<"]">>,
                  <<arr(<<a.val, b.val, c.val>>)>>) : g \in Gap(b.text)} :
               a \in Plain \cup Nested, b \in Plain \cup Nested, c \in Plain}
    \cup UNION {{Input(a.text \o g \o b.text, <<a.val, b.val>>) : g \in Gap(b.text)} :
                   a \in Plain \cup Nested \cup Strings, b \in Nested \cup Strings}

\* Integers at the limits of object numbers and generations.
times(n, d) == [i \in 1..n |-> d]

Large ==
    {Input(<<"[">> \o a \o <<" ">> \o b \o <<" ", "1", "]">>, <<arr(<<int(a), int(b), one>>)>>) :
        a \in {<<"1">>, times(10, "7"), times(11, "1")},
        b \in {times(5, "7"), times(6, "1")}}
    \cup {Input(times(10, "1") \o <<" ">> \o times(5, "1") \o <<" ", "R">>,
                <<[kind |-> "objptr", id |-> times(10, "1"), gen |-> times(5, "1")]>>)}

\* Definitions, with and without a stream; in a file nothing is made up at its end.
Define(item, end) ==
    [Input(<<"1", " ", "7", " ", "O", " ">> \o item.text \o end,
           <<[kind |-> "objdef", ptr |-> ptr, obj |-> item.val]>>)
        EXCEPT !.allowEOF = FALSE]

Definitions ==
    {Define(item, <<" ", "E", "\n">>) : item \in Plain \cup Nested}
    \cup {Define(Item(<<"<", "<", ">", ">", "S">>,
                      [kind |-> "stream", hdr |-> << >>, ptr |-> ptr,
                       offset |-> 11 + Len(end)]), end \o <<"1", "(">>) :
             end \in {<<"\n">>, <<"\r", "\n">>, <<"\r">>}}

\* A content stream: no references, no streams.
Flat(i) == [i EXCEPT !.allowObjptr = FALSE, !.allowStream = FALSE]

Content ==
    {Flat(Input(<<"[">> \o a.text \o <<" ">> \o b.text \o <<"]">>, <<arr(<<a.val, b.val>>)>>)) :
        a \in Plain \cup Strings, b \in Plain}

\* An object stream: the numbers of two objects and where they are, then a seek to
\* the second one, or to a wrong place.
Packed ==
    {[Input(<<"1", " ", "7", " ", "/", "b", " ", "/", "a", " ", "1">>,
            <<one, int(<<"7">>), nam(<< <<"a">> >>)>>)
        EXCEPT !.calls = <<[op |-> "token"], [op |-> "token"],
                           [op |-> "seek", to |-> to], [op |-> "object"]>>,
               !.written = (to = 7)] : to \in {0, 2, 7, 11, 20}}

\* Beginnings of texts, and texts that nobody should write.
Odd ==
    { <<"<", "<", "/", "b", "(", "\\", "1", "\\", "n", ")", "/", "a", " ", "[", "1", "]", ">", ">", "S", "\r">>,
      <<"1", " ", "7", " ", "O", " ", "<", "7", "1", ">", "E">>,
      <<"[", "<", "7", "7", ">", " ", "1", "%", "(">>,
      <<"/", "b", "#", "7", "7", ">">>,
      <<"(", "\\", "7", "7", "7", ")">>,
      <<"<", "<", "/", "b", ">", ">", "/", "b", "1">> }

Cut ==
    UNION {{[Input(SubSeq(text, 1, n), << >>)
                EXCEPT !.written = FALSE, !.allowEOF = e[1], !.readFails = e[2],
                       !.calls = <<[op |-> "object"], [op |-> "token"]>>] :
               n \in 0..Len(text), e \in {<<TRUE, FALSE>>, <<TRUE, TRUE>>, <<FALSE, FALSE>>}} :
              text \in Odd}

MCInputs == Lists \cup Large \cup Definitions \cup Content \cup Packed \cup Cut
=============================================================================
