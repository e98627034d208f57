----------------------------- MODULE MCEncodings -----------------------------
(* Fonts, operands and texts of Encodings for TLC; bytes are 0, 1, 2 and 3. *)
EXTENDS Encodings

num(i) == [kind |-> "num", n |-> i]

nm(f) == [kind |-> "name", name |-> f]

str(s) == [kind |-> "string", s |-> s]

arr(elems) == [kind |-> "array", elems |-> elems]

MCDifferences ==
    {<<a, b, c, d>> : a \in {num(0), num(2), nm("A")}, b \in {nm("A"), nm("x")},
                      c \in {num(0), num(1), nm("B")}, d \in {nm("B"), nm("A"), num(2)}}

MCEncodingSet ==
    {nm(f) : f \in {"WinAnsiEncoding", "MacRomanEncoding", "Identity-H", "Other"}}
        \cup {[kind |-> k] : k \in {"null", "other"}}
        \cup {[kind |-> "dict", differences |-> d] : d \in MCDifferences}

MCOperandRuns ==
    [begincodespacerange |-> {<<num(1)>>, <<num(2)>>},
     endcodespacerange |->
         {<<str(<<0>>), str(<<2>>)>>, <<str(<<3, 0>>), str(<<3, 3>>)>>,
          <<str(<<0, 0>>), str(<<3, 3>>)>>,
          <<str(<<0>>), str(<<2>>), str(<<3, 0>>), str(<<3, 3>>)>>, <<str(<<0>>), str(<<3, 0>>)>>, << >>},
     beginbfchar |-> {<<num(1)>>, <<num(2)>>},
     endbfchar |->
         {<<str(<<0>>), str(<<1, 1>>)>>, <<str(<<3, 1>>), str(<<1, 2, 2, 1>>)>>,
          <<str(<<0>>), str(<<2, 2>>), str(<<1>>), str(<<2>>)>>, << >>},
     beginbfrange |-> {<<num(1)>>},
     endbfrange |->
         {<<str(<<0>>), str(<<2>>), str(<<1, 2>>)>>,
          <<str(<<3, 0>>), str(<<3, 3>>), str(<<0, 1>>)>>,
          <<str(<<2, 3>>), str(<<3, 1>>), str(<<0, 0>>)>>,
          <<str(<<1>>), str(<<2>>), arr(<<str(<<2, 2>>), [kind |-> "null"]>>)>>},
     findresource |-> {<<nm("CIDInit"), nm("ProcSet")>>},
     begin |-> {<< >>},
     def |-> {<<nm("endbfchar"), num(2)>>},
     endcmap |-> {<< >>}]

MCTexts ==
    { <<<<0>>>>, <<<<1>>>>, <<<<2>>, <<1>>>>, <<<<3, 1>>>>, <<<<3, 3>>, <<0>>>>,
      <<<<0>>, <<3, 1>>, <<2>>>>, <<<<2, 3>>>>, <<<<3, 0>>, <<0, 1>>>>,
      <<<<2>>, <<2>>>> }
=============================================================================
