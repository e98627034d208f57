------------------------------ MODULE Interpreter ------------------------------
(***************************************************************************)
(* Interpret: the operand stack and the dictionary stack of the small      *)
(* PostScript machine that runs content streams and character maps.  Its   *)
(* clients are the functions do, one per module that extends this one.     *)
(*                                                                         *)
(* A machine is a record: the operand stack stk, the open dictionaries     *)
(* dicts, innermost last, and the heap of all dictionaries.  A dictionary  *)
(* is a Go map, that is a reference into the heap, so that a dictionary on *)
(* the operand stack and an open one may be the same.                      *)
(***************************************************************************)
EXTENDS Integers, Sequences, SequencesExt

Null == [kind |-> "null"]

Dict(ref) == [kind |-> "dict", ref |-> ref]

Start == [stk |-> << >>, dicts |-> << >>, heap |-> << >>]

Push(m, v) == [m EXCEPT !.stk = Append(@, v)]

\* What Pop returns; an empty stack gives null.
Top(m) == IF m.stk = << >> THEN Null ELSE Last(m.stk)

\* The machine after Pop.
Popped(m) == IF m.stk = << >> THEN m ELSE [m EXCEPT !.stk = Front(@)]

\* Mutant: the reference is taken before the dictionary is on the heap.
PushDictEarly(m) ==
    [m EXCEPT !.heap = Append(@, << >>), !.stk = Append(@, Dict(Len(m.heap)))]

\* newDict on the operand stack.
PushDict(m) ==
    [m EXCEPT !.heap = Append(@, << >>),
              !.stk = Append(@, Dict(Len(m.heap) + 1))]

\* The open dictionaries that define the keyword kw; the innermost one wins.
Defining(m, kw) == {i \in DOMAIN m.dicts : kw \in DOMAIN m.heap[m.dicts[i]]}

Meaning(m, kw) == m.heap[m.dicts[Max(Defining(m, kw))]][kw]

Builtins == {"dict", "currentdict", "begin", "end", "def", "pop"}

BuiltinPanics(m, kw) ==
    \/ kw \in {"currentdict", "end", "def"} /\ m.dicts = << >>
    \/ kw = "begin" /\ Top(m).kind # "dict"

\* The dictionary in which name stands for v.
WithMeaning(dict, name, v) ==
    [n \in DOMAIN dict \cup {name} |-> IF n = name THEN v ELSE dict[n]]

\* val and key are popped; without a name for a key nothing is defined.
Define(m) ==
    LET key == Top(Popped(m))
        rest == Popped(Popped(m))
    IN IF key.kind # "name" THEN rest
       ELSE [rest EXCEPT !.heap[Last(m.dicts)] = WithMeaning(@, key.name, Top(m))]

\* The machine after a keyword that Interpret handles itself.
AfterBuiltin(m, kw) ==
    CASE kw = "dict" -> PushDict(Popped(m))
      [] kw = "currentdict" -> Push(m, Dict(Last(m.dicts)))
      [] kw = "begin" -> [Popped(m) EXCEPT !.dicts = Append(@, Top(m).ref)]
      [] kw = "end" -> [m EXCEPT !.dicts = Front(@)]
      [] kw = "def" -> Define(m)
      [] kw = "pop" -> Popped(m)
-----------------------------------------------------------------------------
(* The inductive invariant of the machine, for values of V. *)

\* A dictionary among the values is on the heap.
Known(V, m, v) == v \in V /\ (v.kind = "dict" => v.ref \in DOMAIN m.heap)

\* The operand stack and the dictionaries hold known values, and the open
\* dictionaries are on the heap.
IsMachine(V, m) ==
    /\ m = [stk |-> m.stk, dicts |-> m.dicts, heap |-> m.heap]
    /\ m.heap = [r \in 1..Len(m.heap) |-> m.heap[r]] /\ Len(m.heap) \in Nat
    /\ \A r \in DOMAIN m.heap : \A n \in DOMAIN m.heap[r] : Known(V, m, m.heap[r][n])
    /\ m.stk \in Seq(V) /\ \A i \in DOMAIN m.stk : Known(V, m, m.stk[i])
    /\ m.dicts \in Seq(DOMAIN m.heap)
=============================================================================
