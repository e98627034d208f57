---------------------------- MODULE OrderedOutput ----------------------------
(***************************************************************************)
(* What Extract and ExtractAsStream of processor.go promise, whatever the  *)
(* workers do: the output is page 1's text, then page 2's, and so on, each *)
(* once and whole, except that the last may be cut so that the output is   *)
(* exactly MaxTotalChars long.  Nothing is output after the end, and the   *)
(* output is declared truncated only when the limit is reached.            *)
(***************************************************************************)
EXTENDS Integers, Sequences

CONSTANTS
    Total,         \* number of pages of the document
    MaxTotalChars  \* Config.MaxTotalChars, 0 for no limit

VARIABLES
    out,     \* the texts output so far: the page and the number of characters
    chars,   \* their total length
    status   \* "open", then "complete", "truncated" or "failed"

vars == <<out, chars, status>>

Init ==
    /\ out = << >>
    /\ chars = 0
    /\ status = "open"

\* n characters of the next page are added to the output.
Add(n) ==
    /\ out' = Append(out, [of |-> Len(out) + 1, len |-> n])
    /\ chars' = chars + n
    /\ UNCHANGED status

\* The next page has some text, of any length, and all of it fits.
AddWhole ==
    /\ status = "open"
    /\ Len(out) < Total
    /\ chars' \in Nat
    /\ chars' > chars
    /\ MaxTotalChars = 0 \/ chars' <= MaxTotalChars
    /\ Add(chars' - chars)

\* The next page is cut at the limit.
AddCut ==
    /\ status = "open"
    /\ Len(out) < Total
    /\ chars < MaxTotalChars
    /\ Add(MaxTotalChars - chars)

Finish ==
    /\ status = "open"
    /\ \/ status' \in {"complete", "failed"}
       \/ /\ MaxTotalChars > 0
          /\ chars = MaxTotalChars
          /\ status' = "truncated"
    /\ UNCHANGED <<out, chars>>

Next == AddWhole \/ AddCut \/ Finish

Spec == Init /\ [][Next]_vars
=============================================================================
