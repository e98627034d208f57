------------------------------- MODULE WholeText -------------------------------
(***************************************************************************)
(* What the parser promises: it reads as if the whole text were in the     *)
(* buffer from the start.  No piece ends in the middle of a token, none is *)
(* loaded, and a byte is given back by a step back.  What is read depends  *)
(* on the input alone, but for one thing: a read right behind a seek may   *)
(* fail, for the place may be one that is no longer in the buffer.         *)
(***************************************************************************)
EXTENDS Parser

\* The buffer with all of the text, at place n of it.
AllAt(n) == [start |-> 0, len |-> Len(input.text), pos |-> n, eof |-> FALSE]

\* Where a seek to n ends.
Place(n) == IF n <= Len(input.text) THEN n ELSE Len(input.text)

WholeInit ==
    /\ input \in Inputs
    /\ buf = AllAt(0)
    /\ scan = Between
    /\ unread = << >>
    /\ frames = << >>
    /\ value = Nil
    /\ objptr = NoObject
    /\ phase = "call"
    /\ call = 1
    /\ results = << >>

\* A seek is at its place at once.
WholeCall ==
    /\ phase = "call"
    /\ call \in DOMAIN input.calls
    /\ phase' = IF input.calls[call].op = "seek" THEN "seek" ELSE "token"
    /\ frames' = IF input.calls[call].op = "object" THEN <<[wait |-> "object"]>>
                 ELSE << >>
    /\ buf' = IF input.calls[call].op = "seek" /\ ~buf.eof
              THEN AllAt(Place(input.calls[call].to)) ELSE buf
    /\ UNCHANGED <<input, scan, unread, value, objptr, call, results>>

\* The read right behind a seek fails.
ReadSought ==
    /\ phase = "scan"
    /\ \E k \in 1..call - 1 : /\ input.calls[k].op = "seek"
                              /\ input.calls[k].to = ReadOffset(buf)
    /\ Fail
    /\ UNCHANGED <<input, bytes, unread, objptr, call, results>>

WholeNext ==
    \/ WholeCall
    \/ Done
    \/ Seek
    \/ TakeUnread
    \/ StartScan
    \/ ReadByte
    \/ ReadEnd
    \/ ReadSought
    \/ Give

WholeSpec == WholeInit /\ [][WholeNext]_vars
=============================================================================
