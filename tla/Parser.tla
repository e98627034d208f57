-------------------------------- MODULE Parser --------------------------------
(***************************************************************************)
(* The object parser (readObject of lex.go) on top of the lexer: nested    *)
(* arrays and dictionaries, references and definitions with two tokens of  *)
(* look-ahead, streams, tokens that are given back.  The calls of Go are   *)
(* a stack of frames, each of which waits for a token or a value.          *)
(*                                                                         *)
(* An input is a text, the calls that are made on its buffer (a token, an  *)
(* object, seekForward), the flags of the buffer, and, for a text that is  *)
(* written correctly, the values that are to be read.                      *)
(***************************************************************************)
EXTENDS Lexer

CONSTANTS
    Inputs,       \* the inputs
    Capacity,     \* of the buffer; 4096 in the code
    MaxElements   \* bound on the elements of an array that never ends

Calls == [op : {"token", "object"}] \cup [op : {"seek"}, to : Nat]

ASSUME ParserAssumption ==
    /\ Capacity \in Nat \ {0} /\ MaxElements \in Nat
    /\ \A i \in Inputs :
          /\ i.text \in Seq(STRING) /\ i.calls \in Seq(Calls)
          /\ {i.written, i.allowEOF, i.allowObjptr, i.allowStream} \subseteq BOOLEAN
          /\ i.readFails \in BOOLEAN

VARIABLES
    input,     \* the input, never changed
    buf,       \* the buffer of bytes
    scan,      \* where the scanner is in a token
    unread,    \* tokens given back, the one to read next at the end
    frames,    \* the calls of the parser
    value,     \* what the last call has returned
    objptr,    \* the object that is being defined
    phase,     \* what is done next
    call,      \* index of the call that is made on the buffer
    results    \* what the calls have returned

vars == <<input, buf, scan, unread, frames, value, objptr, phase, call, results>>

bytes == <<buf, scan>>

Nil == [kind |-> "nil"]

NoObject == << >>

Top == Last(frames)

Under == Front(frames)

\* reload: without a byte more it panics, unless the end is allowed and the reader
\* reports the end and no other error.
EndAllowed == input.allowEOF /\ ~input.readFails

-----------------------------------------------------------------------------
(* Moves of the parser *)

\* The top frame returns v.
Return(v) ==
    /\ frames' = Under
    /\ value' = v
    /\ phase' = "value"

\* The top frame is replaced by frame, which waits for a token.
Become(frame) ==
    /\ frames' = Append(Under, frame)
    /\ phase' = "token"
    /\ UNCHANGED value

\* The top frame is replaced by frame, which waits for an object.
ReadObject(frame) ==
    /\ frames' = Under \o <<frame, [wait |-> "object"]>>
    /\ phase' = "token"
    /\ UNCHANGED value

Fail == phase' = "panicked" /\ UNCHANGED <<frames, value>>

Kept(rest) == unread' = rest /\ UNCHANGED objptr

-----------------------------------------------------------------------------
(* A token t for the top frame; rest is what is given back besides *)

IsWord(t, kw) == t.kind = "keyword" /\ t.kw = kw

\* An integer that is an object number (uint32) or a generation (uint16), with the
\* digits there are.
IsId(t) ==
    /\ t.kind = "int"
    /\ Len(t.digits) < 10 \/ (Len(t.digits) = 10 /\ t.digits[1] = "1")

IsGen(t) ==
    /\ t.kind = "int"
    /\ Len(t.digits) < 5 \/ (Len(t.digits) = 5 /\ t.digits[1] = "1")

\* readObject
ObjectToken(t, rest) ==
    /\ Top.wait = "object"
    /\ Kept(rest)
    /\ CASE IsWord(t, "null") \/ IsWord(t, ">>") -> Return(Nil)
         [] IsWord(t, "<<") -> Become([wait |-> "key", map |-> << >>])
         [] IsWord(t, "[") -> Become([wait |-> "element", elems |-> << >>])
         [] t.kind = "keyword" /\ t.kw \notin {"null", ">>", "<<", "["} -> Fail
         [] IsId(t) /\ input.allowObjptr ->
                Become([wait |-> "second", int |-> t])
         [] OTHER -> Return(t)

SecondToken(t, rest) ==
    /\ Top.wait = "second"
    /\ IF IsGen(t)
       THEN Kept(rest) /\ Become([wait |-> "third", int |-> Top.int, next |-> t])
       ELSE Kept(Append(rest, t)) /\ Return(Top.int)

Pointer(a, b) == [kind |-> "objptr", id |-> a.digits, gen |-> b.digits]

\* Mutant: the tokens are given back in the order they were read.
ThirdTokenQueued(t, rest) ==
    /\ Top.wait = "third"
    /\ IF IsWord(t, "R")
       THEN Kept(rest) /\ Return(Pointer(Top.int, Top.next))
       ELSE IF IsWord(t, "obj")
       THEN /\ unread' = rest
            /\ objptr' = Pointer(Top.int, Top.next)
            /\ ReadObject([wait |-> "definition", old |-> objptr])
       ELSE Kept(rest \o <<Top.next, t>>) /\ Return(Top.int)

\* Two numbers and R or obj; otherwise the third and then the second token are
\* given back.
ThirdToken(t, rest) ==
    /\ Top.wait = "third"
    /\ IF IsWord(t, "R")
       THEN Kept(rest) /\ Return(Pointer(Top.int, Top.next))
       ELSE IF IsWord(t, "obj")
       THEN /\ unread' = rest
            /\ objptr' = Pointer(Top.int, Top.next)
            /\ ReadObject([wait |-> "definition", old |-> objptr])
       ELSE Kept(rest \o <<t, Top.next>>) /\ Return(Top.int)

Definition(v) == [kind |-> "objdef", ptr |-> objptr, obj |-> v]

EndobjToken(t, rest) ==
    /\ Top.wait = "endobj"
    /\ unread' = rest
    /\ IF IsWord(t, "endobj")
       THEN objptr' = Top.old /\ Return(Definition(Top.obj))
       ELSE Fail /\ UNCHANGED objptr

\* readArray.  The end of the text is no end of the array: it is an element.
ElementToken(t, rest) ==
    /\ Top.wait = "element"
    /\ IF IsWord(t, "]")
       THEN Kept(rest) /\ Return([kind |-> "array", elems |-> Top.elems])
       ELSE /\ Len(Top.elems) < MaxElements
            /\ Kept(Append(rest, t))
            /\ ReadObject(Top)

\* readDict
EndDict(map) ==
    IF input.allowStream THEN Become([wait |-> "stream", map |-> map])
    ELSE Return([kind |-> "dict", map |-> map])

KeyToken(t, rest) ==
    /\ Top.wait = "key"
    /\ Kept(rest)
    /\ CASE IsWord(t, ">>") -> EndDict(Top.map)
         [] t.kind = "eof" -> Become([wait |-> "end", map |-> Top.map])
         [] t.kind = "name" ->
                ReadObject([wait |-> "entry", map |-> Top.map, key |-> t.name])
         [] OTHER -> Fail

\* At the end of the text one more token is read and dropped.
EndToken(t, rest) ==
    /\ Top.wait = "end"
    /\ Kept(rest)
    /\ EndDict(Top.map)

StreamToken(t, rest) ==
    /\ Top.wait = "stream"
    /\ IF IsWord(t, "stream")
       THEN /\ Kept(rest)
            /\ frames' = Append(Under, [wait |-> "data", map |-> Top.map])
            /\ phase' = "line end"
            /\ UNCHANGED value
       ELSE Kept(Append(rest, t)) /\ Return([kind |-> "dict", map |-> Top.map])

\* The line has ended: the data begin where the buffer b is now.
DataToken(t, rest, b) ==
    /\ Top.wait = "data"
    /\ Kept(rest)
    /\ Return([kind |-> "stream", hdr |-> Top.map, ptr |-> objptr,
               offset |-> ReadOffset(b)])

\* The token t goes to the top frame, or to the caller of readToken.
Deliver(t, rest, b) ==
    IF frames = << >>
    THEN /\ value' = t
         /\ phase' = "value"
         /\ unread' = rest
         /\ UNCHANGED <<frames, objptr>>
    ELSE \/ ObjectToken(t, rest)
         \/ SecondToken(t, rest)
         \/ ThirdToken(t, rest)
         \/ EndobjToken(t, rest)
         \/ ElementToken(t, rest)
         \/ KeyToken(t, rest)
         \/ EndToken(t, rest)
         \/ StreamToken(t, rest)
         \/ DataToken(t, rest, b)

-----------------------------------------------------------------------------
(* Actions *)

Init ==
    /\ input \in Inputs
    /\ buf = EmptyBuffer
    /\ scan = Between
    /\ unread = << >>
    /\ frames = << >>
    /\ value = Nil
    /\ objptr = NoObject
    /\ phase = "call"
    /\ call = 1
    /\ results = << >>

Call ==
    /\ phase = "call"
    /\ call \in DOMAIN input.calls
    /\ phase' = IF input.calls[call].op = "seek" THEN "seek" ELSE "token"
    /\ frames' = IF input.calls[call].op = "object" THEN <<[wait |-> "object"]>>
                 ELSE << >>
    /\ UNCHANGED <<input, bytes, unread, value, objptr, call, results>>

Done ==
    /\ phase = "call"
    /\ call \notin DOMAIN input.calls
    /\ phase' = "done"
    /\ UNCHANGED <<input, bytes, unread, frames, value, objptr, call, results>>

\* seekForward.  To a place before the bytes in the buffer it goes too: the index
\* is negative then, and the next read panics.
Seek ==
    /\ phase = "seek"
    /\ LET to == input.calls[call].to
       IN IF ReaderOffset(buf) < to
          THEN \/ /\ \E n \in Reloads(buf, input.text, Capacity) : buf' = Reloaded(buf, n)
                  /\ UNCHANGED <<phase, call>>
               \/ /\ ReaderOffset(buf) = Len(input.text)
                  /\ buf' = AtEnd(buf)
                  /\ IF EndAllowed THEN phase' = "call" /\ call' = call + 1
                     ELSE phase' = "panicked" /\ UNCHANGED call
          ELSE /\ buf' = [buf EXCEPT !.pos = buf.len - (ReaderOffset(buf) - to)]
               /\ phase' = "call"
               /\ call' = call + 1
    /\ UNCHANGED <<input, scan, unread, frames, value, objptr, results>>

TakeUnread ==
    /\ phase = "token"
    /\ unread # << >>
    /\ Deliver(Last(unread), Front(unread), buf)
    /\ UNCHANGED <<input, bytes, call, results>>

StartScan ==
    /\ (phase = "token" /\ unread = << >>) \/ phase = "line end"
    /\ scan' = IF phase = "token" THEN Between ELSE In("line end")
    /\ phase' = "scan"
    /\ UNCHANGED <<input, buf, unread, frames, value, objptr, call, results>>

\* The byte c is read from the buffer, which is b then.
Feed(c, b) ==
    LET r == Scan(scan, c, b.eof)
        after == IF r.back THEN UnreadByte(b) ELSE b
    IN /\ buf' = after
       /\ scan' = r.scan
       /\ CASE r.tok = NoToken -> UNCHANGED <<unread, frames, value, objptr, phase>>
            [] r.tok = Failed -> Fail /\ UNCHANGED <<unread, objptr>>
            [] OTHER -> Deliver(r.tok, unread, after)

ReadByte ==
    /\ phase = "scan"
    /\ buf.pos \in 0..buf.len - 1
    /\ Feed(input.text[ReadOffset(buf) + 1], [buf EXCEPT !.pos = @ + 1])
    /\ UNCHANGED <<input, call, results>>

\* The buffer is used up: the reader gives some bytes more.
Reload ==
    /\ phase = "scan"
    /\ buf.pos >= buf.len
    /\ \E n \in Reloads(buf, input.text, Capacity) :
          Feed(input.text[ReaderOffset(buf) + 1], [Reloaded(buf, n) EXCEPT !.pos = 1])
    /\ UNCHANGED <<input, call, results>>

\* There are no bytes more: a newline is made up, where that is allowed.
ReadEnd ==
    /\ phase = "scan"
    /\ buf.pos >= buf.len
    /\ ReaderOffset(buf) = Len(input.text)
    /\ IF EndAllowed THEN Feed("\n", AtEnd(buf))
       ELSE Fail /\ UNCHANGED <<bytes, unread, objptr>>
    /\ UNCHANGED <<input, call, results>>

ReadBefore ==
    /\ phase = "scan"
    /\ buf.pos < 0
    /\ Fail
    /\ UNCHANGED <<input, bytes, unread, objptr, call, results>>

\* The value of a call on the buffer.
GiveResult ==
    /\ frames = << >>
    /\ results' = Append(results, value)
    /\ call' = call + 1
    /\ phase' = "call"
    /\ UNCHANGED <<frames, value, objptr>>

GiveElement ==
    /\ frames # << >> /\ Top.wait = "element"
    /\ Become([wait |-> "element", elems |-> Append(Top.elems, value)])
    /\ UNCHANGED <<objptr, call, results>>

GiveEntry ==
    /\ frames # << >> /\ Top.wait = "entry"
    /\ Become([wait |-> "key", map |-> (Top.key :> value) @@ Top.map])
    /\ UNCHANGED <<objptr, call, results>>

\* Behind a stream no endobj is read.
GiveDefinition ==
    /\ frames # << >> /\ Top.wait = "definition"
    /\ IF value.kind = "stream"
       THEN objptr' = Top.old /\ Return(Definition(value))
       ELSE /\ Become([wait |-> "endobj", old |-> Top.old, obj |-> value])
            /\ UNCHANGED objptr
    /\ UNCHANGED <<call, results>>

Give ==
    /\ phase = "value"
    /\ GiveResult \/ GiveElement \/ GiveEntry \/ GiveDefinition
    /\ UNCHANGED <<input, bytes, unread>>

Next ==
    \/ Call
    \/ Done
    \/ Seek
    \/ TakeUnread
    \/ StartScan
    \/ ReadByte
    \/ Reload
    \/ ReadEnd
    \/ ReadBefore
    \/ Give

Spec == Init /\ [][Next]_vars

\* One goroutine, which goes on as long as it can; the reader answers.
FairSpec == Spec /\ WF_vars(Next)

-----------------------------------------------------------------------------
(* Properties *)

Phases == {"call", "seek", "token", "scan", "line end", "value", "done", "panicked"}

\* The shape of the state.  The index of the buffer stays in it, but for a seek to
\* a place before it; and no more than the two tokens of look-ahead are given back at
\* a time.
TypeOK ==
    /\ phase \in Phases
    /\ buf.start + buf.len <= Len(input.text) /\ buf.pos <= buf.len
    /\ buf.pos < 0 => \E c \in ToSet(input.calls) : c.op = "seek" /\ c.to < buf.start
    /\ buf.eof => buf.start = Len(input.text)
    /\ Len(unread) <= 2
    /\ call \in 1..Len(input.calls) + 1
    /\ Len(results) < call

\* What is written is read: for every text that writes objects correctly, in whatever
\* pieces the reader gives it, the values are those that were written, in order, each
\* reference and definition recognised by its look-ahead and nothing lost with it
\* (lex.go 360), and the data of a stream begin behind the end of its line.
ReadsWhatIsWritten ==
    input.written =>
        /\ phase # "panicked"
        /\ IsPrefix(results, input.expected)
        /\ phase = "done" => results = input.expected

Stopped == phase \in {"done", "panicked"}

\* At the end of the text, in a hexadecimal string or in an array.
Stuck ==
    /\ buf.eof
    /\ \/ scan.mode = "hex"
       \/ \E i \in DOMAIN frames : frames[i].wait = "element"

\* Reading ends, whatever the text is and wherever it is cut off, but for two places:
\* readHexString (lex.go 179) skips the newlines that readByte makes up for ever, and
\* readArray (lex.go 456) takes the end of the text for one element after another.
EndsUnlessStuck == <>(Stopped \/ Stuck)

-----------------------------------------------------------------------------
(* The inductive invariant of the parser. *)

IsSeq(s) == s = [i \in 1..Len(s) |-> s[i]] /\ Len(s) \in Nat

ShapeOK ==
    /\ input \in Inputs
    /\ buf \in [start : Nat, len : Nat, pos : Int, eof : BOOLEAN]
    /\ IsSeq(unread) /\ IsSeq(frames) /\ IsSeq(results)

\* A call is under way unless the buffer waits for one or has stopped.
CallOK ==
    /\ phase \notin {"call", "done", "panicked"} => call \in DOMAIN input.calls
    /\ phase = "seek" => input.calls[call].op = "seek"

\* How many tokens may be waiting for each frame.
Room ==
    IF frames = << >> THEN 2
    ELSE CASE Top.wait = "third" -> 0
           [] Top.wait \in {"second", "end", "stream"} -> 1
           [] OTHER -> 2

AwaitsData == frames # << >> /\ Top.wait = "data"

LookAheadOK ==
    /\ phase = "token" => Len(unread) <= Room
    /\ phase = "line end" => AwaitsData
    /\ phase = "scan" => unread = << >> \/ AwaitsData

Inv == TypeOK /\ ShapeOK /\ CallOK /\ LookAheadOK
=============================================================================
