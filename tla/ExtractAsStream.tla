--------------------------- MODULE ExtractAsStream ---------------------------
(***************************************************************************)
(* Processor.ExtractAsStream from the moment the workers start: the worker *)
(* pool of one document, the goroutine that runs streamInOrder, the caller *)
(* that gets the unbuffered channel, and the consumer, who reads the       *)
(* channel and may stop reading at any time.                               *)
(***************************************************************************)
EXTENDS WorkerPool, Functions

CONSTANT MaxTotalChars   \* Config.MaxTotalChars, 0 for no limit

ASSUME LimitAssumption == MaxTotalChars \in Nat

VARIABLES
    pc,          \* the streamer: "receive", "emit", "reset", "close", "closed"
    pageBuffer,  \* texts received from the workers and not sent yet, by page
    nextPage,    \* the page whose text is sent next
    out,         \* the texts the consumer has received
    chars,       \* totalChars
    truncated,   \* what streamInOrder returns
    failed,      \* history: streamInOrder stopped at a strict-mode error
    consumer     \* "waiting" for ExtractAsStream, "reading", or "gone"

streamVars == <<pc, pageBuffer, nextPage, out, chars, truncated, failed,
                consumer>>

vars == <<poolVars, streamVars>>

-----------------------------------------------------------------------------
Init ==
    /\ PoolInit
    /\ pc = "receive"
    /\ pageBuffer = << >>
    /\ nextPage = 1
    /\ out = << >>
    /\ chars = 0
    /\ truncated = FALSE
    /\ failed = FALSE
    /\ consumer = "waiting"

Pool == PoolNext /\ UNCHANGED streamVars

\* ExtractAsStream started the streamer and returns outCh; the truncated flag
\* it returns with it is still FALSE.
ReturnStream ==
    /\ jobsClosed
    /\ consumer = "waiting"
    /\ consumer' = "reading"
    /\ UNCHANGED <<poolVars, pc, pageBuffer, nextPage, out, chars, truncated,
                   failed>>

\* The consumer breaks out of its loop and never reads the channel again.
Abandon ==
    /\ consumer = "reading"
    /\ consumer' = "gone"
    /\ UNCHANGED <<poolVars, pc, pageBuffer, nextPage, out, chars, truncated,
                   failed>>

\* An error in strict mode ends the stream; nobody is told.
ReceiveError ==
    /\ pc = "receive"
    /\ TakeResult
    /\ Head(results).err
    /\ mode = "strict"
    /\ failed' = TRUE
    /\ pc' = "reset"
    /\ UNCHANGED <<pageBuffer, nextPage, out, chars, truncated, consumer>>

ReceiveText ==
    /\ pc = "receive"
    /\ TakeResult
    /\ ~(Head(results).err /\ mode = "strict")
    /\ pageBuffer' = Put(pageBuffer, Head(results).index, Head(results).text)
    /\ pc' = "emit"
    /\ UNCHANGED <<nextPage, out, chars, truncated, failed, consumer>>

ReceiveEnd ==
    /\ pc = "receive"
    /\ resultsClosed
    /\ results = << >>
    /\ pc' = "reset"
    /\ UNCHANGED <<poolVars, pageBuffer, nextPage, out, chars, truncated,
                   failed, consumer>>

Ready == /\ nextPage \in DOMAIN pageBuffer
         /\ pageBuffer[nextPage].len > 0

Remaining == MaxTotalChars - chars

\* outCh <- text: the channel is unbuffered, so the streamer and a consumer
\* that is reading take this step together.
SendToConsumer(n) ==
    /\ consumer = "reading"
    /\ out' = Append(out, [of |-> pageBuffer[nextPage].of, len |-> n])
    /\ chars' = chars + n
    /\ UNCHANGED <<failed, consumer>>

EmitStop ==
    /\ pc = "emit"
    /\ ~Ready
    /\ pc' = "receive"
    /\ UNCHANGED <<poolVars, pageBuffer, nextPage, out, chars, truncated,
                   failed, consumer>>

EmitAtLimit ==
    /\ pc = "emit"
    /\ Ready
    /\ MaxTotalChars > 0
    /\ Remaining <= 0
    /\ truncated' = TRUE
    /\ pc' = "reset"
    /\ UNCHANGED <<poolVars, pageBuffer, nextPage, out, chars, failed,
                   consumer>>

\* Mutant: the whole text is sent, and then the stream is truncated.
EmitCutWhole ==
    /\ pc = "emit"
    /\ Ready
    /\ MaxTotalChars > 0
    /\ Remaining > 0
    /\ pageBuffer[nextPage].len > Remaining
    /\ SendToConsumer(pageBuffer[nextPage].len)
    /\ truncated' = TRUE
    /\ pc' = "reset"
    /\ UNCHANGED <<poolVars, pageBuffer, nextPage>>

\* Unlike emitInOrder, the cut page stays in pageBuffer and is next for ever.
EmitCut ==
    /\ pc = "emit"
    /\ Ready
    /\ MaxTotalChars > 0
    /\ Remaining > 0
    /\ pageBuffer[nextPage].len > Remaining
    /\ SendToConsumer(Remaining)
    /\ truncated' = TRUE
    /\ pc' = "reset"
    /\ UNCHANGED <<poolVars, pageBuffer, nextPage>>

EmitWhole ==
    /\ pc = "emit"
    /\ Ready
    /\ MaxTotalChars = 0 \/ pageBuffer[nextPage].len <= Remaining
    /\ SendToConsumer(pageBuffer[nextPage].len)
    /\ pageBuffer' = Restrict(pageBuffer, DOMAIN pageBuffer \ {nextPage})
    /\ nextPage' = nextPage + 1
    /\ UNCHANGED <<poolVars, pc, truncated>>

\* The deferred ResetAllocator runs first, ...
Reset ==
    /\ pc = "reset"
    /\ pc' = "close"
    /\ ResetAllocator
    /\ UNCHANGED <<pageBuffer, nextPage, out, chars, truncated, failed,
                   consumer>>

\* ... then the deferred close(outCh), which the consumer sees.
CloseOut ==
    /\ pc = "close"
    /\ pc' = "closed"
    /\ UNCHANGED <<poolVars, pageBuffer, nextPage, out, chars, truncated,
                   failed, consumer>>

Streamer ==
    \/ ReceiveError
    \/ ReceiveText
    \/ ReceiveEnd
    \/ EmitStop
    \/ EmitAtLimit
    \/ EmitCut
    \/ EmitWhole
    \/ Reset
    \/ CloseOut

Next == alive /\ (Pool \/ ReturnStream \/ Abandon \/ Streamer)

(***************************************************************************)
(* Runnable goroutines run.  The consumer owes nothing: a step that needs  *)
(* it is fair only as long as it is reading, and it may leave.             *)
(***************************************************************************)
Fairness ==
    /\ WF_vars(alive /\ Feeder /\ UNCHANGED streamVars)
    /\ WF_vars(alive /\ CloseResults /\ UNCHANGED streamVars)
    /\ \A w \in Workers :
          WF_vars(alive /\ WorkerStep(w) /\ UNCHANGED streamVars)
    /\ WF_vars(alive /\ ReturnStream)
    /\ WF_vars(alive /\ Streamer)

Spec == Init /\ [][Next]_vars

FairSpec == Spec /\ Fairness

-----------------------------------------------------------------------------
\* The types of the pool and of the local variables of streamInOrder.
TypeOK ==
    /\ PoolTypeOK
    /\ pc \in {"receive", "emit", "reset", "close", "closed"}
    /\ DOMAIN pageBuffer \subseteq Pages
    /\ pageBuffer \in [DOMAIN pageBuffer -> Text]
    /\ nextPage \in 1 .. Total + 1
    /\ out \in Seq(Text)
    /\ chars \in Nat
    /\ truncated \in BOOLEAN
    /\ failed \in BOOLEAN
    /\ consumer \in {"waiting", "reading", "gone"}

\* The consumer never sees the end of a complete stream before the workers have
\* stopped and the document's memory is released (the order of the deferred
\* calls of ExtractAsStream).
ClosedAfterRelease ==
    pc = "closed" /\ ~truncated /\ ~failed => AllDone /\ used = 0

\* The texts in pageBuffer are those of their pages, or empty.
BufferOK ==
    \A p \in DOMAIN pageBuffer :
        /\ pageBuffer[p].of = p
        /\ pageBuffer[p].len \in {0, doc[p].len}

\* The consumer gets the pages in order, each once and whole, except that a text
\* cut at the limit is the last; nextPage still names the page that was cut
\* (streamInOrder).
OutputInOrder ==
    /\ \A i \in DOMAIN out : out[i].of = i
    /\ \A i \in 1 .. nextPage - 1 : out[i].len = doc[i].len
    /\ \/ nextPage = Len(out) + 1
       \/ /\ truncated
          /\ nextPage = Len(out)
          /\ out[nextPage].len < doc[nextPage].len

\* The consumer never gets more than MaxTotalChars characters (streamInOrder).
LimitRespected ==
    /\ MaxTotalChars > 0 => chars <= MaxTotalChars
    /\ truncated => MaxTotalChars > 0 /\ chars = MaxTotalChars

\* A stream that ends at the end of the results ends after the workers, so
\* nothing is allocated once its memory is reset.
ReleaseOK ==
    ~truncated /\ ~failed =>
        /\ pc \in {"reset", "close", "closed"} => resultsClosed
        /\ pc \in {"close", "closed"} => used = 0

\* The inductive invariant of ExtractAsStream.
Inv ==
    /\ TypeOK
    /\ PoolInv
    /\ ClosingOK
    /\ BufferOK
    /\ OutputInOrder
    /\ LimitRespected
    /\ truncated => pc \in {"reset", "close", "closed"}
    /\ ReleaseOK

\* A consumer that keeps reading sees the channel closed, and the workers exit
\* even if it leaves and the streamer is stuck (ExtractAsStream, streamInOrder).
StreamEnds ==
    <>((AllDone /\ (pc = "closed" \/ consumer = "gone")) \/ ~alive)

-----------------------------------------------------------------------------
Status == IF pc # "closed" THEN "open"
          ELSE IF failed THEN "failed"
          ELSE IF truncated THEN "truncated"
          ELSE "complete"

Abstract == INSTANCE OrderedOutput WITH status <- Status

\* ExtractAsStream implements the abstract specification of ordered output.
ImplementsOrderedOutput == Abstract!Spec
=============================================================================
