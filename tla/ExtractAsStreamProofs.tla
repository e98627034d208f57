------------------------ MODULE ExtractAsStreamProofs ------------------------
(***************************************************************************)
(* ExtractAsStream implements OrderedOutput, gives the consumer the pages  *)
(* in order and whole up to the limit, and closes a complete stream only   *)
(* after its workers have ended and its memory is released, for any number *)
(* of workers, pages and retries, any limit, any document and whatever the *)
(* consumer does.                                                          *)
(***************************************************************************)
EXTENDS ExtractAsStream, WorkerPoolProofs, SequenceTheorems

\* Steps of the streamer and of the consumer that leave the pool as it is.
Quiet == \/ ReturnStream
         \/ Abandon
         \/ ReceiveEnd
         \/ EmitStop
         \/ EmitAtLimit
         \/ EmitCut
         \/ EmitWhole
         \/ CloseOut

\* Every step preserves what the pool promises.
LEMMA PoolPart ==
    ASSUME PoolInv, ClosingOK, [Next]_vars
    PROVE  PoolInv' /\ ClosingOK' /\ doc' = doc
<1>1. CASE alive /\ Pool
  BY <1>1, PoolNextInv, ClosingStep, PoolKeepsDoc DEF Pool
<1>2. CASE ReceiveError \/ ReceiveText \/ Reset
  BY <1>2, TakeResultInv, ResetAllocatorInv, ClosingCollector
     DEF ReceiveError, ReceiveText, Reset, TakeResult, ResetAllocator
<1>3. CASE Quiet \/ UNCHANGED vars
  <2>1. UNCHANGED poolVars
    BY <1>3 DEF Quiet, ReturnStream, Abandon, ReceiveEnd, EmitStop, EmitAtLimit,
       EmitCut, EmitWhole, CloseOut, vars
  <2> QED
    BY <2>1, PoolUnchanged DEF poolVars
<1> QED
  BY <1>1, <1>2, <1>3 DEF Next, Streamer, Quiet

\* A step that leaves the output, the buffer and the document alone keeps what
\* is said of them.
LEMMA OutputKept ==
    ASSUME Inv, PoolInv', doc' = doc,
           UNCHANGED <<pageBuffer, nextPage, out, chars, truncated, failed>>,
           pc' \in {"receive", "emit", "reset", "close", "closed"},
           consumer' \in {"waiting", "reading", "gone"}
    PROVE  TypeOK' /\ BufferOK' /\ OutputInOrder' /\ LimitRespected'
<1>1. TypeOK'
  BY DEF Inv, TypeOK, PoolInv
<1>2. BufferOK' /\ OutputInOrder' /\ LimitRespected'
  BY DEF Inv, BufferOK, OutputInOrder, LimitRespected
<1> QED
  BY <1>1, <1>2

LEMMA InitInv == Init => Inv
<1> SUFFICES ASSUME Init PROVE Inv
  OBVIOUS
<1>1. PoolInv /\ ClosingOK
  BY PoolInitInv, ClosingInit DEF Init
<1>2. TypeOK
  <2>1. DOMAIN pageBuffer = {}
    BY DEF Init
  <2>2. << >> \in [1 .. Len(<< >>) -> Text] /\ Len(<< >>) = 0
    <3>1. << >> \in Seq(Text) /\ Len(<< >>) = 0
      BY EmptySeq
    <3> QED
      BY <3>1, LenProperties, Zenon
  <2>3. pageBuffer \in [DOMAIN pageBuffer -> Text]
    <3>1. << >> \in [1 .. 0 -> Text]
      BY <2>2, Zenon
    <3>2. DOMAIN pageBuffer = 1 .. 0
      BY <2>1
    <3> QED
      BY <3>1, <3>2, Zenon DEF Init
  <2>4. nextPage \in 1 .. Total + 1 /\ out \in Seq(Text)
    BY EmptySeq, PoolAssumption DEF Init
  <2>5. DOMAIN pageBuffer \subseteq Pages
    BY <2>1
  <2>6. /\ pc \in {"receive", "emit", "reset", "close", "closed"}
        /\ chars \in Nat
        /\ truncated \in BOOLEAN
        /\ failed \in BOOLEAN
        /\ consumer \in {"waiting", "reading", "gone"}
    BY DEF Init
  <2> QED
    BY <1>1, <2>3, <2>4, <2>5, <2>6 DEF TypeOK, PoolInv
<1>3. BufferOK /\ OutputInOrder
  BY DEF Init, BufferOK, OutputInOrder
<1>4. LimitRespected /\ ReleaseOK
  BY LimitAssumption DEF Init, LimitRespected, ReleaseOK
<1> QED
  BY <1>1, <1>2, <1>3, <1>4 DEF Inv, Init

-----------------------------------------------------------------------------
(* One lemma per kind of step; PoolPart gives the first three hypotheses.  *)

\* Once "results" is closed the workers have ended and allocate nothing.
LEMMA PoolStepInv ==
    ASSUME Inv, PoolInv', ClosingOK', doc' = doc, Pool
    PROVE  Inv'
<1>1. UNCHANGED <<pc, pageBuffer, nextPage, out, chars, truncated, failed,
                  consumer>>
  BY DEF Pool, streamVars
<1>2. TypeOK' /\ BufferOK' /\ OutputInOrder' /\ LimitRespected'
  BY <1>1, OutputKept DEF Inv, TypeOK
<1>3. resultsClosed => resultsClosed' /\ used' = used
  <2> SUFFICES ASSUME resultsClosed PROVE resultsClosed' /\ used' = used
    OBVIOUS
  <2>1. \A w \in Workers : worker[w].pc = "done"
    BY DEF Inv, ClosingOK, AllDone
  <2> QED
    BY <2>1 DEF Pool, PoolNext, Cancel, Feeder, Feed, FeedEnd, CloseResults,
       WorkerStep, TakeJob, AllocArgs, Decode, PageEnd, Send, WorkerExit
<1>4. ReleaseOK'
  BY <1>1, <1>3 DEF Inv, ReleaseOK
<1> QED
  BY <1>1, <1>2, <1>4 DEF Inv

\* The consumer's own steps.
LEMMA ConsumerInv ==
    ASSUME Inv, PoolInv', ClosingOK', doc' = doc,
           ReturnStream \/ Abandon \/ UNCHANGED vars
    PROVE  Inv'
<1>1. UNCHANGED <<pc, pageBuffer, nextPage, out, chars, truncated, failed,
                  resultsClosed, used>>
      /\ consumer' \in {"waiting", "reading", "gone"}
  BY DEF ReturnStream, Abandon, vars, poolVars, streamVars, Inv, TypeOK
<1>2. TypeOK' /\ BufferOK' /\ OutputInOrder' /\ LimitRespected'
  BY <1>1, OutputKept DEF Inv, TypeOK
<1>3. ReleaseOK'
  BY <1>1 DEF Inv, ReleaseOK
<1> QED
  BY <1>1, <1>2, <1>3 DEF Inv

LEMMA ReceiveErrorInv ==
    ASSUME Inv, PoolInv', ClosingOK', doc' = doc, ReceiveError
    PROVE  Inv'
<1>1. /\ UNCHANGED <<pageBuffer, nextPage, out, chars, truncated, consumer>>
      /\ pc' = "reset"
      /\ failed' = TRUE
  BY DEF ReceiveError
<1>2. TypeOK'
  BY <1>1 DEF Inv, TypeOK, PoolInv
<1>3. BufferOK' /\ OutputInOrder' /\ LimitRespected'
  BY <1>1 DEF Inv, BufferOK, OutputInOrder, LimitRespected
<1>4. ReleaseOK'
  BY <1>1 DEF ReleaseOK
<1> QED
  BY <1>1, <1>2, <1>3, <1>4 DEF Inv

LEMMA ReceiveTextInv ==
    ASSUME Inv, PoolInv', ClosingOK', doc' = doc, ReceiveText
    PROVE  Inv'
<1> DEFINE p == Head(results).index
           t == Head(results).text
<1>1. /\ p \in Pages
      /\ t \in Text
      /\ t.of = p
      /\ t.len \in {0, doc[p].len}
  BY HeadResult DEF Inv, ReceiveText, TakeResult
<1>2. /\ UNCHANGED <<nextPage, out, chars, truncated, failed, consumer>>
      /\ pc' = "emit"
      /\ pageBuffer' = Put(pageBuffer, p, t)
      /\ ~truncated
  BY DEF ReceiveText, TakeResult, Inv
<1> HIDE DEF p, t
<1>3. /\ DOMAIN pageBuffer' = DOMAIN pageBuffer \cup {p}
      /\ \A q \in DOMAIN pageBuffer' :
            pageBuffer'[q] = IF q = p THEN t ELSE pageBuffer[q]
      /\ pageBuffer' \in [DOMAIN pageBuffer' -> Text]
  BY <1>1, <1>2 DEF Put, Inv, TypeOK
<1>4. TypeOK'
  BY <1>1, <1>2, <1>3 DEF Inv, TypeOK, PoolInv
<1>5. BufferOK'
  BY <1>1, <1>2, <1>3 DEF Inv, BufferOK
<1>6. OutputInOrder' /\ LimitRespected'
  BY <1>2 DEF Inv, OutputInOrder, LimitRespected
<1>7. ReleaseOK'
  BY <1>2 DEF ReleaseOK
<1> QED
  BY <1>2, <1>4, <1>5, <1>6, <1>7 DEF Inv

\* The streamer moves on without touching the output.
LEMMA MoveOnInv ==
    ASSUME Inv, PoolInv', ClosingOK', doc' = doc,
           ReceiveEnd \/ EmitStop \/ Reset \/ CloseOut
    PROVE  Inv'
<1>1. UNCHANGED <<pageBuffer, nextPage, out, chars, truncated, failed, consumer,
                  resultsClosed>>
      /\ pc' \in {"receive", "reset", "close", "closed"}
  BY DEF ReceiveEnd, EmitStop, Reset, CloseOut, poolVars, ResetAllocator
<1>2. TypeOK' /\ BufferOK' /\ OutputInOrder' /\ LimitRespected'
  BY <1>1, OutputKept DEF Inv, TypeOK
<1>3. truncated' => pc' \in {"reset", "close", "closed"}
  BY <1>1 DEF ReceiveEnd, EmitStop, Reset, CloseOut, Inv
<1>4. ReleaseOK'
  <2>1. CASE ReceiveEnd
    BY <1>1, <2>1 DEF ReceiveEnd, ReleaseOK
  <2>2. CASE EmitStop
    BY <1>1, <2>2 DEF EmitStop, ReleaseOK
  <2>3. CASE Reset
    BY <1>1, <2>3 DEF Reset, ResetAllocator, ReleaseOK, Inv
  <2>4. CASE CloseOut
    BY <1>1, <2>4 DEF CloseOut, poolVars, ReleaseOK, Inv
  <2> QED
    BY <2>1, <2>2, <2>3, <2>4
<1> QED
  BY <1>2, <1>3, <1>4 DEF Inv

LEMMA EmitAtLimitInv ==
    ASSUME Inv, PoolInv', ClosingOK', doc' = doc, EmitAtLimit
    PROVE  Inv'
<1>1. /\ UNCHANGED <<pageBuffer, nextPage, out, chars, failed, consumer>>
      /\ pc' = "reset"
      /\ truncated' = TRUE
      /\ ~truncated
  BY DEF EmitAtLimit, Inv
<1>2. TypeOK'
  BY <1>1 DEF Inv, TypeOK, PoolInv
<1>3. BufferOK' /\ OutputInOrder'
  BY <1>1 DEF Inv, BufferOK, OutputInOrder
<1>4. LimitRespected'
  BY <1>1, LimitAssumption
     DEF EmitAtLimit, Remaining, Inv, TypeOK, LimitRespected
<1>5. ReleaseOK'
  BY <1>1 DEF ReleaseOK
<1> QED
  BY <1>1, <1>2, <1>3, <1>4, <1>5 DEF Inv

\* What a send to the consumer adds to the output.
LEMMA SendSteps ==
    ASSUME Inv, Ready, ~truncated, NEW n \in Nat, SendToConsumer(n)
    PROVE  /\ nextPage \in Pages
           /\ nextPage = Len(out) + 1
           /\ Len(out) \in Nat
           /\ pageBuffer[nextPage].of = nextPage
           /\ pageBuffer[nextPage].len = doc[nextPage].len
           /\ pageBuffer[nextPage].len \in Nat
           /\ out' = Append(out, [of |-> nextPage, len |-> n])
           /\ out' \in Seq(Text)
           /\ Len(out') = nextPage
           /\ \A i \in 1 .. Len(out) : out'[i] = out[i]
           /\ out'[nextPage] = [of |-> nextPage, len |-> n]
           /\ chars' = chars + n
           /\ chars' \in Nat
           /\ UNCHANGED <<failed, consumer>>
<1>1. /\ nextPage \in Pages
      /\ pageBuffer[nextPage].of = nextPage
      /\ pageBuffer[nextPage].len \in {0, doc[nextPage].len}
      /\ pageBuffer[nextPage].len > 0
      /\ pageBuffer[nextPage].len \in Nat
  BY DEF Ready, Inv, TypeOK, BufferOK, Text
<1>2. out \in Seq(Text) /\ nextPage = Len(out) + 1
  BY DEF Inv, TypeOK, OutputInOrder
<1> DEFINE t == [of |-> nextPage, len |-> n]
<1>3. t \in Text /\ out' = Append(out, t)
  BY <1>1 DEF SendToConsumer, Text
<1> HIDE DEF t
<1>4. /\ out' \in Seq(Text)
      /\ Len(out) \in Nat
      /\ Len(out') = nextPage
      /\ \A i \in 1 .. Len(out) : out'[i] = out[i]
      /\ out'[nextPage] = t
  BY <1>2, <1>3
<1>5. chars' = chars + n /\ chars' \in Nat /\ UNCHANGED <<failed, consumer>>
  BY DEF SendToConsumer, Inv, TypeOK
<1> QED
  BY <1>1, <1>2, <1>3, <1>4, <1>5 DEF t

LEMMA EmitCutInv ==
    ASSUME Inv, PoolInv', ClosingOK', doc' = doc, EmitCut
    PROVE  Inv'
<1>1. /\ Ready
      /\ ~truncated
      /\ truncated' = TRUE
      /\ pc' = "reset"
      /\ MaxTotalChars > 0
      /\ pageBuffer[nextPage].len > Remaining
      /\ SendToConsumer(Remaining)
      /\ UNCHANGED <<pageBuffer, nextPage>>
  BY DEF EmitCut, Inv
<1>2. Remaining \in Nat /\ chars + Remaining = MaxTotalChars
  BY LimitAssumption DEF EmitCut, Remaining, Inv, TypeOK
<1>3. /\ nextPage \in Pages
      /\ nextPage = Len(out) + 1
      /\ Len(out) \in Nat
      /\ pageBuffer[nextPage].len = doc[nextPage].len
      /\ out' \in Seq(Text)
      /\ Len(out') = nextPage
      /\ \A i \in 1 .. Len(out) : out'[i] = out[i]
      /\ out'[nextPage] = [of |-> nextPage, len |-> Remaining]
      /\ chars' = chars + Remaining
      /\ chars' \in Nat
      /\ UNCHANGED <<failed, consumer>>
  BY <1>1, <1>2, SendSteps
<1>4. TypeOK'
  BY <1>1, <1>3 DEF Inv, TypeOK, PoolInv
<1>5. BufferOK'
  BY <1>1 DEF Inv, BufferOK
<1>6. OutputInOrder'
  <2>1. \A i \in DOMAIN out' : i \in 1 .. Len(out) \/ i = nextPage
    BY <1>3
  <2>2. \A i \in DOMAIN out' : out'[i].of = i
    BY <1>3, <2>1 DEF Inv, OutputInOrder
  <2>3. \A i \in 1 .. nextPage - 1 : out'[i].len = doc[i].len
    BY <1>1, <1>3 DEF Inv, OutputInOrder
  <2>4. out'[nextPage].len < doc[nextPage].len
    BY <1>1, <1>3
  <2> QED
    BY <1>1, <1>3, <2>2, <2>3, <2>4 DEF OutputInOrder
<1>7. LimitRespected'
  BY <1>1, <1>2, <1>3, LimitAssumption DEF LimitRespected
<1>8. ReleaseOK'
  BY <1>1 DEF ReleaseOK
<1> QED
  BY <1>1, <1>4, <1>5, <1>6, <1>7, <1>8 DEF Inv

LEMMA EmitWholeInv ==
    ASSUME Inv, PoolInv', ClosingOK', doc' = doc, EmitWhole
    PROVE  Inv'
<1> DEFINE n == pageBuffer[nextPage].len
<1>1. /\ Ready
      /\ ~truncated
      /\ pc = "emit"
      /\ SendToConsumer(n)
      /\ UNCHANGED <<pc, truncated>>
      /\ nextPage' = nextPage + 1
      /\ MaxTotalChars = 0 \/ n <= Remaining
  BY DEF EmitWhole, Inv
<1>2. n \in Nat
  BY <1>1 DEF Ready, Inv, TypeOK, Text
<1>3. /\ DOMAIN pageBuffer' = DOMAIN pageBuffer \ {nextPage}
      /\ \A q \in DOMAIN pageBuffer' : pageBuffer'[q] = pageBuffer[q]
      /\ pageBuffer' \in [DOMAIN pageBuffer' -> Text]
  BY DEF EmitWhole, Restrict, Inv, TypeOK
<1> HIDE DEF n
<1>4. /\ nextPage \in Pages
      /\ nextPage = Len(out) + 1
      /\ Len(out) \in Nat
      /\ out' \in Seq(Text)
      /\ Len(out') = nextPage
      /\ \A i \in 1 .. Len(out) : out'[i] = out[i]
      /\ out'[nextPage] = [of |-> nextPage, len |-> n]
      /\ chars' = chars + n
      /\ chars' \in Nat
      /\ UNCHANGED <<failed, consumer>>
  BY <1>1, <1>2, SendSteps
<1>5. n = doc[nextPage].len
  BY <1>1, <1>2, SendSteps DEF n
<1>6. TypeOK'
  BY <1>1, <1>3, <1>4, PoolAssumption DEF Inv, TypeOK, PoolInv, Pages
<1>7. BufferOK'
  BY <1>3 DEF Inv, BufferOK
<1>8. OutputInOrder'
  <2>1. \A i \in DOMAIN out' : i \in 1 .. Len(out) \/ i = nextPage
    BY <1>4
  <2>2. \A i \in DOMAIN out' : out'[i].of = i
    BY <1>4, <2>1 DEF Inv, OutputInOrder
  <2>3. \A i \in 1 .. nextPage' - 1 : out'[i].len = doc[i].len
    <3>1. \A i \in 1 .. nextPage' - 1 : i \in 1 .. Len(out) \/ i = nextPage
      BY <1>1, <1>4
    <3>2. \A i \in 1 .. Len(out) : out[i].len = doc[i].len
      BY <1>4 DEF Inv, OutputInOrder
    <3> QED
      BY <1>4, <1>5, <3>1, <3>2
  <2> QED
    BY <1>1, <1>4, <2>2, <2>3 DEF OutputInOrder
<1>9. LimitRespected'
  BY <1>1, <1>2, <1>4, LimitAssumption DEF Remaining, Inv, TypeOK, LimitRespected
<1>10. ReleaseOK'
  BY <1>1 DEF ReleaseOK
<1> QED
  BY <1>1, <1>6, <1>7, <1>8, <1>9, <1>10 DEF Inv

-----------------------------------------------------------------------------
(* The theorems. *)

LEMMA StepInv == Inv /\ [Next]_vars => Inv'
<1> SUFFICES ASSUME Inv, [Next]_vars PROVE Inv'
  OBVIOUS
<1>1. PoolInv' /\ ClosingOK' /\ doc' = doc
  BY PoolPart DEF Inv
<1> QED
  BY <1>1, PoolStepInv, ConsumerInv, ReceiveErrorInv, ReceiveTextInv, MoveOnInv,
     EmitAtLimitInv, EmitCutInv, EmitWholeInv DEF Next, Streamer

\* The inductive invariant of ExtractAsStream holds in every reachable state.
THEOREM Invariant == Spec => []Inv
BY InitInv, StepInv, PTL DEF Spec

\* The consumer gets the pages in order, each once and whole, up to a text that is
\* cut at the limit and the last.
THEOREM StreamInOrder == Spec => []OutputInOrder
<1>1. Inv => OutputInOrder
  BY DEF Inv
<1> QED
  BY <1>1, Invariant, PTL

\* The end of a complete stream comes after the end of every worker, with the
\* memory of the document released.
THEOREM ClosedAfterReleaseCorrect == Spec => []ClosedAfterRelease
<1>1. Inv => ClosedAfterRelease
  BY DEF Inv, ReleaseOK, ClosingOK, ClosedAfterRelease
<1> QED
  BY <1>1, Invariant, PTL

-----------------------------------------------------------------------------
(* Refinement. *)

\* A send to the consumer is an abstract step that adds to the output.
LEMMA EmitAdds ==
    ASSUME Inv, EmitCut \/ EmitWhole
    PROVE  Abstract!Next
<1>1. /\ Status = "open" /\ Status' = "open"
      /\ Ready /\ ~truncated
      /\ pageBuffer[nextPage].len \in Nat
      /\ pageBuffer[nextPage].len > 0
      /\ chars \in Nat
  BY DEF EmitCut, EmitWhole, Status, Ready, Inv, TypeOK, Text
<1>2. ASSUME NEW n \in Nat, SendToConsumer(n)
      PROVE  /\ Len(out) < Total
             /\ out' = Append(out, [of |-> Len(out) + 1, len |-> n])
             /\ chars' = chars + n
  <2>1. /\ nextPage \in Pages
        /\ nextPage = Len(out) + 1
        /\ Len(out) \in Nat
        /\ out' = Append(out, [of |-> nextPage, len |-> n])
        /\ chars' = chars + n
    BY <1>1, <1>2, SendSteps
  <2> QED
    BY <2>1, PoolAssumption DEF Pages
<1>3. CASE EmitCut
  <2>1. Remaining \in Nat /\ chars < MaxTotalChars /\ SendToConsumer(Remaining)
    BY <1>1, <1>3, LimitAssumption DEF EmitCut, Remaining
  <2>2. Len(out) < Total /\ Abstract!Add(MaxTotalChars - chars)
    BY <1>1, <1>2, <2>1 DEF Remaining, Abstract!Add
  <2> QED
    BY <1>1, <2>1, <2>2 DEF Abstract!AddCut, Abstract!Next
<1>4. CASE EmitWhole
  <2> DEFINE n == pageBuffer[nextPage].len
  <2>1. n \in Nat /\ n > 0 /\ SendToConsumer(n)
    BY <1>1, <1>4 DEF EmitWhole
  <2>2. MaxTotalChars = 0 \/ n <= Remaining
    BY <1>4 DEF EmitWhole
  <2> HIDE DEF n
  <2>3. /\ Len(out) < Total
        /\ out' = Append(out, [of |-> Len(out) + 1, len |-> n])
        /\ chars' = chars + n
    BY <1>2, <2>1
  <2>4. n = chars' - chars /\ chars' = chars + (chars' - chars)
        /\ chars' \in Nat /\ chars' > chars
    BY <1>1, <2>1, <2>3
  <2>5. MaxTotalChars = 0 \/ chars' <= MaxTotalChars
    BY <1>1, <2>1, <2>2, <2>3, LimitAssumption DEF Remaining
  <2>6. Abstract!Add(chars' - chars)
    BY <1>1, <2>3, <2>4 DEF Abstract!Add
  <2> QED
    BY <1>1, <2>3, <2>4, <2>5, <2>6 DEF Abstract!AddWhole, Abstract!Next
<1> QED
  BY <1>3, <1>4

\* The close of the channel is the abstract end of the output.
LEMMA CloseFinishes ==
    ASSUME Inv, CloseOut
    PROVE  Abstract!Next
<1>1. /\ Status = "open"
      /\ UNCHANGED <<out, chars, truncated, failed>>
      /\ pc' = "closed"
  BY DEF CloseOut, Status
<1>2. truncated => MaxTotalChars > 0 /\ chars = MaxTotalChars
  BY DEF Inv, LimitRespected
<1>3. CASE failed
  BY <1>1, <1>3 DEF Status, Abstract!Finish, Abstract!Next
<1>4. CASE ~failed /\ truncated
  BY <1>1, <1>2, <1>4 DEF Status, Abstract!Finish, Abstract!Next
<1>5. CASE ~failed /\ ~truncated
  BY <1>1, <1>5 DEF Status, Abstract!Finish, Abstract!Next
<1> QED
  BY <1>3, <1>4, <1>5

\* Every other step leaves the output alone; a streamer that has closed the
\* channel takes no step.
LEMMA OtherStutters ==
    ASSUME \/ Pool
           \/ ReturnStream
           \/ Abandon
           \/ ReceiveError
           \/ ReceiveText
           \/ ReceiveEnd
           \/ EmitStop
           \/ EmitAtLimit
           \/ Reset
           \/ UNCHANGED vars
    PROVE  UNCHANGED Abstract!vars
<1>1. UNCHANGED <<out, chars>>
  BY DEF Pool, ReturnStream, Abandon, ReceiveError, ReceiveText, ReceiveEnd,
         EmitStop, EmitAtLimit, Reset, streamVars, vars
<1>2. Status' = Status
  BY DEF Pool, ReturnStream, Abandon, ReceiveError, ReceiveText, ReceiveEnd,
         EmitStop, EmitAtLimit, Reset, streamVars, vars, Status
<1> QED
  BY <1>1, <1>2 DEF Abstract!vars

\* ExtractAsStream implements the abstract specification of ordered output.
THEOREM Refinement == Spec => ImplementsOrderedOutput
<1>1. Init => Abstract!Init
  BY DEF Init, Abstract!Init, Status
<1>2. Inv /\ [Next]_vars => [Abstract!Next]_(Abstract!vars)
  BY EmitAdds, CloseFinishes, OtherStutters DEF Next, Streamer
<1> QED
  BY <1>1, <1>2, Invariant, PTL DEF Spec, ImplementsOrderedOutput, Abstract!Spec
=============================================================================
