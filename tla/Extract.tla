------------------------------- MODULE Extract -------------------------------
(***************************************************************************)
(* Processor.Extract from the moment the workers start: the worker pool of *)
(* one document, the collector emitInOrder that puts the pages back in     *)
(* order, and the return, which resets the document's allocator.           *)
(***************************************************************************)
EXTENDS WorkerPool, Functions

CONSTANT MaxTotalChars   \* Config.MaxTotalChars, 0 for no limit

ASSUME LimitAssumption == MaxTotalChars \in Nat

VARIABLES
    pc,          \* the caller: "receive", "emit", "reset" or "returned"
    pageBuffer,  \* texts received and not output yet, by page
    nextPage,    \* the page whose text is output next
    out,         \* the texts written to the strings.Builder
    chars,       \* its length
    truncated,   \* the flag that Extract returns
    err          \* Extract returns an error, and no text

collectorVars == <<pc, pageBuffer, nextPage, out, chars, truncated, err>>

vars == <<poolVars, collectorVars>>

-----------------------------------------------------------------------------
Init ==
    /\ PoolInit
    /\ pc = "receive"
    /\ pageBuffer = << >>
    /\ nextPage = 1
    /\ out = << >>
    /\ chars = 0
    /\ truncated = FALSE
    /\ err = FALSE

Pool == PoolNext /\ UNCHANGED collectorVars

\* An error in strict mode ends the collection at once.
ReceiveError ==
    /\ pc = "receive"
    /\ TakeResult
    /\ Head(results).err
    /\ mode = "strict"
    /\ err' = TRUE
    /\ pc' = "reset"
    /\ UNCHANGED <<pageBuffer, nextPage, out, chars, truncated>>

\* Mutant: the text is filed in order of arrival.
ReceiveTextUnordered ==
    /\ pc = "receive"
    /\ TakeResult
    /\ ~(Head(results).err /\ mode = "strict")
    /\ pageBuffer' = Put(pageBuffer, nextPage, Head(results).text)
    /\ pc' = "emit"
    /\ UNCHANGED <<nextPage, out, chars, truncated, err>>

\* Any other result is kept, an error in best-effort mode as an empty text.
ReceiveText ==
    /\ pc = "receive"
    /\ TakeResult
    /\ ~(Head(results).err /\ mode = "strict")
    /\ pageBuffer' = Put(pageBuffer, Head(results).index, Head(results).text)
    /\ pc' = "emit"
    /\ UNCHANGED <<nextPage, out, chars, truncated, err>>

\* Mutant: the collector waits for the last page, not for the channel to close.
ReceiveEndByCount ==
    /\ pc = "receive"
    /\ nextPage > Total
    /\ pc' = "reset"
    /\ UNCHANGED <<poolVars, pageBuffer, nextPage, out, chars, truncated, err>>

\* Mutant: missing pages are reported as truncation.
ReceiveEndTruncated ==
    /\ pc = "receive"
    /\ resultsClosed
    /\ results = << >>
    /\ truncated' = (nextPage <= Total)
    /\ pc' = "reset"
    /\ UNCHANGED <<poolVars, pageBuffer, nextPage, out, chars, err>>

\* The range over results ends when the channel is closed and drained.
ReceiveEnd ==
    /\ pc = "receive"
    /\ resultsClosed
    /\ results = << >>
    /\ pc' = "reset"
    /\ UNCHANGED <<poolVars, pageBuffer, nextPage, out, chars, truncated, err>>

\* The next page has arrived and has some text.
Ready == /\ nextPage \in DOMAIN pageBuffer
         /\ pageBuffer[nextPage].len > 0

Remaining == MaxTotalChars - chars

WriteString(n) ==
    /\ out' = Append(out, [of |-> pageBuffer[nextPage].of, len |-> n])
    /\ chars' = chars + n
    /\ pageBuffer' = Restrict(pageBuffer, DOMAIN pageBuffer \ {nextPage})
    /\ nextPage' = nextPage + 1

\* One turn of the inner loop of emitInOrder: nothing to output, ...
EmitStop ==
    /\ pc = "emit"
    /\ ~Ready
    /\ pc' = "receive"
    /\ UNCHANGED <<poolVars, pageBuffer, nextPage, out, chars, truncated, err>>

\* ... a text when the limit has been reached already, ...
EmitAtLimit ==
    /\ pc = "emit"
    /\ Ready
    /\ MaxTotalChars > 0
    /\ Remaining <= 0
    /\ truncated' = TRUE
    /\ pc' = "reset"
    /\ UNCHANGED <<poolVars, pageBuffer, nextPage, out, chars, err>>

\* ... a text that must be cut, ...
EmitCut ==
    /\ pc = "emit"
    /\ Ready
    /\ MaxTotalChars > 0
    /\ Remaining > 0
    /\ pageBuffer[nextPage].len > Remaining
    /\ WriteString(Remaining)
    /\ truncated' = TRUE
    /\ pc' = "reset"
    /\ UNCHANGED <<poolVars, err>>

\* Mutant: the text is written whole as long as the limit is not reached.
EmitWholeBelowLimit ==
    /\ pc = "emit"
    /\ Ready
    /\ MaxTotalChars = 0 \/ Remaining > 0
    /\ WriteString(pageBuffer[nextPage].len)
    /\ UNCHANGED <<poolVars, pc, truncated, err>>

\* ... or a text that fits.
EmitWhole ==
    /\ pc = "emit"
    /\ Ready
    /\ MaxTotalChars = 0 \/ pageBuffer[nextPage].len <= Remaining
    /\ WriteString(pageBuffer[nextPage].len)
    /\ UNCHANGED <<poolVars, pc, truncated, err>>

\* The deferred ResetAllocator, then the return.
Return ==
    /\ pc = "reset"
    /\ pc' = "returned"
    /\ ResetAllocator
    /\ UNCHANGED <<pageBuffer, nextPage, out, chars, truncated, err>>

Collector ==
    \/ ReceiveError
    \/ ReceiveText
    \/ ReceiveEnd
    \/ EmitStop
    \/ EmitAtLimit
    \/ EmitCut
    \/ EmitWhole
    \/ Return

\* An unrecovered panic ends the process and every goroutine with it.
Next == alive /\ (Pool \/ Collector)

(***************************************************************************)
(* Every goroutine that can run is run: the Go scheduler is preemptive and *)
(* never leaves a runnable goroutine out for ever.                         *)
(***************************************************************************)
Fairness ==
    /\ WF_vars(alive /\ Feeder /\ UNCHANGED collectorVars)
    /\ WF_vars(alive /\ CloseResults /\ UNCHANGED collectorVars)
    /\ \A w \in Workers :
          WF_vars(alive /\ WorkerStep(w) /\ UNCHANGED collectorVars)
    /\ WF_vars(alive /\ Collector)

Spec == Init /\ [][Next]_vars

FairSpec == Spec /\ Fairness

-----------------------------------------------------------------------------
\* The types of the pool and of the local variables of emitInOrder.
TypeOK ==
    /\ PoolTypeOK
    /\ pc \in {"receive", "emit", "reset", "returned"}
    /\ DOMAIN pageBuffer \subseteq Pages
    /\ pageBuffer \in [DOMAIN pageBuffer -> Text]
    /\ nextPage \in 1 .. Total + 1
    /\ out \in Seq(Text)
    /\ chars \in Nat
    /\ truncated \in BOOLEAN
    /\ err \in BOOLEAN

-----------------------------------------------------------------------------
(* Safety. *)

\* Each page is output at most once, in page order, with its own text, and
\* whole unless it is the one at which the output was truncated (emitInOrder).
OutputInOrder ==
    /\ nextPage = Len(out) + 1
    /\ \A i \in 1 .. Len(out) :
          /\ out[i].of = i
          /\ i < Len(out) \/ ~truncated => out[i].len = doc[i].len

\* The output never passes MaxTotalChars, and the truncated flag is raised only
\* when there is such a limit and the output is exactly that long (emitInOrder).
LimitRespected ==
    /\ MaxTotalChars > 0 => chars <= MaxTotalChars
    /\ truncated => MaxTotalChars > 0 /\ chars = MaxTotalChars

\* A worker that holds a page always finds room in the channel "results", also
\* when nobody receives from it any more, so no worker is ever stuck (the
\* capacity "total" given to make in Extract).
SendNeverBlocks == Busy # {} => Len(results) < ResultCapacity

Copies(p) ==
    Cardinality({w \in Busy : worker[w].page = p})
      + Cardinality({i \in DOMAIN results : results[i].index = p})
      + (IF p \in DOMAIN pageBuffer THEN 1 ELSE 0)
      + (IF p < nextPage THEN 1 ELSE 0)

\* No page is lost or handled twice between feedJobs and the output: a page taken
\* from "jobs" is with one worker, in "results", in pageBuffer or output.  A
\* strict-mode error and a crash may drop one page, and duplicate none.
PageInOnePlace ==
    \A p \in Pages :
        IF p > taken THEN Copies(p) = 0
        ELSE IF alive /\ ~err THEN Copies(p) = 1
        ELSE Copies(p) <= 1

\* When Extract returns a text that is not flagged as truncated and the context
\* was not cancelled, the output stopped at no page but one without text.
StopsOnlyAtEmptyPage ==
    pc = "returned" /\ ~err /\ ~truncated /\ ~cancelled =>
        \/ nextPage > Total
        \/ /\ nextPage \in DOMAIN pageBuffer
           /\ pageBuffer[nextPage].len = 0

\* In strict mode a text that is not truncated is returned only if every page
\* that was fed succeeded, so no failure is lost among retries and channels.
StrictSuccessIsTotal ==
    mode = "strict" /\ pc = "returned" /\ ~err /\ ~truncated =>
        \A p \in 1 .. fed : doc[p].kind = "text"

\* When the collector saw the end of the results, no worker reads parsed data of
\* the document any more once its allocator is reset (ResetAllocator deferred by
\* Extract).  An early return, at an error or at the limit, promises nothing.
ResetAfterWorkers == pc = "returned" /\ ~err /\ ~truncated => Reading = {}

\* The texts in pageBuffer are those of their pages, or empty.
BufferOK ==
    \A p \in DOMAIN pageBuffer :
        /\ pageBuffer[p].of = p
        /\ pageBuffer[p].len \in {0, doc[p].len}

\* The inductive invariant behind the properties above: nothing is output after
\* truncation, and what is in flight is the text that will be output.
Inv ==
    /\ TypeOK
    /\ PoolInv
    /\ BufferOK
    /\ OutputInOrder
    /\ LimitRespected
    /\ truncated => pc \in {"reset", "returned"}

\* The pages that the collector has received.
Collected == (1 .. nextPage - 1) \cup DOMAIN pageBuffer

\* The collector has a page only once and shares none with the pool, and between
\* them they have every page taken.
PlacesOK ==
    /\ Collected \subseteq 1 .. taken
    /\ (1 .. nextPage - 1) \cap DOMAIN pageBuffer = {}
    /\ Collected \cap InPool = {}
    /\ alive /\ ~err => 1 .. taken \subseteq Collected \cup InPool

\* Why the collection ended: an error, which only strict mode reports, the limit,
\* or the end of the results.  It never stops before a text that it could output.
EndOK ==
    /\ err => mode = "strict"
    /\ pc # "emit" /\ ~truncated => ~Ready
    /\ pc \in {"reset", "returned"} /\ ~err /\ ~truncated =>
          resultsClosed /\ results = << >>

\* In strict mode the pages received are sound.
StrictCollectedOK ==
    mode = "strict" => \A p \in Collected : doc[p].kind = "text"

\* The inductive invariant behind "no page is lost": Inv, where each page is, and
\* in which order the goroutines end.
DeliveryInv ==
    /\ Inv
    /\ OneHolder
    /\ ClosingOK
    /\ StrictPoolOK
    /\ PlacesOK
    /\ EndOK
    /\ StrictCollectedOK

-----------------------------------------------------------------------------
(* What the comments say and the code does not do. *)

\* processor.go:39: if a page fails, it simply skips that page.
SkipsOnlyTheFailedPage ==
    pc = "returned" /\ mode = "best-effort" /\ ~truncated =>
        \A p \in 1 .. fed :
            doc[p].kind = "text" /\ doc[p].len > 0 =>
                \E i \in DOMAIN out : out[i].of = p

\* processor.go:94: the flag says that the output hits the character limit, and
\* processor_test.go:166 expects it of every output that is as long as the limit.
FlaggedAtLimit ==
    pc = "returned" /\ ~err /\ MaxTotalChars > 0 /\ chars = MaxTotalChars =>
        truncated

-----------------------------------------------------------------------------
(* Liveness. *)

\* Extract returns and every worker exits, also those that an early return leaves
\* behind, unless an unrecovered panic ends the process (emitInOrder, the closer).
ReturnsAndWorkersExit == <>((pc = "returned" /\ AllDone) \/ ~alive)

-----------------------------------------------------------------------------
(* Refinement. *)

Status == IF pc # "returned" THEN "open"
          ELSE IF err THEN "failed"
          ELSE IF truncated THEN "truncated"
          ELSE "complete"

Abstract == INSTANCE OrderedOutput WITH status <- Status

\* Extract implements the abstract specification of ordered output.
ImplementsOrderedOutput == Abstract!Spec
=============================================================================
