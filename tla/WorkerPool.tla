----------------------------- MODULE WorkerPool -----------------------------
(***************************************************************************)
(* The goroutines that Extract and ExtractAsStream of processor.go share:  *)
(* the feeder that queues page numbers on the channel "jobs", the workers  *)
(* that extract pages with retries under one bounded allocator, and the    *)
(* goroutine that closes the channel "results" after the last worker.      *)
(*                                                                         *)
(* The channel "jobs" is filled with 1, 2, 3, ... by one goroutine and is  *)
(* first-in first-out, so it always holds taken+1 .. fed and two counters  *)
(* stand for it.  A page is abstracted to its Fate: what extracting it     *)
(* would do.  A text is abstracted to the page it comes from and its       *)
(* length.  Memory is counted in units of one allocation.                  *)
(***************************************************************************)
EXTENDS Integers, Sequences, FiniteSets

CONSTANTS
    Workers,     \* the worker goroutines started for one document
    Total,       \* number of pages of the document (NumPage)
    Modes,       \* the values of Config.ParsingMode considered
    MaxRetries,  \* Config.MaxRetries
    MemLimit,    \* Config.MaxMemoryPerPDF, in allocations
    Docs         \* the documents considered: functions from Pages to Fate

Pages == 1 .. Total

(***************************************************************************)
(* What a page does when it is extracted.  A "text" page runs ops          *)
(* operators and yields len characters (len = 0 is a page without text); a *)
(* "bad" page panics after ops operators, inside the recover of            *)
(* GetPlainText; a "null" page is missing from the page tree; a "crash"    *)
(* page panics in Reader.Page or cacheFonts, where nothing recovers.       *)
(***************************************************************************)
Fate == [kind : {"text", "bad", "null", "crash"}, len : Nat, ops : Nat]

ASSUME PoolAssumption ==
    /\ IsFiniteSet(Workers)
    /\ Workers # {}
    /\ Total \in Nat \ {0}
    /\ Modes \subseteq {"strict", "best-effort"}
    /\ MaxRetries \in Nat
    /\ MemLimit \in Nat \ {0}
    /\ Docs \subseteq [Pages -> Fate]

VARIABLES
    doc,           \* the document being extracted, never changed
    mode,          \* Config.ParsingMode of the processor, never changed
    alive,         \* FALSE once an unrecovered panic ended the process
    cancelled,     \* the caller's context is done
    fed,           \* pages put on "jobs" so far
    taken,         \* pages received from "jobs" so far
    jobsClosed,    \* close(jobs) was executed
    worker,        \* the local state of each worker
    results,       \* the channel "results"
    resultsClosed, \* close(results) was executed
    used           \* BoundedAllocator.allocated

poolVars == <<doc, mode, alive, cancelled, fed, taken, jobsClosed, worker,
              results, resultsClosed, used>>

-----------------------------------------------------------------------------
(* Channels and worker states. *)

JobCapacity == Total

\* Mutant: the channel is one element short.
ResultCapacityShort == Total - 1

\* Mutant: the channel holds one result, whatever the number of pages.
ResultCapacityOne == 1

ResultCapacity == Total

Text == [of : Pages, len : Nat]

PageResult == [index : Pages, text : Text, err : BOOLEAN]

Idle == [pc |-> "idle", page |-> 0, attempt |-> 0, ops |-> 0,
         len |-> 0, err |-> FALSE]

\* A worker that starts attempt a of page p with a fresh call of GetPlainText.
Attempt(p, a) == [pc |-> "args", page |-> p, attempt |-> a,
                  ops |-> doc[p].ops, len |-> 0, err |-> FALSE]

\* A worker that holds n characters, or an error, for page p and will send it.
Finished(p, a, n, e) == [pc |-> "send", page |-> p, attempt |-> a,
                         ops |-> 0, len |-> n, err |-> e]

WorkerState == [pc : {"idle", "args", "decode", "send", "done"},
                page : 0 .. Total, attempt : 0 .. MaxRetries,
                ops : Nat, len : Nat, err : BOOLEAN]

\* The workers that have taken a page and not sent its result yet.
Busy == {w \in Workers : worker[w].pc \in {"args", "decode", "send"}}

\* The workers that are reading parsed data of the document.
Reading == {w \in Workers : worker[w].pc \in {"args", "decode"}}

AllDone == \A w \in Workers : worker[w].pc = "done"

-----------------------------------------------------------------------------
PoolInit ==
    /\ doc \in Docs
    /\ mode \in Modes
    /\ alive = TRUE
    /\ cancelled = FALSE
    /\ fed = 0
    /\ taken = 0
    /\ jobsClosed = FALSE
    /\ worker = [w \in Workers |-> Idle]
    /\ results = << >>
    /\ resultsClosed = FALSE
    /\ used = 0

\* The caller's context is cancelled or times out.
Cancel ==
    /\ ~cancelled
    /\ cancelled' = TRUE
    /\ UNCHANGED <<doc, mode, alive, fed, taken, jobsClosed, worker, results,
                   resultsClosed, used>>

(* feedJobs: the select takes either ready case. *)
Feed ==
    /\ ~jobsClosed
    /\ fed < Total
    /\ fed - taken < JobCapacity
    /\ fed' = fed + 1
    /\ UNCHANGED <<doc, mode, alive, cancelled, taken, jobsClosed, worker,
                   results, resultsClosed, used>>

\* feedJobs returns, with or without an error that its callers drop, and the
\* caller closes the channel.
FeedEnd ==
    /\ ~jobsClosed
    /\ fed = Total \/ cancelled
    /\ jobsClosed' = TRUE
    /\ UNCHANGED <<doc, mode, alive, cancelled, fed, taken, worker, results,
                   resultsClosed, used>>

\* A worker receives the next page number and looks the page up.
TakeJob(w) ==
    LET p == taken + 1 IN
    /\ worker[w].pc = "idle"
    /\ taken < fed
    /\ taken' = p
    /\ \/ /\ doc[p].kind = "null"
          /\ worker' = [worker EXCEPT ![w] = Finished(p, 0, 0, TRUE)]
          /\ UNCHANGED alive
       \/ /\ doc[p].kind \in {"text", "bad"}
          /\ worker' = [worker EXCEPT ![w] = Attempt(p, 0)]
          /\ UNCHANGED alive
       \/ /\ doc[p].kind = "crash"
          /\ alive' = FALSE
          /\ UNCHANGED worker
    /\ UNCHANGED <<doc, mode, cancelled, fed, jobsClosed, results,
                   resultsClosed, used>>

\* Mutant: the error of the last attempt is lost.
AfterFailureForgotten(p, a) ==
    IF mode = "best-effort" THEN Finished(p, a, 0, FALSE)
    ELSE IF a < MaxRetries THEN Attempt(p, a + 1)
    ELSE Finished(p, a, 0, FALSE)

\* What an attempt that panicked leaves: the best-effort extractor turns the
\* error into an empty text, the strict one is retried, then reports it.
AfterFailure(p, a) ==
    IF mode = "best-effort" THEN Finished(p, a, 0, FALSE)
    ELSE IF a < MaxRetries THEN Attempt(p, a + 1)
    ELSE Finished(p, a, 0, TRUE)

\* Mutant: the limit is compared before the size is added.
AllocArgsLate(w) ==
    /\ worker[w].pc = "args"
    /\ worker[w].ops > 0
    /\ used <= MemLimit
    /\ used' = used + 1
    /\ worker' = [worker EXCEPT ![w].pc = "decode"]
    /\ UNCHANGED <<doc, mode, alive, cancelled, fed, taken, jobsClosed,
                   results, resultsClosed>>

\* The next operator of the page: its argument slice comes from the bounded
\* allocator, and GetPlainText panics when the allocator refuses.
AllocArgs(w) ==
    /\ worker[w].pc = "args"
    /\ worker[w].ops > 0
    /\ \/ /\ used < MemLimit
          /\ used' = used + 1
          /\ worker' = [worker EXCEPT ![w].pc = "decode"]
       \/ /\ used >= MemLimit
          /\ worker' = [worker EXCEPT ![w] =
                            AfterFailure(worker[w].page, worker[w].attempt)]
          /\ UNCHANGED used
    /\ UNCHANGED <<doc, mode, alive, cancelled, fed, taken, jobsClosed,
                   results, resultsClosed>>

NextOperator(s) == [s EXCEPT !.pc = "args", !.ops = s.ops - 1]

\* The operator's string is decoded twice into runes from the same allocator, for
\* the log and for the text; a decoder that is refused returns the raw bytes.  An
\* allocation of another worker between the two could as well come before or after.
Decode(w) ==
    /\ worker[w].pc = "decode"
    /\ worker' = [worker EXCEPT ![w] = NextOperator(worker[w])]
    /\ \/ /\ used + 2 <= MemLimit
          /\ used' = used + 2
       \/ /\ used + 2 > MemLimit
          /\ used' = MemLimit
    /\ UNCHANGED <<doc, mode, alive, cancelled, fed, taken, jobsClosed,
                   results, resultsClosed>>

\* The content stream is read to its end, or to the operator that panics.
PageEnd(w) ==
    LET p == worker[w].page IN
    /\ worker[w].pc = "args"
    /\ worker[w].ops = 0
    /\ worker' = [worker EXCEPT ![w] =
                      IF doc[p].kind = "bad"
                      THEN AfterFailure(p, worker[w].attempt)
                      ELSE Finished(p, worker[w].attempt, doc[p].len, FALSE)]
    /\ UNCHANGED <<doc, mode, alive, cancelled, fed, taken, jobsClosed,
                   results, resultsClosed, used>>

\* Mutant: after the error for a null page the loop does not continue with the
\* next job but extracts the page.
SendWithoutContinue(w) ==
    LET p == worker[w].page IN
    /\ worker[w].pc = "send"
    /\ Len(results) < ResultCapacity
    /\ results' = Append(results, [index |-> p,
                                   text |-> [of |-> p, len |-> worker[w].len],
                                   err |-> worker[w].err])
    /\ worker' = [worker EXCEPT ![w] =
                      IF doc[p].kind = "null" /\ worker[w].err
                      THEN Attempt(p, 0) ELSE Idle]
    /\ UNCHANGED <<doc, mode, alive, cancelled, fed, taken, jobsClosed,
                   resultsClosed, used>>

\* results <- pageResult{i, text, err}, which would block on a full channel.
Send(w) ==
    LET p == worker[w].page IN
    /\ worker[w].pc = "send"
    /\ Len(results) < ResultCapacity
    /\ results' = Append(results, [index |-> p,
                                   text |-> [of |-> p, len |-> worker[w].len],
                                   err |-> worker[w].err])
    /\ worker' = [worker EXCEPT ![w] = Idle]
    /\ UNCHANGED <<doc, mode, alive, cancelled, fed, taken, jobsClosed,
                   resultsClosed, used>>

\* The range over the closed and drained channel ends, and wg.Done runs.
WorkerExit(w) ==
    /\ worker[w].pc = "idle"
    /\ jobsClosed
    /\ taken = fed
    /\ worker' = [worker EXCEPT ![w].pc = "done"]
    /\ UNCHANGED <<doc, mode, alive, cancelled, fed, taken, jobsClosed,
                   results, resultsClosed, used>>

\* Mutant: the channel is closed as soon as the jobs are.
CloseResultsEarly ==
    /\ jobsClosed
    /\ ~resultsClosed
    /\ resultsClosed' = TRUE
    /\ UNCHANGED <<doc, mode, alive, cancelled, fed, taken, jobsClosed, worker,
                   results, used>>

\* The goroutine that waits for every worker and closes "results".
CloseResults ==
    /\ jobsClosed
    /\ AllDone
    /\ ~resultsClosed
    /\ resultsClosed' = TRUE
    /\ UNCHANGED <<doc, mode, alive, cancelled, fed, taken, jobsClosed, worker,
                   results, used>>

(* What the collectors of the two callers do to the pool. *)

\* The range over "results" receives the oldest result.
TakeResult ==
    /\ jobsClosed
    /\ results # << >>
    /\ results' = Tail(results)
    /\ UNCHANGED <<doc, mode, alive, cancelled, fed, taken, jobsClosed, worker,
                   resultsClosed, used>>

\* Reader.ResetAllocator: the count of allocated bytes starts again.
ResetAllocator ==
    /\ used' = 0
    /\ UNCHANGED <<doc, mode, alive, cancelled, fed, taken, jobsClosed, worker,
                   results, resultsClosed>>

\* pageBuffer[p] = t
Put(buffer, p, t) ==
    [q \in DOMAIN buffer \cup {p} |-> IF q = p THEN t ELSE buffer[q]]

-----------------------------------------------------------------------------
WorkerStep(w) ==
    \/ TakeJob(w)
    \/ AllocArgs(w)
    \/ Decode(w)
    \/ PageEnd(w)
    \/ Send(w)
    \/ WorkerExit(w)

Feeder == Feed \/ FeedEnd

PoolNext ==
    \/ Cancel
    \/ Feeder
    \/ CloseResults
    \/ \E w \in Workers : WorkerStep(w)

-----------------------------------------------------------------------------
\* The types of the channels, the workers and the allocator's count, which the
\* check of BoundedAllocSlice keeps below its limit.
PoolTypeOK ==
    /\ doc \in Docs
    /\ mode \in Modes
    /\ alive \in BOOLEAN
    /\ cancelled \in BOOLEAN
    /\ fed \in 0 .. Total
    /\ taken \in 0 .. fed
    /\ jobsClosed \in BOOLEAN
    /\ worker \in [Workers -> WorkerState]
    /\ results \in Seq(PageResult)
    /\ resultsClosed \in BOOLEAN
    /\ used \in 0 .. MemLimit

(* The inductive invariant of the pool. *)

\* A busy worker holds a page that was taken from "jobs", and what it is about to
\* send is that page's text or nothing.
WorkersOK ==
    \A w \in Workers :
        /\ w \in Busy => worker[w].page \in 1 .. taken
        /\ worker[w].pc = "decode" => worker[w].ops > 0
        /\ worker[w].pc = "send" => worker[w].len \in {0, doc[worker[w].page].len}

\* Each element of "results" is the text of its page, or empty.
ResultsOK ==
    \A i \in DOMAIN results :
        /\ results[i].text.of = results[i].index
        /\ results[i].text.len \in {0, doc[results[i].index].len}

\* The pages in flight are not more than the pages taken, which is why a channel
\* of capacity "total" never fills up.
InFlightOK == Len(results) + Cardinality(Busy) <= taken

\* The inductive invariant of the workers, the feeder and the closer.
PoolInv ==
    /\ PoolTypeOK
    /\ WorkersOK
    /\ ResultsOK
    /\ InFlightOK
-----------------------------------------------------------------------------
(* Where the pages taken are, and when the goroutines end. *)

\* The pages that the workers hold and those in "results".
Held == {worker[w].page : w \in Busy}

Queued == {results[i].index : i \in DOMAIN results}

InPool == Held \cup Queued

\* A page taken from "jobs" is with one worker or once in "results", never both.
OneHolder ==
    /\ \A v, w \in Busy : worker[v].page = worker[w].page => v = w
    /\ \A i, j \in DOMAIN results : results[i].index = results[j].index => i = j
    /\ Queued \subseteq 1 .. taken
    /\ Held \cap Queued = {}

\* The goroutines end one after the other: the feeder, each worker when the jobs
\* are drained, the closer.  A closed "results" means that no page crashed.
ClosingOK ==
    /\ \A w \in Workers : worker[w].pc = "done" => jobsClosed /\ taken = fed
    /\ jobsClosed /\ ~cancelled => fed = Total
    /\ resultsClosed => AllDone /\ jobsClosed /\ alive

\* In strict mode what a worker sends without an error is the text of a sound
\* page, whatever was retried.
StrictPoolOK ==
    mode = "strict" =>
        /\ \A w \in Workers :
              /\ worker[w].pc \in {"args", "decode"} =>
                    doc[worker[w].page].kind \in {"text", "bad"}
              /\ worker[w].pc = "send" /\ ~worker[w].err =>
                    doc[worker[w].page].kind = "text"
        /\ \A i \in DOMAIN results :
              ~results[i].err => doc[results[i].index].kind = "text"
=============================================================================
