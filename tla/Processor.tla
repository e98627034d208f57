------------------------------ MODULE Processor ------------------------------
(***************************************************************************)
(* The calls that share one Processor: how Extract and ExtractAsStream     *)
(* take and give back a slot of the semaphore on every path, what each     *)
(* call holds (parsed data in its document's allocator, goroutines that    *)
(* run), and Metadata, which takes no slot.                                *)
(*                                                                         *)
(* What happens inside an extraction is in Extract and ExtractAsStream;    *)
(* here its workers and its streamer are a flag each.  The semaphore is    *)
(* golang.org/x/sync/semaphore.Weighted with weights of one: first come    *)
(* first served, and a release hands the slot to the oldest waiter.        *)
(***************************************************************************)
EXTENDS Integers, Sequences, FiniteSets, SequencesExt

CONSTANTS
    Extracts,          \* calls of Extract
    Streams,           \* calls of ExtractAsStream
    Metadatas,         \* calls of Metadata
    MaxConcurrentPDFs  \* Config.MaxConcurrentPDFs

Calls == Extracts \cup Streams \cup Metadatas

ASSUME ProcessorAssumption ==
    /\ IsFiniteSet(Calls)
    /\ Extracts \cap Streams = {}
    /\ Extracts \cap Metadatas = {}
    /\ Streams \cap Metadatas = {}
    /\ MaxConcurrentPDFs \in Nat \ {0}

VARIABLES
    pc,        \* where each call is
    ctxDone,   \* calls whose context is done
    cur,       \* semaphore: slots in use
    waiters,   \* semaphore: calls waiting, the oldest first
    memory,    \* calls whose allocator holds parsed data
    working,   \* calls whose workers are running
    streaming  \* calls whose streamer is running

vars == <<pc, ctxDone, cur, waiters, memory, working, streaming>>

Goto(c, label) == pc' = [pc EXCEPT ![c] = label]

Init ==
    /\ pc = [c \in Calls |-> "idle"]
    /\ ctxDone = {}
    /\ cur = 0
    /\ waiters = << >>
    /\ memory = {}
    /\ working = {}
    /\ streaming = {}

Cancel(c) ==
    /\ c \notin ctxDone
    /\ ctxDone' = ctxDone \cup {c}
    /\ UNCHANGED <<pc, cur, waiters, memory, working, streaming>>

-----------------------------------------------------------------------------
(* semaphore.Weighted *)

\* A release and the move of the releasing call to label.
ReleaseAndGoto(c, label) ==
    IF waiters = << >>
    THEN /\ cur' = cur - 1
         /\ Goto(c, label)
         /\ UNCHANGED waiters
    ELSE /\ waiters' = Tail(waiters)
         /\ pc' = [pc EXCEPT ![c] = label, ![Head(waiters)] = "handed"]
         /\ UNCHANGED cur

\* acquireSlot: an error, a slot at once, or the end of the queue.
AcquireSlot(c) ==
    /\ pc[c] = "idle"
    /\ c \notin Metadatas
    /\ \/ /\ c \in ctxDone
          /\ Goto(c, "failed")
          /\ UNCHANGED <<cur, waiters>>
       \/ /\ c \notin ctxDone
          /\ cur < MaxConcurrentPDFs
          /\ waiters = << >>
          /\ cur' = cur + 1
          /\ Goto(c, "acquired")
          /\ UNCHANGED waiters
       \/ /\ c \notin ctxDone
          /\ cur >= MaxConcurrentPDFs \/ waiters # << >>
          /\ waiters' = Append(waiters, c)
          /\ Goto(c, "waiting")
          /\ UNCHANGED cur
    /\ UNCHANGED <<ctxDone, memory, working, streaming>>

\* A waiting call sees its context done and leaves the queue.
GiveUp(c) ==
    /\ pc[c] = "waiting"
    /\ c \in ctxDone
    /\ \E i \in DOMAIN waiters :
          /\ waiters[i] = c
          /\ waiters' = RemoveAt(waiters, i)
    /\ Goto(c, "failed")
    /\ UNCHANGED <<ctxDone, cur, memory, working, streaming>>

\* A call that was handed a slot gives it back if its context is done by then.
Wake(c) ==
    /\ pc[c] = "handed"
    /\ \/ /\ c \in ctxDone
          /\ ReleaseAndGoto(c, "failed")
       \/ /\ c \notin ctxDone
          /\ Goto(c, "acquired")
          /\ UNCHANGED <<cur, waiters>>
    /\ UNCHANGED <<ctxDone, memory, working, streaming>>

-----------------------------------------------------------------------------
(* Extract and ExtractAsStream *)

\* Mutant: the error path returns without the release.
OpenFailsHolding(c) ==
    /\ pc[c] = "acquired"
    /\ Goto(c, "failed")
    /\ UNCHANGED <<ctxDone, cur, waiters, memory, working, streaming>>

\* OpenWithMemoryLimit fails and has closed the file, and the deferred release
\* runs, ...
OpenFails(c) ==
    /\ pc[c] = "acquired"
    /\ ReleaseAndGoto(c, "failed")
    /\ UNCHANGED <<ctxDone, memory, working, streaming>>

\* ... or it succeeds; a document has no pages, or workers are started for it.
Open(c) ==
    /\ pc[c] = "acquired"
    /\ memory' = memory \cup {c}
    /\ \/ Goto(c, "reset") /\ UNCHANGED working
       \/ Goto(c, "running") /\ working' = working \cup {c}
    /\ UNCHANGED <<ctxDone, cur, waiters, streaming>>

\* The workers of a call stop.  When the call is over and none of its goroutines
\* runs, nobody refers to its Reader any more and the garbage collector frees it.
WorkersExit(c) ==
    /\ c \in working
    /\ working' = working \ {c}
    /\ memory' = IF pc[c] = "returned" /\ c \notin streaming
                 THEN memory \ {c} ELSE memory
    /\ UNCHANGED <<pc, ctxDone, cur, waiters, streaming>>

\* The workers allocate, also after an early return has reset the allocator.
WorkerAllocates(c) ==
    /\ c \in working
    /\ memory' = memory \cup {c}
    /\ UNCHANGED <<pc, ctxDone, cur, waiters, working, streaming>>

\* emitInOrder returns: at the end of results, or early while workers run.
Collected(c) ==
    /\ c \in Extracts
    /\ pc[c] = "running"
    /\ Goto(c, "reset")
    /\ UNCHANGED <<ctxDone, cur, waiters, memory, working, streaming>>

\* The deferred calls: ResetAllocator, then Release.  An empty document of a
\* stream takes the same two steps.
ResetAllocator(c) ==
    /\ pc[c] = "reset"
    /\ memory' = memory \ {c}
    /\ Goto(c, "release")
    /\ UNCHANGED <<ctxDone, cur, waiters, working, streaming>>

Release(c) ==
    /\ pc[c] = "release"
    /\ ReleaseAndGoto(c, "returned")
    /\ memory' = IF c \in working \cup streaming THEN memory ELSE memory \ {c}
    /\ UNCHANGED <<ctxDone, working, streaming>>

\* ExtractAsStream starts the streamer and returns, which releases the slot.
StreamReturns(c) ==
    /\ c \in Streams
    /\ pc[c] = "running"
    /\ streaming' = streaming \cup {c}
    /\ Goto(c, "release")
    /\ UNCHANGED <<ctxDone, cur, waiters, memory, working>>

\* The streamer ends, at the end of results or early, and resets the allocator.
StreamEnds(c) ==
    /\ c \in streaming
    /\ streaming' = streaming \ {c}
    /\ memory' = memory \ {c}
    /\ UNCHANGED <<pc, ctxDone, cur, waiters, working>>

-----------------------------------------------------------------------------
(* Metadata *)

MetadataOpen(c) ==
    /\ c \in Metadatas
    /\ pc[c] = "idle"
    /\ \/ Goto(c, "failed") /\ UNCHANGED memory
       \/ /\ Goto(c, "metadata")
          /\ memory' = memory \cup {c}
    /\ UNCHANGED <<ctxDone, cur, waiters, working, streaming>>

\* The deferred calls: Close, then ResetAllocator.
MetadataReturns(c) ==
    /\ pc[c] = "metadata"
    /\ Goto(c, "returned")
    /\ memory' = memory \ {c}
    /\ UNCHANGED <<ctxDone, cur, waiters, working, streaming>>

-----------------------------------------------------------------------------
CallStep(c) ==
    \/ AcquireSlot(c)
    \/ GiveUp(c)
    \/ Wake(c)
    \/ OpenFails(c)
    \/ Open(c)
    \/ Collected(c)
    \/ ResetAllocator(c)
    \/ Release(c)
    \/ StreamReturns(c)
    \/ MetadataOpen(c)
    \/ MetadataReturns(c)

Next ==
    \E c \in Calls :
        \/ Cancel(c)
        \/ CallStep(c)
        \/ WorkersExit(c)
        \/ WorkerAllocates(c)
        \/ StreamEnds(c)

(***************************************************************************)
(* Runnable goroutines run and extractions end (Extract shows when they    *)
(* do).  Nothing forces a context to be cancelled or a consumer to read a  *)
(* stream to its end.                                                      *)
(***************************************************************************)
Fairness ==
    \A c \in Calls : WF_vars(CallStep(c)) /\ WF_vars(WorkersExit(c))

Spec == Init /\ [][Next]_vars

FairSpec == Spec /\ Fairness

-----------------------------------------------------------------------------
Holders ==
    {c \in Calls : pc[c] \in {"handed", "acquired", "running", "reset",
                              "release"}}

Labels == {"idle", "waiting", "handed", "acquired", "running", "reset", "release",
           "metadata", "returned", "failed"}

\* The types of the calls' states and of the semaphore's.
TypeOK ==
    /\ pc \in [Calls -> Labels]
    /\ ctxDone \subseteq Calls
    /\ cur \in Nat
    /\ waiters \in Seq(Calls)
    /\ memory \subseteq Calls
    /\ working \subseteq Calls
    /\ streaming \subseteq Calls

\* Every slot in use belongs to one call that is between its acquire and its
\* release, and there are never more than were asked for: no path returns without
\* releasing or releases twice (acquireSlot and the deferred Release).  No call
\* waits while a slot is free.  Parsed data of a call without a slot is that of a
\* Metadata call, of a stream that is read, or of workers that the call has left
\* behind (ResetAllocator, Reader).
SlotsAccounted ==
    /\ cur = Cardinality(Holders)
    /\ cur <= MaxConcurrentPDFs
    /\ waiters # << >> => cur = MaxConcurrentPDFs
    /\ \A c \in memory \ Holders : c \in working \cup streaming \/ pc[c] = "metadata"

\* The calls that wait are those in the queue, each once.
QueueOK ==
    /\ \A i \in DOMAIN waiters : pc[waiters[i]] = "waiting"
    /\ \A i, j \in DOMAIN waiters : waiters[i] = waiters[j] => i = j
    /\ \A c \in Calls : pc[c] = "waiting" => \E i \in DOMAIN waiters : waiters[i] = c

\* A call that has not opened its document holds no memory and runs nothing.
UnopenedOK ==
    \A c \in Calls :
        pc[c] \in {"idle", "waiting", "handed", "acquired", "failed"} =>
            c \notin memory \cup working \cup streaming

\* The inductive invariant of the calls and the semaphore.
Inv ==
    /\ TypeOK
    /\ QueueOK
    /\ UnopenedOK
    /\ SlotsAccounted

\* Every call that starts ends, whatever the others and their consumers do.
EveryCallEnds ==
    \A c \in Calls : <>(pc[c] \in {"returned", "failed"})
=============================================================================
