-------------------------- MODULE WorkerPoolProofs --------------------------
(***************************************************************************)
(* PoolInv holds initially and is preserved by every step of the pool and  *)
(* by what the collectors do to the pool.  Extract and ExtractAsStream use *)
(* these lemmas for their own invariants.                                  *)
(***************************************************************************)
EXTENDS WorkerPool, FiniteSetTheorems, TLAPS

\* Every page of the document has a fate.
LEMMA DocFate ==
    ASSUME PoolTypeOK
    PROVE  doc \in [Pages -> Fate]
BY PoolAssumption DEF PoolTypeOK

\* A set of workers is finite, so its cardinality is a number.
LEMMA BusyFinite == IsFiniteSet(Busy) /\ Cardinality(Busy) \in Nat
<1>1. IsFiniteSet(Busy)
  BY PoolAssumption, FS_Subset DEF Busy
<1> QED
  BY <1>1, FS_CardinalityType

LEMMA PoolInitInv == PoolInit => PoolInv
<1> SUFFICES ASSUME PoolInit PROVE PoolInv
  OBVIOUS
<1>1. Busy = {}
  BY DEF PoolInit, Busy, Idle
<1>2. PoolTypeOK
  <2>1. Idle \in WorkerState
    BY PoolAssumption DEF WorkerState, Idle
  <2>2. << >> \in Seq(PageResult)
    OBVIOUS
  <2>3. 0 \in 0 .. Total /\ 0 \in 0 .. 0 /\ 0 \in 0 .. MemLimit
    BY PoolAssumption
  <2> QED
    BY <2>1, <2>2, <2>3 DEF PoolInit, PoolTypeOK
<1>3. WorkersOK
  BY <1>1 DEF PoolInit, WorkersOK, Idle
<1>4. ResultsOK
  BY DEF PoolInit, ResultsOK
<1>5. InFlightOK
  BY <1>1, FS_EmptySet DEF PoolInit, InFlightOK
<1> QED
  BY <1>2, <1>3, <1>4, <1>5 DEF PoolInv

-----------------------------------------------------------------------------
(* The worker states that the actions assign. *)

\* A fresh attempt is a worker state that is busy.
LEMMA AttemptState ==
    ASSUME PoolTypeOK, NEW p \in Pages, NEW a \in 0 .. MaxRetries
    PROVE  /\ Attempt(p, a) \in WorkerState
           /\ Attempt(p, a).pc = "args"
           /\ Attempt(p, a).page = p
<1>1. doc[p] \in Fate
  BY DocFate
<1>2. doc[p].ops \in Nat
  BY <1>1 DEF Fate
<1> QED
  BY <1>2, PoolAssumption DEF Attempt, WorkerState, Pages

\* A finished page is a worker state that is busy.
LEMMA FinishedState ==
    ASSUME NEW p \in Pages, NEW a \in 0 .. MaxRetries, NEW n \in Nat,
           NEW e \in BOOLEAN
    PROVE  /\ Finished(p, a, n, e) \in WorkerState
           /\ Finished(p, a, n, e).pc = "send"
           /\ Finished(p, a, n, e).page = p
           /\ Finished(p, a, n, e).len = n
BY PoolAssumption DEF Finished, WorkerState, Pages

\* After a failed attempt the worker still holds the page, with no text.
LEMMA AfterFailureState ==
    ASSUME PoolTypeOK, NEW p \in Pages, NEW a \in 0 .. MaxRetries
    PROVE  /\ AfterFailure(p, a) \in WorkerState
           /\ AfterFailure(p, a).pc \in {"args", "send"}
           /\ AfterFailure(p, a).page = p
           /\ AfterFailure(p, a).pc = "send" => AfterFailure(p, a).len = 0
<1>1. CASE mode = "best-effort"
  <2>1. AfterFailure(p, a) = Finished(p, a, 0, FALSE)
    BY <1>1 DEF AfterFailure
  <2> QED
    BY <2>1, PoolAssumption DEF Finished, WorkerState, Pages
<1>2. CASE mode # "best-effort" /\ a < MaxRetries
  <2>1. a + 1 \in 0 .. MaxRetries
    BY <1>2, PoolAssumption
  <2> QED
    BY <1>2, <2>1, AttemptState DEF AfterFailure
<1>3. CASE mode # "best-effort" /\ ~(a < MaxRetries)
  <2>1. AfterFailure(p, a) = Finished(p, a, 0, TRUE)
    BY <1>3 DEF AfterFailure
  <2> QED
    BY <2>1, PoolAssumption DEF Finished, WorkerState, Pages
<1> QED
  BY <1>1, <1>2, <1>3

-----------------------------------------------------------------------------
(* Steps that leave the workers and the results alone. *)

LEMMA CancelInv == PoolInv /\ Cancel => PoolInv'
<1> SUFFICES ASSUME PoolInv, Cancel PROVE PoolInv'
  OBVIOUS
<1>1. Busy' = Busy
  BY DEF Cancel, Busy
<1> QED
  BY <1>1 DEF Cancel, PoolInv, PoolTypeOK, WorkersOK, ResultsOK, InFlightOK

LEMMA FeederInv == PoolInv /\ Feeder => PoolInv'
<1> SUFFICES ASSUME PoolInv, Feeder PROVE PoolInv'
  OBVIOUS
<1>1. Busy' = Busy
  BY DEF Feeder, Feed, FeedEnd, Busy
<1>2. fed' \in 0 .. Total /\ taken' \in 0 .. fed' /\ jobsClosed' \in BOOLEAN
  <2>1. CASE Feed
    BY <2>1, PoolAssumption DEF Feed, PoolInv, PoolTypeOK
  <2>2. CASE FeedEnd
    BY <2>2 DEF FeedEnd, PoolInv, PoolTypeOK
  <2> QED
    BY <2>1, <2>2 DEF Feeder
<1>3. UNCHANGED <<doc, mode, alive, cancelled, taken, worker, results,
                  resultsClosed, used>>
  BY DEF Feeder, Feed, FeedEnd
<1>4. PoolTypeOK'
  BY <1>2, <1>3 DEF PoolInv, PoolTypeOK
<1>5. WorkersOK'
  BY <1>1, <1>3 DEF PoolInv, WorkersOK
<1>6. ResultsOK'
  BY <1>3 DEF PoolInv, ResultsOK
<1>7. InFlightOK'
  BY <1>1, <1>3 DEF PoolInv, InFlightOK
<1> QED
  BY <1>4, <1>5, <1>6, <1>7 DEF PoolInv

LEMMA CloseResultsInv == PoolInv /\ CloseResults => PoolInv'
<1> SUFFICES ASSUME PoolInv, CloseResults PROVE PoolInv'
  OBVIOUS
<1>1. Busy' = Busy
  BY DEF CloseResults, Busy
<1> QED
  BY <1>1 DEF CloseResults, PoolInv, PoolTypeOK, WorkersOK, ResultsOK,
              InFlightOK

\* The collectors reset the allocator ...
LEMMA ResetAllocatorInv == PoolInv /\ ResetAllocator => PoolInv'
<1> SUFFICES ASSUME PoolInv, ResetAllocator PROVE PoolInv'
  OBVIOUS
<1>1. Busy' = Busy
  BY DEF ResetAllocator, Busy
<1> QED
  BY <1>1, PoolAssumption DEF ResetAllocator, PoolInv, PoolTypeOK, WorkersOK,
              ResultsOK, InFlightOK

\* ... and receive results.
LEMMA TakeResultInv == PoolInv /\ TakeResult => PoolInv'
<1> SUFFICES ASSUME PoolInv, TakeResult PROVE PoolInv'
  OBVIOUS
<1>1. Busy' = Busy
  BY DEF TakeResult, Busy
<1>2. /\ results' \in Seq(PageResult)
      /\ Len(results') = Len(results) - 1
      /\ \A i \in DOMAIN results' : /\ i + 1 \in DOMAIN results
                                    /\ results'[i] = results[i + 1]
  BY DEF TakeResult, PoolInv, PoolTypeOK
<1>3. PoolTypeOK' /\ WorkersOK'
  BY <1>1, <1>2 DEF TakeResult, PoolInv, PoolTypeOK, WorkersOK
<1>4. ResultsOK'
  BY <1>2 DEF TakeResult, PoolInv, ResultsOK
<1>5. InFlightOK'
  BY <1>1, <1>2, BusyFinite DEF TakeResult, PoolInv, PoolTypeOK, InFlightOK
<1> QED
  BY <1>3, <1>4, <1>5 DEF PoolInv

-----------------------------------------------------------------------------
(* Steps of one worker. *)

\* How the set of busy workers follows the state of one of them.
LEMMA BusyChange ==
    ASSUME PoolTypeOK, NEW w \in Workers, NEW s,
           worker' = [worker EXCEPT ![w] = s]
    PROVE  Busy' = IF s.pc \in {"args", "decode", "send"}
                   THEN Busy \cup {w} ELSE Busy \ {w}
BY DEF PoolTypeOK, Busy

\* A step in which a busy worker goes on with its page.
LEMMA WorkerKeepsPage ==
    ASSUME PoolInv, NEW w \in Busy, NEW s \in WorkerState,
           s.pc \in {"args", "decode", "send"},
           s.page = worker[w].page,
           s.pc = "decode" => s.ops > 0,
           s.pc = "send" => s.len \in {0, doc[s.page].len},
           worker' = [worker EXCEPT ![w] = s],
           used' \in 0 .. MemLimit,
           UNCHANGED <<doc, mode, alive, cancelled, fed, taken, jobsClosed, results,
                       resultsClosed>>
    PROVE  PoolInv'
<1>1. w \in Workers
  BY DEF Busy
<1>2. Busy' = Busy
  <2>1. Busy' = Busy \cup {w}
    BY <1>1, BusyChange DEF PoolInv
  <2> QED
    BY <2>1
<1>3. PoolTypeOK'
  <2>1. worker' \in [Workers -> WorkerState]
    BY <1>1 DEF PoolInv, PoolTypeOK
  <2> QED
    BY <2>1 DEF PoolInv, PoolTypeOK
<1>4. WorkersOK'
  <2> SUFFICES ASSUME NEW v \in Workers
               PROVE  /\ v \in Busy => worker'[v].page \in 1 .. taken
                      /\ worker'[v].pc = "decode" => worker'[v].ops > 0
                      /\ worker'[v].pc = "send" =>
                            worker'[v].len \in {0, doc[worker'[v].page].len}
    BY <1>2 DEF WorkersOK
  <2>1. CASE v = w
    <3>1. worker'[v] = s
      BY <2>1, <1>1 DEF PoolInv, PoolTypeOK
    <3>2. s.page \in 1 .. taken
      BY <1>1 DEF PoolInv, WorkersOK
    <3> QED
      BY <3>1, <3>2
  <2>2. CASE v # w
    <3>1. worker'[v] = worker[v]
      BY <2>2 DEF PoolInv, PoolTypeOK
    <3> QED
      BY <3>1 DEF PoolInv, WorkersOK
  <2> QED
    BY <2>1, <2>2
<1>5. ResultsOK' /\ InFlightOK'
  BY <1>2 DEF PoolInv, ResultsOK, InFlightOK
<1> QED
  BY <1>3, <1>4, <1>5 DEF PoolInv

LEMMA AllocArgsInv ==
    ASSUME PoolInv, NEW w \in Workers, AllocArgs(w)
    PROVE  PoolInv'
<1> DEFINE p == worker[w].page
           a == worker[w].attempt
<1>1. w \in Busy /\ worker[w] \in WorkerState
  BY DEF AllocArgs, Busy, PoolInv, PoolTypeOK
<1>2. p \in Pages /\ a \in 0 .. MaxRetries
  BY <1>1 DEF PoolInv, PoolTypeOK, WorkersOK, WorkerState, Pages
<1>3. CASE used < MemLimit /\ used' = used + 1
           /\ worker' = [worker EXCEPT ![w].pc = "decode"]
  <2> DEFINE s == [worker[w] EXCEPT !.pc = "decode"]
  <2>1. /\ s \in WorkerState
        /\ s.pc = "decode"
        /\ s.page = p
        /\ s.ops > 0
    BY <1>1 DEF WorkerState, AllocArgs
  <2>2. worker' = [worker EXCEPT ![w] = s]
    BY <1>3
  <2>3. used' \in 0 .. MemLimit
    BY <1>3, PoolAssumption DEF PoolInv, PoolTypeOK
  <2>4. UNCHANGED <<doc, mode, alive, cancelled, fed, taken, jobsClosed, results,
                    resultsClosed>>
    BY DEF AllocArgs
  <2> HIDE DEF s
  <2> QED
    BY <1>1, <2>1, <2>2, <2>3, <2>4, WorkerKeepsPage
<1>4. CASE UNCHANGED used
           /\ worker' = [worker EXCEPT ![w] = AfterFailure(p, a)]
  <2>1. /\ AfterFailure(p, a) \in WorkerState
        /\ AfterFailure(p, a).pc \in {"args", "send"}
        /\ AfterFailure(p, a).page = p
        /\ AfterFailure(p, a).pc = "send" => AfterFailure(p, a).len = 0
    BY <1>2, AfterFailureState DEF PoolInv
  <2>2. used' \in 0 .. MemLimit
    BY <1>4 DEF PoolInv, PoolTypeOK
  <2>3. UNCHANGED <<doc, mode, alive, cancelled, fed, taken, jobsClosed, results,
                    resultsClosed>>
    BY DEF AllocArgs
  <2> QED
    BY <1>1, <1>4, <2>1, <2>2, <2>3, WorkerKeepsPage
<1> QED
  BY <1>3, <1>4 DEF AllocArgs

LEMMA DecodeInv ==
    ASSUME PoolInv, NEW w \in Workers, Decode(w)
    PROVE  PoolInv'
<1> DEFINE s == NextOperator(worker[w])
<1>1. w \in Busy /\ worker[w] \in WorkerState /\ worker[w].ops > 0
  BY DEF Decode, Busy, PoolInv, PoolTypeOK, WorkersOK
<1>2. s \in WorkerState /\ s.pc = "args" /\ s.page = worker[w].page
  <2>1. worker[w].ops \in Nat /\ worker[w].ops - 1 \in Nat
    BY <1>1 DEF WorkerState
  <2> DEFINE t == [worker[w] EXCEPT !.pc = "args"]
  <2>2. t \in WorkerState /\ t.pc = "args" /\ t.page = worker[w].page
    BY <1>1 DEF WorkerState
  <2>3. s = [t EXCEPT !.ops = worker[w].ops - 1]
    BY DEF NextOperator
  <2> HIDE DEF s, t
  <2> QED
    BY <2>1, <2>2, <2>3 DEF WorkerState
<1>3. worker' = [worker EXCEPT ![w] = s]
  BY DEF Decode
<1>4. used' \in 0 .. MemLimit
  <2>1. used \in 0 .. MemLimit
    BY DEF PoolInv, PoolTypeOK
  <2>2. CASE used + 2 <= MemLimit /\ used' = used + 2
    BY <2>1, <2>2, PoolAssumption
  <2>3. CASE used' = MemLimit
    BY <2>3, PoolAssumption
  <2> QED
    BY <2>2, <2>3 DEF Decode
<1>5. UNCHANGED <<doc, mode, alive, cancelled, fed, taken, jobsClosed, results,
                  resultsClosed>>
  BY DEF Decode
<1> HIDE DEF s
<1> QED
  BY <1>1, <1>2, <1>3, <1>4, <1>5, WorkerKeepsPage

LEMMA PageEndInv ==
    ASSUME PoolInv, NEW w \in Workers, PageEnd(w)
    PROVE  PoolInv'
<1> DEFINE p == worker[w].page
           a == worker[w].attempt
           s == IF doc[p].kind = "bad" THEN AfterFailure(p, a)
                ELSE Finished(p, a, doc[p].len, FALSE)
<1>1. w \in Busy /\ worker[w] \in WorkerState
  BY DEF PageEnd, Busy, PoolInv, PoolTypeOK
<1>2. p \in Pages /\ a \in 0 .. MaxRetries
  BY <1>1 DEF PoolInv, PoolTypeOK, WorkersOK, WorkerState, Pages
<1>3. doc[p].len \in Nat
  BY <1>2, DocFate DEF Fate, PoolInv
<1>4. /\ s \in WorkerState
      /\ s.pc \in {"args", "send"}
      /\ s.page = p
      /\ s.pc = "send" => s.len \in {0, doc[p].len}
  <2>1. CASE doc[p].kind = "bad"
    BY <2>1, <1>2, AfterFailureState DEF PoolInv
  <2>2. CASE doc[p].kind # "bad"
    BY <2>2, <1>2, <1>3 DEF Finished, WorkerState, Pages
  <2> QED
    BY <2>1, <2>2
<1>5. worker' = [worker EXCEPT ![w] = s]
  BY DEF PageEnd
<1>6. used' \in 0 .. MemLimit
  BY DEF PageEnd, PoolInv, PoolTypeOK
<1>7. UNCHANGED <<doc, mode, alive, cancelled, fed, taken, jobsClosed, results,
                  resultsClosed>>
  BY DEF PageEnd
<1> HIDE DEF s
<1> QED
  BY <1>1, <1>4, <1>5, <1>6, <1>7, WorkerKeepsPage

LEMMA TakeJobInv ==
    ASSUME PoolInv, NEW w \in Workers, TakeJob(w)
    PROVE  PoolInv'
<1> DEFINE p == taken + 1
<1>1. /\ p \in Pages
      /\ taken \in Nat
      /\ taken' = p
      /\ taken' \in 0 .. fed'
      /\ 0 \in 0 .. MaxRetries
  BY PoolAssumption DEF TakeJob, PoolInv, PoolTypeOK, Pages
<1>2. UNCHANGED <<doc, mode, cancelled, fed, jobsClosed, results, resultsClosed,
                  used>>
  BY DEF TakeJob
<1>3. alive' \in BOOLEAN
  BY DEF TakeJob, PoolInv, PoolTypeOK
<1>4. w \notin Busy
  BY DEF TakeJob, Busy
<1>5. CASE worker' = worker
  <2>1. Busy' = Busy
    BY <1>5 DEF Busy
  <2>2. PoolTypeOK'
    BY <1>1, <1>2, <1>3, <1>5 DEF PoolInv, PoolTypeOK
  <2>3. WorkersOK'
    BY <1>1, <1>2, <1>5, <2>1 DEF PoolInv, WorkersOK
  <2>4. ResultsOK'
    BY <1>2 DEF PoolInv, ResultsOK
  <2>5. InFlightOK'
    BY <1>1, <1>2, <2>1, BusyFinite DEF PoolInv, PoolTypeOK, InFlightOK
  <2> QED
    BY <2>2, <2>3, <2>4, <2>5 DEF PoolInv
<1>6. ASSUME NEW s \in WorkerState, s.pc \in {"args", "send"}, s.page = p,
             s.pc = "send" => s.len = 0,
             worker' = [worker EXCEPT ![w] = s]
      PROVE  PoolInv'
  <2>1. Busy' = Busy \cup {w}
    BY <1>6, BusyChange DEF PoolInv
  <2>2. PoolTypeOK'
    <3>1. worker' \in [Workers -> WorkerState]
      BY <1>6 DEF PoolInv, PoolTypeOK
    <3> QED
      BY <1>1, <1>2, <1>3, <3>1 DEF PoolInv, PoolTypeOK
  <2>3. WorkersOK'
    <3> SUFFICES ASSUME NEW v \in Workers
                 PROVE  /\ v \in Busy' => worker'[v].page \in 1 .. taken'
                        /\ worker'[v].pc = "decode" => worker'[v].ops > 0
                        /\ worker'[v].pc = "send" =>
                              worker'[v].len \in {0, doc'[worker'[v].page].len}
      BY DEF WorkersOK
    <3>1. CASE v = w
      <4>1. worker'[v] = s
        BY <1>6, <3>1 DEF PoolInv, PoolTypeOK
      <4> QED
        BY <1>1, <1>6, <4>1
    <3>2. CASE v # w
      <4>1. worker'[v] = worker[v] /\ (v \in Busy' <=> v \in Busy)
        BY <1>6, <2>1, <3>2 DEF PoolInv, PoolTypeOK
      <4> QED
        BY <1>1, <1>2, <4>1 DEF PoolInv, WorkersOK
    <3> QED
      BY <3>1, <3>2
  <2>4. ResultsOK'
    BY <1>2 DEF PoolInv, ResultsOK
  <2>5. InFlightOK'
    <3>1. Cardinality(Busy') = Cardinality(Busy) + 1
      BY <2>1, <1>4, BusyFinite, FS_AddElement
    <3>2. Len(results) \in Nat
      BY DEF PoolInv, PoolTypeOK
    <3> QED
      BY <1>1, <1>2, <3>1, <3>2, BusyFinite DEF PoolInv, InFlightOK
  <2> QED
    BY <2>2, <2>3, <2>4, <2>5 DEF PoolInv
<1>7. CASE worker' = [worker EXCEPT ![w] = Finished(p, 0, 0, TRUE)]
  <2>1. /\ Finished(p, 0, 0, TRUE) \in WorkerState
        /\ Finished(p, 0, 0, TRUE).pc = "send"
        /\ Finished(p, 0, 0, TRUE).page = p
        /\ Finished(p, 0, 0, TRUE).len = 0
    BY <1>1 DEF Finished, WorkerState, Pages
  <2> QED
    BY <1>6, <1>7, <2>1
<1>8. CASE worker' = [worker EXCEPT ![w] = Attempt(p, 0)]
  <2>1. /\ Attempt(p, 0) \in WorkerState
        /\ Attempt(p, 0).pc = "args"
        /\ Attempt(p, 0).page = p
    BY <1>1, AttemptState DEF PoolInv
  <2> QED
    BY <1>6, <1>8, <2>1
<1> QED
  BY <1>5, <1>7, <1>8 DEF TakeJob

\* A worker leaves the set of busy workers when it sends its result, ...
LEMMA SendInv ==
    ASSUME PoolInv, NEW w \in Workers, Send(w)
    PROVE  PoolInv'
<1> DEFINE p == worker[w].page
           r == [index |-> p, text |-> [of |-> p, len |-> worker[w].len],
                 err |-> worker[w].err]
<1>1. w \in Busy /\ worker[w] \in WorkerState
  BY DEF Send, Busy, PoolInv, PoolTypeOK
<1>2. /\ p \in Pages
      /\ worker[w].len \in Nat
      /\ worker[w].len \in {0, doc[p].len}
      /\ worker[w].err \in BOOLEAN
  <2>1. p \in 1 .. taken /\ worker[w].len \in {0, doc[p].len}
    BY <1>1 DEF Send, PoolInv, WorkersOK
  <2>2. worker[w].len \in Nat /\ worker[w].err \in BOOLEAN
    BY <1>1 DEF WorkerState
  <2>3. p \in Pages
    <3>1. taken \in 0 .. fed /\ fed \in 0 .. Total
      BY DEF PoolInv, PoolTypeOK
    <3> QED
      BY <2>1, <3>1, PoolAssumption DEF Pages
  <2> QED
    BY <2>1, <2>2, <2>3
<1>3. /\ results' = Append(results, r)
      /\ worker' = [worker EXCEPT ![w] = Idle]
      /\ UNCHANGED <<doc, mode, alive, cancelled, fed, taken, jobsClosed,
                     resultsClosed, used>>
  BY DEF Send
<1>4. r \in PageResult
  BY <1>2 DEF PageResult, Text
<1>5. /\ results' \in Seq(PageResult)
      /\ Len(results) \in Nat
      /\ Len(results') = Len(results) + 1
      /\ \A i \in DOMAIN results' :
            results'[i] = IF i \in DOMAIN results THEN results[i] ELSE r
  BY <1>3, <1>4 DEF PoolInv, PoolTypeOK
<1>6. Idle \in WorkerState /\ Idle.pc = "idle"
  BY PoolAssumption DEF Idle, WorkerState
<1>7. Busy' = Busy \ {w}
  BY <1>3, <1>6, BusyChange DEF PoolInv
<1>8. PoolTypeOK'
  <2>1. worker' \in [Workers -> WorkerState]
    BY <1>3, <1>6 DEF PoolInv, PoolTypeOK
  <2> QED
    BY <1>3, <1>5, <2>1 DEF PoolInv, PoolTypeOK
<1>9. WorkersOK'
  <2> SUFFICES ASSUME NEW v \in Workers
               PROVE  /\ v \in Busy' => worker'[v].page \in 1 .. taken'
                      /\ worker'[v].pc = "decode" => worker'[v].ops > 0
                      /\ worker'[v].pc = "send" =>
                            worker'[v].len \in {0, doc'[worker'[v].page].len}
    BY DEF WorkersOK
  <2>1. CASE v = w
    BY <2>1, <1>3, <1>6, <1>7 DEF PoolInv, PoolTypeOK
  <2>2. CASE v # w
    <3>1. worker'[v] = worker[v]
      BY <1>3, <2>2 DEF PoolInv, PoolTypeOK
    <3> QED
      BY <1>3, <1>7, <3>1 DEF PoolInv, WorkersOK
  <2> QED
    BY <2>1, <2>2
<1>10. ResultsOK'
  <2> SUFFICES ASSUME NEW i \in DOMAIN results'
               PROVE  /\ results'[i].text.of = results'[i].index
                      /\ results'[i].text.len \in
                            {0, doc'[results'[i].index].len}
    BY DEF ResultsOK
  <2>1. CASE i \in DOMAIN results
    BY <2>1, <1>3, <1>5 DEF PoolInv, ResultsOK
  <2>2. CASE i \notin DOMAIN results
    <3>1. results'[i] = r
      BY <2>2, <1>5
    <3> QED
      BY <3>1, <1>2, <1>3
  <2> QED
    BY <2>1, <2>2
<1>11. InFlightOK'
  <2>1. Cardinality(Busy') = Cardinality(Busy) - 1
    BY <1>1, <1>7, BusyFinite, FS_RemoveElement
  <2> QED
    BY <1>3, <1>5, <2>1, BusyFinite DEF PoolInv, PoolTypeOK, InFlightOK
<1> QED
  BY <1>8, <1>9, <1>10, <1>11 DEF PoolInv

\* ... and was not in it when it exits.
LEMMA WorkerExitInv ==
    ASSUME PoolInv, NEW w \in Workers, WorkerExit(w)
    PROVE  PoolInv'
<1> DEFINE s == [worker[w] EXCEPT !.pc = "done"]
<1>1. s \in WorkerState /\ s.pc = "done" /\ w \notin Busy
  BY DEF WorkerExit, Busy, PoolInv, PoolTypeOK, WorkerState
<1>2. worker' = [worker EXCEPT ![w] = s]
  BY DEF WorkerExit
<1>3. UNCHANGED <<doc, mode, alive, cancelled, fed, taken, jobsClosed, results,
                  resultsClosed, used>>
  BY DEF WorkerExit
<1> HIDE DEF s
<1>4. Busy' = Busy
  <2>1. Busy' = Busy \ {w}
    BY <1>1, <1>2, BusyChange DEF PoolInv
  <2> QED
    BY <1>1, <2>1
<1>5. PoolTypeOK'
  <2>1. worker' \in [Workers -> WorkerState]
    BY <1>1, <1>2 DEF PoolInv, PoolTypeOK
  <2> QED
    BY <1>3, <2>1 DEF PoolInv, PoolTypeOK
<1>6. WorkersOK'
  <2>1. \A v \in Workers : worker'[v] = IF v = w THEN s ELSE worker[v]
    BY <1>2 DEF PoolInv, PoolTypeOK
  <2> QED
    BY <1>1, <1>3, <1>4, <2>1 DEF PoolInv, WorkersOK
<1>7. ResultsOK' /\ InFlightOK'
  BY <1>3, <1>4 DEF PoolInv, ResultsOK, InFlightOK
<1> QED
  BY <1>5, <1>6, <1>7 DEF PoolInv

-----------------------------------------------------------------------------
\* Every step of the pool preserves its invariant.
LEMMA PoolNextInv == PoolInv /\ PoolNext => PoolInv'
<1> SUFFICES ASSUME PoolInv, PoolNext PROVE PoolInv'
  OBVIOUS
<1>1. ASSUME NEW w \in Workers, WorkerStep(w) PROVE PoolInv'
  BY <1>1, TakeJobInv, AllocArgsInv, DecodeInv, PageEndInv, SendInv,
     WorkerExitInv DEF WorkerStep
<1> QED
  BY <1>1, CancelInv, FeederInv, CloseResultsInv DEF PoolNext

\* A worker that holds a page finds room in "results".
LEMMA RoomInResults == PoolInv /\ Busy # {} => Len(results) < ResultCapacity
<1> SUFFICES ASSUME PoolInv, Busy # {} PROVE Len(results) < ResultCapacity
  OBVIOUS
<1>1. Cardinality(Busy) # 0
  BY BusyFinite, FS_EmptySet
<1>2. Len(results) \in Nat /\ taken \in Nat /\ taken <= Total
  BY PoolAssumption DEF PoolInv, PoolTypeOK
<1> QED
  BY <1>1, <1>2, BusyFinite, PoolAssumption
     DEF PoolInv, InFlightOK, ResultCapacity
-----------------------------------------------------------------------------
(* Where the pages taken are. *)

\* A step of an attempt that is not the last keeps the page with its worker, and
\* in strict mode a bad page is never sent without its error.
LEMMA AttemptGoesOn ==
    ASSUME PoolInv, NEW w \in Workers,
           AllocArgs(w) \/ Decode(w) \/ PageEnd(w)
    PROVE  /\ worker[w].pc \in {"args", "decode"}
           /\ worker'[w].pc \in {"args", "decode", "send"}
           /\ worker'[w].page = worker[w].page
           /\ mode = "strict" /\ worker'[w].pc = "send" /\ ~worker'[w].err =>
                 doc[worker[w].page].kind # "bad"
           /\ \A v \in Workers : v # w => worker'[v] = worker[v]
           /\ UNCHANGED <<doc, mode, alive, cancelled, fed, taken, jobsClosed, results,
                          resultsClosed>>
<1> DEFINE p == worker[w].page
           a == worker[w].attempt
           f == AfterFailure(p, a)
<1>1. /\ f.page = p
      /\ f.pc \in {"args", "send"}
      /\ mode = "strict" /\ f.pc = "send" => f.err
  BY DEF AfterFailure, Finished, Attempt
<1>2. worker \in [Workers -> WorkerState] /\ worker[w] \in WorkerState
  BY DEF PoolInv, PoolTypeOK
<1>3. ASSUME NEW s, worker' = [worker EXCEPT ![w] = s]
      PROVE  worker'[w] = s /\ \A v \in Workers : v # w => worker'[v] = worker[v]
  BY <1>2, <1>3
<1> HIDE DEF f
<1>4. CASE AllocArgs(w)
  <2>1. CASE worker' = [worker EXCEPT ![w] = f]
    BY <1>1, <1>3, <1>4, <2>1 DEF AllocArgs
  <2>2. CASE worker' = [worker EXCEPT ![w].pc = "decode"]
    <3>1. worker' = [worker EXCEPT ![w] = [worker[w] EXCEPT !.pc = "decode"]]
      BY <2>2
    <3>2. /\ [worker[w] EXCEPT !.pc = "decode"].pc = "decode"
          /\ [worker[w] EXCEPT !.pc = "decode"].page = p
      BY <1>2 DEF WorkerState
    <3> QED
      BY <1>3, <1>4, <3>1, <3>2 DEF AllocArgs
  <2> QED
    BY <1>4, <2>1, <2>2 DEF AllocArgs, f
<1>5. CASE Decode(w)
  <2>1. /\ NextOperator(worker[w]).pc = "args"
        /\ NextOperator(worker[w]).page = p
    BY <1>2 DEF WorkerState, NextOperator
  <2> QED
    BY <1>3, <1>5, <2>1 DEF Decode
<1>6. CASE PageEnd(w)
  <2> DEFINE g == Finished(p, a, doc[p].len, FALSE)
             s == IF doc[p].kind = "bad" THEN f ELSE g
  <2>1. g.page = p /\ g.pc = "send"
    BY DEF Finished
  <2>2. worker' = [worker EXCEPT ![w] = s]
    BY <1>6 DEF PageEnd, f
  <2> HIDE DEF g
  <2>3. /\ s.page = p
        /\ s.pc \in {"args", "decode", "send"}
        /\ mode = "strict" /\ s.pc = "send" /\ ~s.err => doc[p].kind # "bad"
    BY <1>1, <2>1
  <2> HIDE DEF s
  <2> QED
    BY <1>3, <1>6, <2>2, <2>3 DEF PageEnd
<1> QED
  BY <1>4, <1>5, <1>6

\* Steps that move no page leave every page where it is.
LEMMA NoPageMoves ==
    ASSUME OneHolder, Busy' = Busy,
           \A v \in Busy : worker'[v].page = worker[v].page,
           UNCHANGED <<results, taken>>
    PROVE  OneHolder' /\ Held' = Held /\ Queued' = Queued
<1>1. Held' = Held /\ Queued' = Queued
  BY DEF Held, Queued
<1> QED
  BY <1>1 DEF OneHolder

\* A page taken from "jobs" goes to the worker that took it, unless it crashes.
LEMMA TakeJobMoves ==
    ASSUME PoolInv, OneHolder, NEW w \in Workers, TakeJob(w)
    PROVE  /\ OneHolder'
           /\ taken' = taken + 1
           /\ Queued' = Queued
           /\ \/ Held' = Held \cup {taken + 1}
              \/ Held' = Held /\ ~alive'
<1> DEFINE p == taken + 1
<1>1. /\ taken \in Nat
      /\ taken' = p
      /\ results' = results
      /\ w \notin Busy
      /\ p \in Pages
      /\ 0 \in 0 .. MaxRetries
  BY PoolAssumption DEF TakeJob, PoolInv, PoolTypeOK, Busy, Pages
<1>2. \A v \in Busy : worker[v].page \in 1 .. taken
  BY DEF PoolInv, WorkersOK, Busy
<1>3. Queued' = Queued /\ Queued \subseteq 1 .. taken /\ p \notin 1 .. taken
      /\ 1 .. taken \subseteq 1 .. p
  BY <1>1 DEF Queued, OneHolder
<1>4. CASE worker' = worker /\ alive' = FALSE
  <2>1. Busy' = Busy /\ Held' = Held
    BY <1>4 DEF Busy, Held
  <2>2. OneHolder'
    BY <1>1, <1>3, <1>4, <2>1 DEF OneHolder
  <2> QED
    BY <1>1, <1>3, <1>4, <2>1, <2>2
<1>5. ASSUME NEW s \in WorkerState, s.pc \in {"args", "send"}, s.page = p,
             worker' = [worker EXCEPT ![w] = s]
      PROVE  OneHolder' /\ Held' = Held \cup {p}
  <2>1. Busy' = Busy \cup {w}
    BY <1>5, BusyChange DEF PoolInv
  <2>2. worker'[w].page = p /\ \A v \in Busy : worker'[v].page = worker[v].page
    BY <1>1, <1>5 DEF PoolInv, PoolTypeOK, Busy
  <2>3. Held' = Held \cup {p}
    BY <2>1, <2>2 DEF Held
  <2>4. \A u, v \in Busy' : worker'[u].page = worker'[v].page => u = v
    <3> SUFFICES ASSUME NEW u \in Busy', NEW v \in Busy',
                        worker'[u].page = worker'[v].page
                 PROVE  u = v
      OBVIOUS
    <3>1. CASE u \in Busy /\ v \in Busy
      BY <2>2, <3>1 DEF OneHolder
    <3>2. CASE u = w \/ v = w
      BY <1>2, <1>3, <2>1, <2>2, <3>2
    <3> QED
      BY <2>1, <3>1, <3>2
  <2>5. Held' \cap Queued' = {}
    BY <1>3, <2>3 DEF OneHolder
  <2> QED
    BY <1>1, <1>3, <2>3, <2>4, <2>5 DEF OneHolder
<1>6. CASE worker' = [worker EXCEPT ![w] = Finished(p, 0, 0, TRUE)]
  <2>1. /\ Finished(p, 0, 0, TRUE) \in WorkerState
        /\ Finished(p, 0, 0, TRUE).pc = "send"
        /\ Finished(p, 0, 0, TRUE).page = p
    BY <1>1 DEF Finished, WorkerState, Pages
  <2>2. OneHolder' /\ Held' = Held \cup {p}
    BY <1>5, <1>6, <2>1
  <2> QED
    BY <1>1, <1>3, <2>2
<1>7. CASE worker' = [worker EXCEPT ![w] = Attempt(p, 0)]
  <2>1. /\ Attempt(p, 0) \in WorkerState
        /\ Attempt(p, 0).pc = "args"
        /\ Attempt(p, 0).page = p
    BY <1>1, AttemptState DEF PoolInv
  <2>2. OneHolder' /\ Held' = Held \cup {p}
    BY <1>5, <1>7, <2>1
  <2> QED
    BY <1>1, <1>3, <2>2
<1> QED
  BY <1>4, <1>6, <1>7 DEF TakeJob

\* A send moves the worker's page to "results".
LEMMA SendMoves ==
    ASSUME PoolInv, OneHolder, NEW w \in Workers, Send(w)
    PROVE  /\ OneHolder'
           /\ Held' \cup Queued' = Held \cup Queued
<1> DEFINE p == worker[w].page
           r == [index |-> p, text |-> [of |-> p, len |-> worker[w].len],
                 err |-> worker[w].err]
<1>1. w \in Busy /\ p \in 1 .. taken /\ p \in Held
  BY DEF Send, Busy, Held, PoolInv, WorkersOK
<1>2. results' = Append(results, r) /\ r.index = p /\ taken' = taken
  BY DEF Send
<1>3. r \in PageResult
  <2>1. worker[w] \in WorkerState
    BY DEF PoolInv, PoolTypeOK
  <2>2. p \in Pages
    BY <1>1, PoolAssumption DEF PoolInv, PoolTypeOK, Pages
  <2> QED
    BY <2>1, <2>2 DEF PageResult, Text, WorkerState
<1>4. Busy' = Busy \ {w}
  <2>1. worker' = [worker EXCEPT ![w] = Idle] /\ Idle.pc = "idle"
    BY DEF Send, Idle
  <2> QED
    BY <2>1, BusyChange DEF PoolInv
<1>5. \A v \in Busy' : worker'[v].page = worker[v].page
  BY <1>4 DEF Send, PoolInv, PoolTypeOK, Busy
<1> HIDE DEF r
<1>6. /\ Len(results) \in Nat
      /\ DOMAIN results = 1 .. Len(results)
      /\ DOMAIN results' = 1 .. Len(results) + 1
      /\ \A i \in DOMAIN results : results'[i] = results[i]
      /\ results'[Len(results) + 1].index = p
  BY <1>2, <1>3 DEF PoolInv, PoolTypeOK
<1>7. Held' = Held \ {p}
  BY <1>1, <1>4, <1>5 DEF Held, OneHolder
<1>8. Queued' = Queued \cup {p}
  <2>1. \A i \in DOMAIN results' : i \in DOMAIN results \/ i = Len(results) + 1
    BY <1>6
  <2>2. DOMAIN results \subseteq DOMAIN results'
        /\ Len(results) + 1 \in DOMAIN results'
    BY <1>6
  <2> QED
    BY <1>6, <2>1, <2>2 DEF Queued
<1>9. p \notin Queued
  BY <1>1 DEF OneHolder
<1>10. \A i, j \in DOMAIN results' :
          results'[i].index = results'[j].index => i = j
  <2> SUFFICES ASSUME NEW i \in DOMAIN results', NEW j \in DOMAIN results',
                      results'[i].index = results'[j].index
               PROVE  i = j
    OBVIOUS
  <2>1. \A k \in DOMAIN results : results'[k].index # p
    BY <1>6, <1>9 DEF Queued
  <2>2. \A k \in DOMAIN results' : k \in DOMAIN results \/ k = Len(results) + 1
    BY <1>6
  <2>3. CASE i \in DOMAIN results /\ j \in DOMAIN results
    BY <1>6, <2>3 DEF OneHolder
  <2> QED
    BY <1>6, <2>1, <2>2, <2>3
<1>11. \A u, v \in Busy' : worker'[u].page = worker'[v].page => u = v
  BY <1>4, <1>5 DEF OneHolder
<1>12. Queued' \subseteq 1 .. taken' /\ Held' \cap Queued' = {}
  BY <1>1, <1>2, <1>7, <1>8 DEF OneHolder
<1>13. OneHolder'
  BY <1>10, <1>11, <1>12 DEF OneHolder
<1> QED
  BY <1>1, <1>7, <1>8, <1>13

\* Every step of the pool keeps each page in one place; the pages in the pool
\* grow by the one that is taken, which a crash loses.
LEMMA PoolMoves ==
    ASSUME PoolInv, OneHolder, PoolNext
    PROVE  /\ OneHolder'
           /\ taken' \in {taken, taken + 1}
           /\ InPool' \subseteq InPool \cup (taken + 1 .. taken')
           /\ alive' => InPool \cup (taken + 1 .. taken') \subseteq InPool'
<1> DEFINE Goal == /\ OneHolder'
                   /\ taken' \in {taken, taken + 1}
                   /\ InPool' \subseteq InPool \cup (taken + 1 .. taken')
                   /\ alive' => InPool \cup (taken + 1 .. taken') \subseteq InPool'
<1>1. taken \in Nat /\ taken + 1 .. taken = {}
      /\ taken + 1 .. taken + 1 = {taken + 1}
  BY PoolAssumption DEF PoolInv, PoolTypeOK
<1>2. ASSUME Busy' = Busy, \A v \in Busy : worker'[v].page = worker[v].page,
             UNCHANGED <<results, taken>>
      PROVE  Goal
  <2>1. OneHolder' /\ Held' = Held /\ Queued' = Queued
    BY <1>2, NoPageMoves
  <2> QED
    BY <1>1, <1>2, <2>1 DEF InPool
<1>3. CASE Cancel \/ Feeder \/ CloseResults
  <2>1. UNCHANGED <<worker, results, taken>>
    BY <1>3 DEF Cancel, Feeder, Feed, FeedEnd, CloseResults
  <2> QED
    BY <1>2, <2>1 DEF Busy
<1>4. ASSUME NEW w \in Workers, WorkerStep(w) PROVE Goal
  <2>1. CASE TakeJob(w)
    <3>1. /\ OneHolder' /\ taken' = taken + 1 /\ Queued' = Queued
          /\ \/ Held' = Held \cup {taken + 1}
             \/ Held' = Held /\ ~alive'
      BY <2>1, TakeJobMoves
    <3> QED
      BY <1>1, <3>1 DEF InPool
  <2>2. CASE AllocArgs(w) \/ Decode(w) \/ PageEnd(w)
    <3>1. /\ worker[w].pc \in {"args", "decode"}
          /\ worker'[w].pc \in {"args", "decode", "send"}
          /\ worker'[w].page = worker[w].page
          /\ \A v \in Workers : v # w => worker'[v] = worker[v]
          /\ UNCHANGED <<results, taken>>
      BY <2>2, AttemptGoesOn
    <3>2. Busy' = Busy /\ \A v \in Busy : worker'[v].page = worker[v].page
      BY <3>1 DEF Busy
    <3> QED
      BY <1>2, <3>1, <3>2
  <2>3. CASE Send(w)
    <3>1. OneHolder' /\ Held' \cup Queued' = Held \cup Queued
      BY <2>3, SendMoves
    <3>2. taken' = taken
      BY <2>3 DEF Send
    <3> QED
      BY <1>1, <3>1, <3>2 DEF InPool
  <2>4. CASE WorkerExit(w)
    <3>1. /\ worker' = [worker EXCEPT ![w].pc = "done"]
          /\ worker[w].pc = "idle"
          /\ UNCHANGED <<results, taken>>
      BY <2>4 DEF WorkerExit
    <3>2. Busy' = Busy /\ \A v \in Busy : worker'[v].page = worker[v].page
      BY <3>1 DEF Busy, PoolInv, PoolTypeOK, WorkerState
    <3> QED
      BY <1>2, <3>1, <3>2
  <2> QED
    BY <1>4, <2>1, <2>2, <2>3, <2>4 DEF WorkerStep
<1> QED
  BY <1>3, <1>4 DEF PoolNext
\* The result that a collector receives was in "results" and nowhere else.
LEMMA TakeResultMoves ==
    ASSUME PoolInv, OneHolder, TakeResult
    PROVE  /\ OneHolder'
           /\ Head(results).index \in Queued
           /\ Head(results).index \notin Held
           /\ Held' = Held
           /\ Queued' = Queued \ {Head(results).index}
<1> DEFINE p == Head(results).index
<1>1. /\ results \in Seq(PageResult)
      /\ results # << >>
      /\ results' = Tail(results)
      /\ UNCHANGED <<taken, worker>>
  BY DEF TakeResult, PoolInv, PoolTypeOK
<1>2. /\ 1 \in DOMAIN results
      /\ p = results[1].index
      /\ \A i \in DOMAIN results' : /\ i \in Nat \ {0}
                                    /\ i + 1 \in DOMAIN results
                                    /\ results'[i] = results[i + 1]
      /\ \A i \in DOMAIN results : i = 1 \/ i - 1 \in DOMAIN results'
      /\ DOMAIN results \subseteq Nat
  BY <1>1
<1> HIDE DEF p
<1>3. Busy' = Busy /\ Held' = Held
  BY <1>1 DEF Busy, Held
<1>4. p \in Queued /\ p \notin Held
  BY <1>2 DEF Queued, OneHolder
<1>5. Queued' = Queued \ {p}
  <2>1. ASSUME NEW q \in Queued' PROVE q \in Queued /\ q # p
    <3>1. PICK i \in DOMAIN results' : q = results'[i].index
      BY DEF Queued
    <3>2. i + 1 \in DOMAIN results /\ q = results[i + 1].index /\ i + 1 # 1
      BY <1>2, <3>1
    <3> QED
      BY <1>2, <3>2 DEF Queued, OneHolder
  <2>2. ASSUME NEW q \in Queued, q # p PROVE q \in Queued'
    <3>1. PICK i \in DOMAIN results : q = results[i].index
      BY DEF Queued
    <3>2. i - 1 \in DOMAIN results' /\ (i - 1) + 1 = i
      BY <1>2, <2>2, <3>1
    <3>3. q = results'[i - 1].index
      BY <1>2, <3>1, <3>2
    <3> QED
      BY <3>2, <3>3 DEF Queued
  <2> QED
    BY <2>1, <2>2
<1>6. \A i, j \in DOMAIN results' :
         results'[i].index = results'[j].index => i = j
  <2> SUFFICES ASSUME NEW i \in DOMAIN results', NEW j \in DOMAIN results',
                      results'[i].index = results'[j].index
               PROVE  i = j
    OBVIOUS
  <2>1. /\ i + 1 \in DOMAIN results /\ j + 1 \in DOMAIN results
        /\ results[i + 1].index = results[j + 1].index
        /\ i \in Nat /\ j \in Nat
    BY <1>2
  <2>2. i + 1 = j + 1
    BY <2>1 DEF OneHolder
  <2> QED
    BY <2>1, <2>2
<1>7. \A u, v \in Busy' : worker'[u].page = worker'[v].page => u = v
  BY <1>1, <1>3 DEF OneHolder
<1>8. Queued' \subseteq 1 .. taken' /\ Held' \cap Queued' = {}
  BY <1>1, <1>3, <1>5 DEF OneHolder
<1>9. OneHolder'
  BY <1>6, <1>7, <1>8 DEF OneHolder
<1> QED
  BY <1>3, <1>4, <1>5, <1>9 DEF p

\* Resetting the allocator moves no page.
LEMMA ResetMoves ==
    ASSUME OneHolder, ResetAllocator
    PROVE  OneHolder' /\ InPool' = InPool
<1>1. UNCHANGED <<results, taken, worker>>
  BY DEF ResetAllocator
<1>2. Busy' = Busy
  BY <1>1 DEF Busy
<1> QED
  BY <1>1, <1>2, NoPageMoves DEF InPool

\* A page in the pool was taken from "jobs".
LEMMA InPoolTaken ==
    ASSUME PoolInv, OneHolder
    PROVE  InPool \subseteq 1 .. taken
BY DEF InPool, Held, OneHolder, PoolInv, WorkersOK, Busy

-----------------------------------------------------------------------------
(* In which order the goroutines end. *)

LEMMA ClosingInit == PoolInit => ClosingOK
BY PoolAssumption DEF PoolInit, ClosingOK, Idle

\* What the collectors do to the pool ends no goroutine.
LEMMA ClosingCollector ==
    ASSUME ClosingOK, TakeResult \/ ResetAllocator
    PROVE  ClosingOK'
BY DEF ClosingOK, TakeResult, ResetAllocator, AllDone

\* A worker that runs has not ended, so no goroutine behind it has.
LEMMA ClosingStep ==
    ASSUME PoolInv, ClosingOK, alive, PoolNext
    PROVE  ClosingOK'
<1>1. CASE Cancel \/ FeedEnd
  <2>1. CASE Cancel
    BY <2>1 DEF Cancel, ClosingOK, AllDone
  <2>2. CASE FeedEnd
    BY <2>2 DEF FeedEnd, ClosingOK, AllDone
  <2> QED
    BY <1>1, <2>1, <2>2
<1>2. CASE Feed
  BY <1>2 DEF Feed, ClosingOK, AllDone
<1>3. CASE CloseResults
  BY <1>3 DEF CloseResults, ClosingOK, AllDone
<1>4. ASSUME NEW w \in Workers, WorkerStep(w) PROVE ClosingOK'
  <2>1. /\ worker[w].pc # "done"
        /\ UNCHANGED <<fed, jobsClosed, cancelled, resultsClosed>>
    BY <1>4 DEF WorkerStep, TakeJob, AllocArgs, Decode, PageEnd, Send, WorkerExit
  <2>2. ~resultsClosed
    BY <2>1 DEF ClosingOK, AllDone
  <2>3. \A v \in Workers : worker'[v].pc = "done" => jobsClosed /\ taken' = fed
    <3>1. CASE TakeJob(w)
      <4>1. \A v \in Workers : worker[v].pc # "done"
        BY <3>1, PoolAssumption DEF TakeJob, ClosingOK, PoolInv, PoolTypeOK
      <4>2. worker'[w].pc # "done"
        <5>1. ASSUME NEW s, s.pc # "done", worker' = [worker EXCEPT ![w] = s]
              PROVE  worker'[w].pc # "done"
          BY <5>1 DEF PoolInv, PoolTypeOK
        <5>2. \/ worker' = worker
              \/ worker' = [worker EXCEPT ![w] = Finished(taken + 1, 0, 0, TRUE)]
              \/ worker' = [worker EXCEPT ![w] = Attempt(taken + 1, 0)]
          BY <3>1 DEF TakeJob
        <5>3. /\ Finished(taken + 1, 0, 0, TRUE).pc # "done"
              /\ Attempt(taken + 1, 0).pc # "done"
          BY DEF Finished, Attempt
        <5> QED
          BY <2>1, <5>1, <5>2, <5>3
      <4>3. \A v \in Workers : v # w => worker'[v] = worker[v]
        BY <3>1 DEF TakeJob, PoolInv, PoolTypeOK
      <4> QED
        BY <4>1, <4>2, <4>3
    <3>2. CASE AllocArgs(w) \/ Decode(w) \/ PageEnd(w)
      <4>1. /\ worker'[w].pc # "done"
            /\ \A v \in Workers : v # w => worker'[v] = worker[v]
            /\ taken' = taken
        BY <3>2, AttemptGoesOn
      <4> QED
        BY <4>1 DEF ClosingOK
    <3>3. CASE Send(w)
      <4>1. worker'[w].pc # "done"
        BY <3>3 DEF Send, Idle, PoolInv, PoolTypeOK
      <4>2. taken' = taken /\ \A v \in Workers : v # w => worker'[v] = worker[v]
        BY <3>3 DEF Send, PoolInv, PoolTypeOK
      <4> QED
        BY <4>1, <4>2 DEF ClosingOK
    <3>4. CASE WorkerExit(w)
      <4>1. /\ jobsClosed /\ taken = fed /\ taken' = taken
            /\ \A v \in Workers : v # w => worker'[v] = worker[v]
        BY <3>4 DEF WorkerExit, PoolInv, PoolTypeOK
      <4> QED
        BY <4>1 DEF ClosingOK
    <3> QED
      BY <1>4, <3>1, <3>2, <3>3, <3>4 DEF WorkerStep
  <2> QED
    BY <2>1, <2>2, <2>3 DEF ClosingOK
<1> QED
  BY <1>1, <1>2, <1>3, <1>4 DEF PoolNext, Feeder

\* When "results" is closed no worker is busy, and every page fed was taken.
LEMMA ClosedIsDrained ==
    ASSUME PoolInv, ClosingOK, resultsClosed
    PROVE  Busy = {} /\ Held = {} /\ taken = fed /\ alive
<1>1. \A w \in Workers : worker[w].pc = "done"
  BY DEF ClosingOK, AllDone
<1>2. Busy = {} /\ Held = {}
  BY <1>1 DEF Busy, Held
<1>3. PICK w \in Workers : TRUE
  BY PoolAssumption
<1> QED
  BY <1>1, <1>2, <1>3 DEF ClosingOK

-----------------------------------------------------------------------------
(* Strict mode. *)

\* The document and the parsing mode are never changed.
LEMMA PoolKeepsDoc ==
    ASSUME PoolNext
    PROVE  doc' = doc /\ mode' = mode
BY DEF PoolNext, Cancel, Feeder, Feed, FeedEnd, CloseResults, WorkerStep, TakeJob,
       AllocArgs, Decode, PageEnd, Send, WorkerExit

LEMMA StrictInit == PoolInit => StrictPoolOK
BY DEF PoolInit, StrictPoolOK, Idle

LEMMA StrictStep ==
    ASSUME PoolInv, StrictPoolOK, PoolNext
    PROVE  StrictPoolOK'
<1> SUFFICES ASSUME mode = "strict" PROVE StrictPoolOK'
  BY PoolKeepsDoc DEF StrictPoolOK
<1> DEFINE WorkerOK(w) ==
             /\ worker[w].pc \in {"args", "decode"} =>
                   doc[worker[w].page].kind \in {"text", "bad"}
             /\ worker[w].pc = "send" /\ ~worker[w].err =>
                   doc[worker[w].page].kind = "text"
           ResultOK(i) == ~results[i].err => doc[results[i].index].kind = "text"
<1>1. /\ \A w \in Workers : WorkerOK(w)
      /\ \A i \in DOMAIN results : ResultOK(i)
      /\ (\A w \in Workers : WorkerOK(w)') /\ (\A i \in DOMAIN results' : ResultOK(i)')
            => StrictPoolOK'
  BY DEF StrictPoolOK
<1>2. CASE Cancel \/ Feeder \/ CloseResults
  BY <1>1, <1>2 DEF Cancel, Feeder, Feed, FeedEnd, CloseResults
<1>3. ASSUME NEW w \in Workers, WorkerStep(w) PROVE StrictPoolOK'
  <2>1. doc' = doc
    BY <1>3 DEF WorkerStep, TakeJob, AllocArgs, Decode, PageEnd, Send, WorkerExit
  <2>2. CASE TakeJob(w)
    <3>1. \A v \in Workers : v # w => worker'[v] = worker[v]
      BY <2>2 DEF TakeJob, PoolInv, PoolTypeOK
    <3>2. WorkerOK(w)'
      BY <1>1, <2>1, <2>2
         DEF TakeJob, Finished, Attempt, PoolInv, PoolTypeOK
    <3> QED
      BY <1>1, <2>1, <2>2, <3>1, <3>2 DEF TakeJob
  <2>3. CASE AllocArgs(w) \/ Decode(w) \/ PageEnd(w)
    <3>1. /\ worker[w].pc \in {"args", "decode"}
          /\ worker'[w].page = worker[w].page
          /\ worker'[w].pc = "send" /\ ~worker'[w].err =>
                doc[worker[w].page].kind # "bad"
          /\ \A v \in Workers : v # w => worker'[v] = worker[v]
          /\ results' = results
      BY <2>3, AttemptGoesOn
    <3> QED
      BY <1>1, <2>1, <3>1
  <2>4. CASE Send(w)
    <3> DEFINE p == worker[w].page
               r == [index |-> p, text |-> [of |-> p, len |-> worker[w].len],
                     err |-> worker[w].err]
    <3>1. /\ results' = Append(results, r)
          /\ ~r.err => doc[r.index].kind = "text"
          /\ \A v \in Workers :
                worker'[v] = IF v = w THEN Idle ELSE worker[v]
      BY <1>1, <2>4 DEF Send, PoolInv, PoolTypeOK
    <3> HIDE DEF r
    <3>2. \A i \in DOMAIN results' :
             \/ i \in DOMAIN results /\ results'[i] = results[i]
             \/ results'[i] = r
      BY <3>1 DEF PoolInv, PoolTypeOK
    <3> QED
      BY <1>1, <2>1, <3>1, <3>2 DEF Idle
  <2>5. CASE WorkerExit(w)
    <3>1. \A v \in Workers : v # w => worker'[v] = worker[v]
      BY <2>5 DEF WorkerExit, PoolInv, PoolTypeOK
    <3>2. worker'[w].pc = "done" /\ results' = results
      BY <2>5 DEF WorkerExit, PoolInv, PoolTypeOK, WorkerState
    <3> QED
      BY <1>1, <2>1, <3>1, <3>2
  <2> QED
    BY <1>3, <2>2, <2>3, <2>4, <2>5 DEF WorkerStep
<1> QED
  BY <1>2, <1>3 DEF PoolNext

\* Receiving a result and resetting the allocator leave the rest as it was.
LEMMA StrictCollector ==
    ASSUME PoolInv, StrictPoolOK, TakeResult \/ ResetAllocator
    PROVE  StrictPoolOK'
<1>1. CASE TakeResult
  <2>1. \A i \in DOMAIN results' : /\ i + 1 \in DOMAIN results
                                   /\ results'[i] = results[i + 1]
    BY <1>1 DEF TakeResult, PoolInv, PoolTypeOK
  <2> QED
    BY <1>1, <2>1 DEF TakeResult, StrictPoolOK
<1>2. CASE ResetAllocator
  BY <1>2 DEF ResetAllocator, StrictPoolOK
<1> QED
  BY <1>1, <1>2
-----------------------------------------------------------------------------
(* What the callers of the pool use. *)

\* The result at the head of the channel.
LEMMA HeadResult ==
    ASSUME PoolInv, results # << >>
    PROVE  /\ Head(results).index \in Pages
           /\ Head(results).text \in Text
           /\ Head(results).text.of = Head(results).index
           /\ Head(results).text.len \in {0, doc[Head(results).index].len}
<1>1. /\ 1 \in DOMAIN results
      /\ Head(results) = results[1]
      /\ results[1] \in PageResult
  BY DEF PoolInv, PoolTypeOK
<1> QED
  BY <1>1 DEF PoolInv, ResultsOK, PageResult

\* The pool's invariants only read the pool's variables.
LEMMA PoolUnchanged ==
    ASSUME UNCHANGED poolVars
    PROVE  /\ PoolInv => PoolInv'
           /\ Held' = Held /\ Queued' = Queued /\ InPool' = InPool
           /\ OneHolder => OneHolder'
           /\ ClosingOK => ClosingOK'
           /\ StrictPoolOK => StrictPoolOK'
<1>1. Busy' = Busy
  BY DEF poolVars, Busy
<1>2. Held' = Held /\ Queued' = Queued
  BY <1>1 DEF poolVars, Held, Queued
<1>3. OneHolder => OneHolder'
  BY <1>1, <1>2 DEF poolVars, OneHolder
<1>4. ClosingOK => ClosingOK'
  BY DEF poolVars, ClosingOK, AllDone
<1>5. StrictPoolOK => StrictPoolOK'
  BY DEF poolVars, StrictPoolOK
<1>6. PoolInv => PoolInv'
  BY <1>1 DEF poolVars, PoolInv, PoolTypeOK, WorkersOK, ResultsOK, InFlightOK
<1> QED
  BY <1>2, <1>3, <1>4, <1>5, <1>6 DEF InPool
=============================================================================
