---------------------------- MODULE ExtractProofs ----------------------------
(***************************************************************************)
(* The output of Extract is in page order and within the limit, no worker  *)
(* ever blocks, Extract implements OrderedOutput, and every page is        *)
(* delivered once, for any number of workers, pages and retries, any limit *)
(* and any document.                                                       *)
(*                                                                         *)
(* Each action is either a step of the pool, for which WorkerPoolProofs    *)
(* has the lemmas, or a step of the collector, which gets a lemma here.    *)
(***************************************************************************)
EXTENDS Extract, WorkerPoolProofs, SequenceTheorems

\* What a step that leaves the collector's variables and the document alone
\* must still show, given that it preserves the pool's invariant.
LEMMA CollectorUnchanged ==
    ASSUME Inv, PoolInv', UNCHANGED collectorVars, doc' = doc
    PROVE  Inv'
<1>1. TypeOK'
  BY DEF Inv, TypeOK, PoolInv, collectorVars
<1>2. BufferOK' /\ OutputInOrder' /\ LimitRespected'
  BY DEF Inv, BufferOK, OutputInOrder, LimitRespected, collectorVars
<1> QED
  BY <1>1, <1>2 DEF Inv, collectorVars

LEMMA InitInv == Init => Inv
<1> SUFFICES ASSUME Init PROVE Inv
  OBVIOUS
<1>1. PoolInv
  BY PoolInitInv DEF Init
<1>2. TypeOK
  <2>1. DOMAIN pageBuffer = {}
    BY DEF Init
  <2>2. << >> \in [1 .. Len(<< >>) -> Text] /\ Len(<< >>) = 0
    <3>1. << >> \in Seq(Text) /\ Len(<< >>) = 0
      BY EmptySeq
    <3> QED
      BY <3>1, LenProperties, Zenon
  <2>3. pageBuffer \in [DOMAIN pageBuffer -> Text]
    <3>1. << >> \in [1 .. 0 -> Text]
      BY <2>2, Zenon
    <3>2. DOMAIN pageBuffer = 1 .. 0
      BY <2>1
    <3> QED
      BY <3>1, <3>2, Zenon DEF Init
  <2>4. nextPage \in 1 .. Total + 1 /\ out \in Seq(Text)
    BY EmptySeq, PoolAssumption DEF Init
  <2>5. DOMAIN pageBuffer \subseteq Pages
    BY <2>1
  <2>6. /\ pc \in {"receive", "emit", "reset", "returned"}
        /\ chars \in Nat
        /\ truncated \in BOOLEAN
        /\ err \in BOOLEAN
    BY DEF Init
  <2> QED
    BY <1>1, <2>3, <2>4, <2>5, <2>6 DEF TypeOK, PoolInv
<1>3. BufferOK /\ OutputInOrder
  BY DEF Init, BufferOK, OutputInOrder
<1>4. LimitRespected
  BY LimitAssumption DEF Init, LimitRespected
<1> QED
  BY <1>1, <1>2, <1>3, <1>4 DEF Inv, Init

LEMMA PoolStepInv == Inv /\ Pool => Inv'
<1> SUFFICES ASSUME Inv, Pool PROVE Inv'
  OBVIOUS
<1>1. PoolInv'
  BY PoolNextInv DEF Inv, Pool
<1>2. doc' = doc
  BY PoolKeepsDoc DEF Pool
<1> QED
  BY <1>1, <1>2, CollectorUnchanged DEF Pool

-----------------------------------------------------------------------------
(* The collector. *)

LEMMA ReceiveErrorInv == Inv /\ ReceiveError => Inv'
<1> SUFFICES ASSUME Inv, ReceiveError PROVE Inv'
  OBVIOUS
<1>1. PoolInv'
  BY TakeResultInv DEF Inv, ReceiveError
<1>2. UNCHANGED <<doc, pageBuffer, nextPage, out, chars, truncated>>
  BY DEF ReceiveError, TakeResult
<1>3. pc' = "reset" /\ err' = TRUE
  BY DEF ReceiveError
<1>4. TypeOK'
  BY <1>1, <1>2, <1>3 DEF Inv, TypeOK, PoolInv
<1>5. BufferOK' /\ OutputInOrder' /\ LimitRespected'
  BY <1>2 DEF Inv, BufferOK, OutputInOrder, LimitRespected
<1> QED
  BY <1>1, <1>3, <1>4, <1>5 DEF Inv

LEMMA ReceiveTextInv == Inv /\ ReceiveText => Inv'
<1> SUFFICES ASSUME Inv, ReceiveText PROVE Inv'
  OBVIOUS
<1> DEFINE p == Head(results).index
           t == Head(results).text
<1>1. PoolInv'
  BY TakeResultInv DEF Inv, ReceiveText
<1>2. /\ p \in Pages
      /\ t \in Text
      /\ t.of = p
      /\ t.len \in {0, doc[p].len}
  BY HeadResult DEF Inv, ReceiveText, TakeResult
<1>3. /\ UNCHANGED <<doc, nextPage, out, chars, truncated, err>>
      /\ pc' = "emit"
      /\ pageBuffer' = Put(pageBuffer, p, t)
      /\ ~truncated
  BY DEF ReceiveText, TakeResult, Inv
<1> HIDE DEF p, t
<1>4. /\ DOMAIN pageBuffer' = DOMAIN pageBuffer \cup {p}
      /\ \A q \in DOMAIN pageBuffer' :
            pageBuffer'[q] = IF q = p THEN t ELSE pageBuffer[q]
      /\ pageBuffer' \in [DOMAIN pageBuffer' -> Text]
  BY <1>2, <1>3 DEF Put, Inv, TypeOK
<1>5. TypeOK'
  BY <1>1, <1>2, <1>3, <1>4 DEF Inv, TypeOK, PoolInv
<1>6. BufferOK'
  BY <1>2, <1>3, <1>4 DEF Inv, BufferOK
<1>7. OutputInOrder' /\ LimitRespected'
  BY <1>3 DEF Inv, OutputInOrder, LimitRespected
<1> QED
  BY <1>1, <1>3, <1>5, <1>6, <1>7 DEF Inv

LEMMA ReceiveEndInv == Inv /\ ReceiveEnd => Inv'
<1> SUFFICES ASSUME Inv, ReceiveEnd PROVE Inv'
  OBVIOUS
<1>1. PoolInv' /\ doc' = doc
  BY DEF ReceiveEnd, Inv, PoolInv, poolVars, PoolTypeOK, WorkersOK, ResultsOK,
         InFlightOK, Busy
<1>2. UNCHANGED <<pageBuffer, nextPage, out, chars, truncated, err>>
  BY DEF ReceiveEnd
<1>3. pc' = "reset"
  BY DEF ReceiveEnd
<1>4. TypeOK'
  BY <1>1, <1>2, <1>3 DEF Inv, TypeOK, PoolInv
<1>5. BufferOK' /\ OutputInOrder' /\ LimitRespected'
  BY <1>1, <1>2 DEF Inv, BufferOK, OutputInOrder, LimitRespected
<1> QED
  BY <1>1, <1>3, <1>4, <1>5 DEF Inv

LEMMA EmitStopInv == Inv /\ EmitStop => Inv'
<1> SUFFICES ASSUME Inv, EmitStop PROVE Inv'
  OBVIOUS
<1>1. PoolInv' /\ doc' = doc
  BY DEF EmitStop, Inv, PoolInv, poolVars, PoolTypeOK, WorkersOK, ResultsOK,
         InFlightOK, Busy
<1>2. UNCHANGED <<pageBuffer, nextPage, out, chars, truncated, err>>
  BY DEF EmitStop
<1>3. pc' = "receive" /\ ~truncated
  BY DEF EmitStop, Inv
<1>4. TypeOK'
  BY <1>1, <1>2, <1>3 DEF Inv, TypeOK, PoolInv
<1>5. BufferOK' /\ OutputInOrder' /\ LimitRespected'
  BY <1>1, <1>2 DEF Inv, BufferOK, OutputInOrder, LimitRespected
<1> QED
  BY <1>1, <1>2, <1>3, <1>4, <1>5 DEF Inv

LEMMA EmitAtLimitInv == Inv /\ EmitAtLimit => Inv'
<1> SUFFICES ASSUME Inv, EmitAtLimit PROVE Inv'
  OBVIOUS
<1>1. PoolInv' /\ doc' = doc
  BY DEF EmitAtLimit, Inv, PoolInv, poolVars, PoolTypeOK, WorkersOK, ResultsOK,
         InFlightOK, Busy
<1>2. UNCHANGED <<pageBuffer, nextPage, out, chars, err>>
  BY DEF EmitAtLimit
<1>3. pc' = "reset" /\ truncated' = TRUE /\ ~truncated
  BY DEF EmitAtLimit, Inv
<1>4. TypeOK'
  BY <1>1, <1>2, <1>3 DEF Inv, TypeOK, PoolInv
<1>5. BufferOK' /\ OutputInOrder'
  BY <1>1, <1>2, <1>3 DEF Inv, BufferOK, OutputInOrder
<1>6. LimitRespected'
  BY <1>2, LimitAssumption DEF EmitAtLimit, Remaining, Inv, TypeOK,
     LimitRespected
<1> QED
  BY <1>1, <1>3, <1>4, <1>5, <1>6 DEF Inv

\* What WriteString does, for any number of characters that the next page has.
LEMMA WriteStringSteps ==
    ASSUME Inv, Ready, ~truncated, NEW n \in Nat, WriteString(n)
    PROVE  /\ nextPage \in Pages
           /\ nextPage' \in 1 .. Total + 1
           /\ pageBuffer[nextPage].len = doc[nextPage].len
           /\ DOMAIN pageBuffer' = DOMAIN pageBuffer \ {nextPage}
           /\ pageBuffer' \in [DOMAIN pageBuffer' -> Text]
           /\ \A q \in DOMAIN pageBuffer' : pageBuffer'[q] = pageBuffer[q]
           /\ out' \in Seq(Text)
           /\ Len(out) \in Nat
           /\ Len(out') = Len(out) + 1
           /\ \A i \in 1 .. Len(out) : out'[i] = out[i]
           /\ out'[Len(out')] = [of |-> nextPage, len |-> n]
           /\ nextPage' = Len(out') + 1
           /\ chars' = chars + n
           /\ chars' \in Nat
<1>1. /\ nextPage \in Pages
      /\ pageBuffer[nextPage].of = nextPage
      /\ pageBuffer[nextPage].len \in {0, doc[nextPage].len}
      /\ pageBuffer[nextPage].len > 0
  BY DEF Ready, Inv, TypeOK, BufferOK
<1>2. pageBuffer[nextPage].len = doc[nextPage].len
  BY <1>1
<1>3. nextPage' \in 1 .. Total + 1
  BY <1>1, PoolAssumption DEF WriteString, Pages
<1>4. /\ DOMAIN pageBuffer' = DOMAIN pageBuffer \ {nextPage}
      /\ \A q \in DOMAIN pageBuffer' : pageBuffer'[q] = pageBuffer[q]
      /\ pageBuffer' \in [DOMAIN pageBuffer' -> Text]
  BY DEF WriteString, Restrict, Inv, TypeOK
<1> DEFINE t == [of |-> nextPage, len |-> n]
<1>5. t \in Text /\ out' = Append(out, t)
  BY <1>1 DEF WriteString, Text
<1>6. out \in Seq(Text) /\ nextPage = Len(out) + 1
  BY DEF Inv, TypeOK, OutputInOrder
<1> HIDE DEF t
<1>7. /\ out' \in Seq(Text)
      /\ Len(out) \in Nat
      /\ Len(out') = Len(out) + 1
      /\ \A i \in 1 .. Len(out) : out'[i] = out[i]
      /\ out'[Len(out')] = t
  BY <1>5, <1>6
<1>8. nextPage' = Len(out') + 1
  BY <1>6, <1>7 DEF WriteString
<1>9. chars' = chars + n /\ chars' \in Nat
  BY DEF WriteString, Inv, TypeOK
<1> QED
  BY <1>1, <1>2, <1>3, <1>4, <1>7, <1>8, <1>9 DEF t

LEMMA EmitCutInv == Inv /\ EmitCut => Inv'
<1> SUFFICES ASSUME Inv, EmitCut PROVE Inv'
  OBVIOUS
<1>1. PoolInv' /\ UNCHANGED <<doc, err>>
  BY DEF EmitCut, Inv, PoolInv, poolVars, PoolTypeOK, WorkersOK, ResultsOK,
         InFlightOK, Busy
<1>2. pc' = "reset" /\ truncated' = TRUE /\ ~truncated /\ Ready
  BY DEF EmitCut, Inv
<1>3. Remaining \in Nat
  BY LimitAssumption DEF EmitCut, Remaining, Inv, TypeOK
<1>4. WriteString(Remaining) /\ pageBuffer[nextPage].len > Remaining
  BY DEF EmitCut
<1>5. /\ nextPage \in Pages
      /\ nextPage' \in 1 .. Total + 1
      /\ pageBuffer[nextPage].len = doc[nextPage].len
      /\ DOMAIN pageBuffer' = DOMAIN pageBuffer \ {nextPage}
      /\ pageBuffer' \in [DOMAIN pageBuffer' -> Text]
      /\ \A q \in DOMAIN pageBuffer' : pageBuffer'[q] = pageBuffer[q]
      /\ out' \in Seq(Text)
      /\ Len(out) \in Nat
      /\ Len(out') = Len(out) + 1
      /\ \A i \in 1 .. Len(out) : out'[i] = out[i]
      /\ out'[Len(out')] = [of |-> nextPage, len |-> Remaining]
      /\ nextPage' = Len(out') + 1
      /\ chars' = chars + Remaining
      /\ chars' \in Nat
  BY <1>2, <1>3, <1>4, WriteStringSteps
<1>6. nextPage = Len(out')
  BY <1>5 DEF Inv, OutputInOrder
<1>7. TypeOK'
  BY <1>1, <1>2, <1>5 DEF Inv, TypeOK, PoolInv
<1>8. BufferOK'
  BY <1>1, <1>5 DEF Inv, BufferOK
<1>9. OutputInOrder'
  <2> SUFFICES ASSUME NEW i \in 1 .. Len(out')
               PROVE  /\ out'[i].of = i
                      /\ i < Len(out') => out'[i].len = doc[i].len
    BY <1>1, <1>2, <1>5 DEF OutputInOrder
  <2>1. CASE i = Len(out')
    BY <2>1, <1>5, <1>6
  <2>2. CASE i \in 1 .. Len(out)
    BY <2>2, <1>2, <1>5 DEF Inv, OutputInOrder
  <2> QED
    BY <2>1, <2>2, <1>5
<1>10. LimitRespected'
  <2>1. chars' = MaxTotalChars
    BY <1>5, LimitAssumption DEF Remaining, Inv, TypeOK
  <2>2. MaxTotalChars > 0
    BY DEF EmitCut
  <2> QED
    BY <2>1, <2>2, LimitAssumption DEF LimitRespected
<1> QED
  BY <1>1, <1>2, <1>7, <1>8, <1>9, <1>10 DEF Inv

LEMMA EmitWholeInv == Inv /\ EmitWhole => Inv'
<1> SUFFICES ASSUME Inv, EmitWhole PROVE Inv'
  OBVIOUS
<1> DEFINE n == pageBuffer[nextPage].len
<1>1. PoolInv' /\ UNCHANGED <<doc, pc, truncated, err>>
  BY DEF EmitWhole, Inv, PoolInv, poolVars, PoolTypeOK, WorkersOK, ResultsOK,
         InFlightOK, Busy
<1>2. pc = "emit" /\ ~truncated /\ Ready /\ WriteString(n)
  BY DEF EmitWhole, Inv
<1>3. n \in Nat
  BY <1>2 DEF Ready, Inv, TypeOK, Text
<1>4. MaxTotalChars = 0 \/ n <= Remaining
  BY DEF EmitWhole
<1> HIDE DEF n
<1>5. /\ nextPage \in Pages
      /\ nextPage' \in 1 .. Total + 1
      /\ DOMAIN pageBuffer' = DOMAIN pageBuffer \ {nextPage}
      /\ pageBuffer' \in [DOMAIN pageBuffer' -> Text]
      /\ \A q \in DOMAIN pageBuffer' : pageBuffer'[q] = pageBuffer[q]
      /\ out' \in Seq(Text)
      /\ Len(out) \in Nat
      /\ Len(out') = Len(out) + 1
      /\ \A i \in 1 .. Len(out) : out'[i] = out[i]
      /\ out'[Len(out')] = [of |-> nextPage, len |-> n]
      /\ nextPage' = Len(out') + 1
      /\ chars' = chars + n
      /\ chars' \in Nat
  BY <1>2, <1>3, WriteStringSteps
<1>6. nextPage = Len(out') /\ n = doc[nextPage].len
  <2>1. pageBuffer[nextPage].len = doc[nextPage].len
    BY <1>2, <1>3, WriteStringSteps
  <2> QED
    BY <2>1, <1>5 DEF Inv, OutputInOrder, n
<1>7. TypeOK'
  BY <1>1, <1>5 DEF Inv, TypeOK, PoolInv
<1>8. BufferOK'
  BY <1>1, <1>5 DEF Inv, BufferOK
<1>9. OutputInOrder'
  <2> SUFFICES ASSUME NEW i \in 1 .. Len(out')
               PROVE  out'[i].of = i /\ out'[i].len = doc[i].len
    BY <1>1, <1>5 DEF OutputInOrder
  <2>1. CASE i = Len(out')
    BY <2>1, <1>5, <1>6
  <2>2. CASE i \in 1 .. Len(out)
    BY <2>2, <1>2, <1>5 DEF Inv, OutputInOrder
  <2> QED
    BY <2>1, <2>2, <1>5
<1>10. LimitRespected'
  BY <1>1, <1>2, <1>3, <1>4, <1>5, LimitAssumption
     DEF Remaining, Inv, TypeOK, LimitRespected
<1> QED
  BY <1>1, <1>2, <1>7, <1>8, <1>9, <1>10 DEF Inv

LEMMA ReturnInv == Inv /\ Return => Inv'
<1> SUFFICES ASSUME Inv, Return PROVE Inv'
  OBVIOUS
<1>1. PoolInv' /\ doc' = doc
  BY ResetAllocatorInv DEF Inv, Return, ResetAllocator
<1>2. UNCHANGED <<pageBuffer, nextPage, out, chars, truncated, err>>
  BY DEF Return
<1>3. pc' = "returned"
  BY DEF Return
<1>4. TypeOK'
  BY <1>1, <1>2, <1>3 DEF Inv, TypeOK, PoolInv
<1>5. BufferOK' /\ OutputInOrder' /\ LimitRespected'
  BY <1>1, <1>2 DEF Inv, BufferOK, OutputInOrder, LimitRespected
<1> QED
  BY <1>1, <1>3, <1>4, <1>5 DEF Inv

-----------------------------------------------------------------------------
(* The theorems. *)

LEMMA StepInv == Inv /\ [Next]_vars => Inv'
<1> SUFFICES ASSUME Inv, [Next]_vars PROVE Inv'
  OBVIOUS
<1>1. CASE Pool
  BY <1>1, PoolStepInv
<1>2. CASE Collector
  BY <1>2, ReceiveErrorInv, ReceiveTextInv, ReceiveEndInv, EmitStopInv,
     EmitAtLimitInv, EmitCutInv, EmitWholeInv, ReturnInv DEF Collector
<1>3. CASE UNCHANGED vars
  <2>1. PoolInv' /\ doc' = doc /\ UNCHANGED collectorVars
    BY <1>3 DEF Inv, PoolInv, vars, poolVars, PoolTypeOK, WorkersOK, ResultsOK,
         InFlightOK, Busy
  <2> QED
    BY <2>1, CollectorUnchanged
<1> QED
  BY <1>1, <1>2, <1>3 DEF Next

\* The inductive invariant of Extract holds in every reachable state.
THEOREM Invariant == Spec => []Inv
BY InitInv, StepInv, PTL DEF Spec

\* Every variable of Extract keeps its type: in particular, the allocator never
\* grants more than the memory limit.
THEOREM TypeCorrect == Spec => []TypeOK
<1>1. Inv => TypeOK
  BY DEF Inv
<1> QED
  BY <1>1, Invariant, PTL

\* Extract outputs the pages in order, each at most once and whole unless cut.
THEOREM OutputInOrderCorrect == Spec => []OutputInOrder
<1>1. Inv => OutputInOrder
  BY DEF Inv
<1> QED
  BY <1>1, Invariant, PTL

\* The output never passes the limit, and is at it when flagged as truncated.
THEOREM LimitCorrect == Spec => []LimitRespected
<1>1. Inv => LimitRespected
  BY DEF Inv
<1> QED
  BY <1>1, Invariant, PTL

THEOREM SendNeverBlocksCorrect == Spec => []SendNeverBlocks
<1>1. Inv => SendNeverBlocks
  BY RoomInResults DEF Inv, SendNeverBlocks
<1> QED
  BY <1>1, Invariant, PTL

-----------------------------------------------------------------------------
(* Refinement. *)

\* The steps that write to the output are the abstract ones that add to it.
LEMMA EmitAdds ==
    ASSUME Inv, EmitCut \/ EmitWhole
    PROVE  Abstract!Next
<1>1. /\ Status = "open" /\ Status' = "open"
      /\ Ready /\ ~truncated
      /\ nextPage = Len(out) + 1 /\ nextPage \in Pages
      /\ pageBuffer[nextPage].of = nextPage
      /\ pageBuffer[nextPage].len \in Nat
      /\ chars \in Nat
  BY DEF EmitCut, EmitWhole, Status, Ready, Inv, TypeOK, BufferOK,
         OutputInOrder, Text
<1>2. Len(out) < Total
  BY <1>1, PoolAssumption DEF Pages, Inv, TypeOK
<1>3. CASE EmitCut
  <2>1. chars < MaxTotalChars
    BY <1>1, <1>3, LimitAssumption DEF EmitCut, Remaining
  <2>2. Abstract!Add(MaxTotalChars - chars)
    BY <1>1, <1>3 DEF EmitCut, Remaining, WriteString, Abstract!Add
  <2> QED
    BY <1>1, <1>2, <2>1, <2>2 DEF Abstract!AddCut, Abstract!Next
<1>4. CASE EmitWhole
  <2> DEFINE n == pageBuffer[nextPage].len
  <2>1. n \in Nat /\ n > 0 /\ chars' = chars + n
    BY <1>1, <1>4 DEF EmitWhole, WriteString, Ready
  <2>2. MaxTotalChars = 0 \/ chars' <= MaxTotalChars
    BY <1>1, <1>4, <2>1, LimitAssumption DEF EmitWhole, Remaining
  <2>3. out' = Append(out, [of |-> nextPage, len |-> n])
    BY <1>1, <1>4 DEF EmitWhole, WriteString
  <2> HIDE DEF n
  <2>4. n = chars' - chars /\ chars' = chars + (chars' - chars)
        /\ chars' \in Nat /\ chars' > chars
    BY <1>1, <2>1
  <2>5. Abstract!Add(chars' - chars)
    BY <1>1, <2>3, <2>4 DEF Abstract!Add
  <2> QED
    BY <1>1, <1>2, <2>2, <2>4, <2>5 DEF Abstract!AddWhole, Abstract!Next
<1> QED
  BY <1>3, <1>4

\* The return is the abstract end of the output.
LEMMA ReturnFinishes ==
    ASSUME Inv, Inv', Return
    PROVE  Abstract!Next
<1>1. /\ Status = "open"
      /\ UNCHANGED <<out, chars, truncated, err>>
      /\ pc' = "returned"
  BY DEF Return, Status
<1>2. truncated => MaxTotalChars > 0 /\ chars = MaxTotalChars
  BY DEF Inv, LimitRespected, TypeOK
<1>3. CASE err
  BY <1>1, <1>3 DEF Status, Abstract!Finish, Abstract!Next
<1>4. CASE ~err /\ truncated
  BY <1>1, <1>2, <1>4 DEF Status, Abstract!Finish, Abstract!Next
<1>5. CASE ~err /\ ~truncated
  BY <1>1, <1>5 DEF Status, Abstract!Finish, Abstract!Next
<1> QED
  BY <1>3, <1>4, <1>5

\* Every other step leaves the output alone.
LEMMA OtherStutters ==
    ASSUME Pool \/ ReceiveError \/ ReceiveText \/ ReceiveEnd \/ EmitStop
               \/ EmitAtLimit \/ UNCHANGED vars
    PROVE  UNCHANGED Abstract!vars
<1>1. UNCHANGED <<out, chars>>
  BY DEF Pool, ReceiveError, ReceiveText, ReceiveEnd, EmitStop, EmitAtLimit,
         collectorVars, vars
<1>2. Status' = Status
  BY DEF Pool, ReceiveError, ReceiveText, ReceiveEnd, EmitStop, EmitAtLimit,
         collectorVars, vars, Status
<1> QED
  BY <1>1, <1>2 DEF Abstract!vars

\* Extract implements the abstract specification of ordered output.
THEOREM Refinement == Spec => ImplementsOrderedOutput
<1>1. Init => Abstract!Init
  BY DEF Init, Abstract!Init, Status
<1>2. Inv /\ Inv' /\ [Next]_vars => [Abstract!Next]_(Abstract!vars)
  BY EmitAdds, ReturnFinishes, OtherStutters DEF Next, Collector
<1> QED
  BY <1>1, <1>2, Invariant, PTL DEF Spec, ImplementsOrderedOutput, Abstract!Spec

-----------------------------------------------------------------------------
(* Delivery: no page is lost or handled twice between feedJobs and the     *)
(* output, the output ends where it should, and in strict mode no failure  *)
(* is lost.  DeliveryInv is Inv with three things that hold each other up: *)
(* where every page is (OneHolder, PlacesOK), in which order the           *)
(* goroutines end (ClosingOK, EndOK) and, in strict mode, that every page  *)
(* that got past a worker is sound (StrictPoolOK, StrictCollectedOK).      *)

\* The steps of the collector that leave the pool as it is.
Quiet == ReceiveEnd \/ EmitStop \/ EmitAtLimit \/ EmitCut \/ EmitWhole

LEMMA QuietPool ==
    ASSUME Quiet
    PROVE  UNCHANGED poolVars
BY DEF Quiet, ReceiveEnd, EmitStop, EmitAtLimit, EmitCut, EmitWhole

-----------------------------------------------------------------------------
(* Where the pages are. *)

\* No step of the collector but ReceiveText changes the pages it has received: a
\* text that is written leaves pageBuffer as nextPage passes it.
LEMMA CollectedKept ==
    ASSUME Inv, PlacesOK,
           Quiet \/ ReceiveError \/ Return \/ UNCHANGED collectorVars
    PROVE  /\ Collected' = Collected
           /\ (1 .. nextPage' - 1) \cap DOMAIN pageBuffer' = {}
<1>1. CASE UNCHANGED <<pageBuffer, nextPage>>
  BY <1>1 DEF Collected, PlacesOK
<1>2. ASSUME NEW n, WriteString(n), Ready
      PROVE  /\ Collected' = Collected
             /\ (1 .. nextPage' - 1) \cap DOMAIN pageBuffer' = {}
  <2>1. nextPage \in Nat \ {0} /\ nextPage \in DOMAIN pageBuffer
    BY <1>2, PoolAssumption DEF Ready, Inv, TypeOK
  <2>2. nextPage' = nextPage + 1
        /\ DOMAIN pageBuffer' = DOMAIN pageBuffer \ {nextPage}
    BY <1>2 DEF WriteString, Restrict
  <2>3. 1 .. nextPage' - 1 = (1 .. nextPage - 1) \cup {nextPage}
    BY <2>1, <2>2
  <2> QED
    BY <2>1, <2>2, <2>3 DEF Collected, PlacesOK
<1>3. CASE EmitCut
  BY <1>2, <1>3 DEF EmitCut
<1>4. CASE EmitWhole
  BY <1>2, <1>4 DEF EmitWhole
<1> QED
  BY <1>1, <1>3, <1>4 DEF Quiet, ReceiveEnd, EmitStop, EmitAtLimit, ReceiveError,
     Return, collectorVars

\* A text received adds its page to those that the collector has.
LEMMA CollectedGrows ==
    ASSUME Inv, OneHolder, PlacesOK, ReceiveText
    PROVE  /\ Collected' = Collected \cup {Head(results).index}
           /\ (1 .. nextPage' - 1) \cap DOMAIN pageBuffer' = {}
<1> DEFINE p == Head(results).index
<1>1. p \in Queued
  BY TakeResultMoves DEF Inv, ReceiveText
<1>2. p \notin Collected
  BY <1>1 DEF PlacesOK, InPool
<1>3. nextPage' = nextPage /\ DOMAIN pageBuffer' = DOMAIN pageBuffer \cup {p}
  BY DEF ReceiveText, Put
<1> QED
  BY <1>2, <1>3 DEF Collected, PlacesOK

LEMMA PlacesInit == Init => OneHolder /\ PlacesOK
<1> SUFFICES ASSUME Init PROVE OneHolder /\ PlacesOK
  OBVIOUS
<1>1. Busy = {}
  BY DEF Init, PoolInit, Busy, Idle
<1>2. Held = {} /\ Queued = {}
  BY <1>1 DEF Init, PoolInit, Held, Queued
<1>3. OneHolder
  BY <1>1, <1>2 DEF Init, PoolInit, OneHolder
<1>4. taken = 0 /\ nextPage = 1 /\ DOMAIN pageBuffer = {}
  BY DEF Init, PoolInit
<1>5. Collected = {} /\ 1 .. nextPage - 1 = {} /\ 1 .. taken = {}
  BY <1>4 DEF Collected
<1> QED
  BY <1>3, <1>4, <1>5 DEF PlacesOK

\* The pool never brings a process that has ended back.
LEMMA OnlyCrashes ==
    ASSUME PoolNext
    PROVE  alive' => alive
<1>1. CASE Cancel \/ Feeder \/ CloseResults
  BY <1>1 DEF Cancel, Feeder, Feed, FeedEnd, CloseResults
<1>2. ASSUME NEW w \in Workers, WorkerStep(w) PROVE alive' => alive
  <2>1. CASE TakeJob(w)
    BY <2>1 DEF TakeJob
  <2>2. CASE ~TakeJob(w)
    BY <1>2, <2>2 DEF WorkerStep, AllocArgs, Decode, PageEnd, Send, WorkerExit
  <2> QED
    BY <2>1, <2>2
<1> QED
  BY <1>1, <1>2 DEF PoolNext

\* A page taken leaves the pool for the collector, or is dropped with an error.
LEMMA PlacesStep ==
    ASSUME Inv, OneHolder, PlacesOK, [Next]_vars
    PROVE  OneHolder' /\ PlacesOK'
<1>1. taken \in Nat /\ InPool \subseteq 1 .. taken
  BY InPoolTaken, PoolAssumption DEF Inv, PoolInv, PoolTypeOK
<1>2. CASE Pool
  <2>1. /\ OneHolder'
        /\ taken' \in {taken, taken + 1}
        /\ InPool' \subseteq InPool \cup (taken + 1 .. taken')
        /\ alive' => InPool \cup (taken + 1 .. taken') \subseteq InPool'
    BY <1>2, PoolMoves DEF Inv, Pool
  <2>2. err' = err /\ (alive' => alive)
    BY <1>2, OnlyCrashes DEF Pool, collectorVars
  <2>3. Collected' = Collected
        /\ (1 .. nextPage' - 1) \cap DOMAIN pageBuffer' = {}
    BY <1>2, CollectedKept DEF Pool
  <2>4. 1 .. taken' = (1 .. taken) \cup (taken + 1 .. taken')
        /\ (1 .. taken) \cap (taken + 1 .. taken') = {}
    BY <1>1, <2>1
  <2>5. Collected' \subseteq 1 .. taken' /\ Collected' \cap InPool' = {}
    BY <2>1, <2>3, <2>4 DEF PlacesOK
  <2>6. alive' /\ ~err' => 1 .. taken' \subseteq Collected' \cup InPool'
    BY <2>1, <2>2, <2>3, <2>4 DEF PlacesOK
  <2> QED
    BY <2>1, <2>3, <2>5, <2>6 DEF PlacesOK
<1>3. CASE ReceiveError \/ ReceiveText
  <2> DEFINE p == Head(results).index
  <2>1. /\ OneHolder'
        /\ p \in InPool
        /\ InPool' = InPool \ {p}
    BY <1>3, TakeResultMoves DEF Inv, ReceiveError, ReceiveText, InPool
  <2>2. taken' = taken /\ alive' = alive
    BY <1>3 DEF ReceiveError, ReceiveText, TakeResult
  <2>3. CASE ReceiveError
    <3>1. Collected' = Collected
          /\ (1 .. nextPage' - 1) \cap DOMAIN pageBuffer' = {}
      BY <2>3, CollectedKept
    <3>2. err' = TRUE
      BY <2>3 DEF ReceiveError
    <3> QED
      BY <2>1, <2>2, <3>1, <3>2 DEF PlacesOK
  <2>4. CASE ReceiveText
    <3>1. Collected' = Collected \cup {p}
          /\ (1 .. nextPage' - 1) \cap DOMAIN pageBuffer' = {}
      BY <2>4, CollectedGrows
    <3>2. err' = err
      BY <2>4 DEF ReceiveText
    <3> HIDE DEF p
    <3> QED
      BY <1>1, <2>1, <2>2, <3>1, <3>2 DEF PlacesOK
  <2> QED
    BY <1>3, <2>3, <2>4
<1>4. CASE Return \/ Quiet \/ UNCHANGED vars
  <2>1. OneHolder' /\ InPool' = InPool /\ UNCHANGED <<taken, alive, err>>
    <3>1. CASE Return
      BY <3>1, ResetMoves DEF Return, ResetAllocator
    <3>2. CASE Quiet \/ UNCHANGED vars
      <4>1. UNCHANGED poolVars /\ err' = err
        BY <3>2, QuietPool DEF vars, collectorVars, Quiet, ReceiveEnd, EmitStop,
           EmitAtLimit, EmitCut, EmitWhole
      <4> QED
        BY <4>1, PoolUnchanged DEF poolVars
    <3> QED
      BY <1>4, <3>1, <3>2
  <2>2. Collected' = Collected
        /\ (1 .. nextPage' - 1) \cap DOMAIN pageBuffer' = {}
    BY <1>4, CollectedKept DEF vars
  <2> QED
    BY <2>1, <2>2 DEF PlacesOK
<1> QED
  BY <1>2, <1>3, <1>4 DEF Next, Collector, Quiet

-----------------------------------------------------------------------------
(* In which order the goroutines end. *)

\* No step changes the parsing mode.
LEMMA ModeKept ==
    ASSUME [Next]_vars
    PROVE  mode' = mode
BY PoolKeepsDoc
   DEF Next, Pool, Collector, ReceiveError, ReceiveText, ReceiveEnd, EmitStop,
       EmitAtLimit, EmitCut, EmitWhole, Return, TakeResult, ResetAllocator, vars,
       poolVars

LEMMA EndInit == Init => EndOK
BY DEF Init, EndOK, Ready

\* The collection ends when the results have ended, at the limit or at an error.
LEMMA EndStep ==
    ASSUME Inv, ClosingOK, EndOK, [Next]_vars
    PROVE  ClosingOK' /\ EndOK'
<1>0. mode' = mode
  BY ModeKept
<1>1. CASE alive /\ Pool
  <2>1. ClosingOK'
    BY <1>1, ClosingStep DEF Pool, Inv
  <2>2. UNCHANGED <<pc, err, truncated>> /\ (Ready' <=> Ready)
    BY <1>1 DEF Pool, collectorVars, Ready
  <2>3. resultsClosed /\ results = << >> => resultsClosed' /\ results' = << >>
    <3> SUFFICES ASSUME resultsClosed, results = << >>
                 PROVE  resultsClosed' /\ results' = << >>
      OBVIOUS
    <3>1. \A w \in Workers : worker[w].pc = "done"
      BY DEF ClosingOK, AllDone
    <3> QED
      BY <1>1, <3>1 DEF Pool, PoolNext, Cancel, Feeder, Feed, FeedEnd,
         CloseResults, WorkerStep, TakeJob, AllocArgs, Decode, PageEnd, Send,
         WorkerExit
  <2> QED
    BY <1>0, <2>1, <2>2, <2>3 DEF EndOK
<1>2. CASE Quiet \/ UNCHANGED vars
  <2>1. UNCHANGED poolVars /\ ClosingOK'
    BY <1>2, QuietPool, PoolUnchanged DEF vars
  <2>2. EndOK'
    <3>1. CASE ReceiveEnd
      BY <3>1 DEF ReceiveEnd, poolVars, EndOK, Ready
    <3>2. CASE EmitStop
      BY <3>2 DEF EmitStop, poolVars, EndOK, Ready
    <3>3. CASE EmitAtLimit \/ EmitCut
      BY <1>0, <3>3 DEF EmitAtLimit, EmitCut, EndOK
    <3>4. CASE EmitWhole
      BY <1>0, <3>4 DEF EmitWhole, EndOK
    <3>5. CASE UNCHANGED vars
      BY <3>5 DEF vars, poolVars, collectorVars, EndOK, Ready
    <3> QED
      BY <1>2, <3>1, <3>2, <3>3, <3>4, <3>5 DEF Quiet
  <2> QED
    BY <2>1, <2>2
<1>3. CASE ReceiveError \/ ReceiveText \/ Return
  <2>1. ClosingOK'
    BY <1>3, ClosingCollector DEF ReceiveError, ReceiveText, Return
  <2>2. CASE ReceiveError
    BY <1>0, <2>1, <2>2 DEF ReceiveError, EndOK, Ready
  <2>3. CASE ReceiveText
    BY <1>0, <2>1, <2>3 DEF ReceiveText, EndOK
  <2>4. CASE Return
    BY <1>0, <2>1, <2>4 DEF Return, ResetAllocator, EndOK, Ready
  <2> QED
    BY <1>3, <2>1, <2>2, <2>3, <2>4
<1> QED
  BY <1>1, <1>2, <1>3 DEF Next, Collector, Quiet

-----------------------------------------------------------------------------
(* Strict mode. *)

LEMMA StrictCollectedInit == Init => StrictCollectedOK
<1> SUFFICES ASSUME Init PROVE Collected = {}
  BY DEF StrictCollectedOK
<1> QED
  BY DEF Init, Collected

\* A text that strict mode collects came without an error, from a sound page.
LEMMA StrictCollectedStep ==
    ASSUME Inv, OneHolder, PlacesOK, StrictPoolOK, StrictCollectedOK, [Next]_vars
    PROVE  StrictPoolOK' /\ StrictCollectedOK'
<1>0. mode' = mode
  BY ModeKept
<1>1. CASE Pool
  <2>1. StrictPoolOK'
    BY <1>1, StrictStep DEF Pool, Inv
  <2>2. doc' = doc
    BY <1>1, PoolKeepsDoc DEF Pool
  <2>3. Collected' = Collected
    BY <1>1, CollectedKept DEF Pool
  <2> QED
    BY <1>0, <2>1, <2>2, <2>3 DEF StrictCollectedOK
<1>2. CASE Quiet \/ UNCHANGED vars
  <2>1. UNCHANGED poolVars /\ Collected' = Collected
    BY <1>2, QuietPool, CollectedKept DEF vars
  <2> QED
    BY <2>1, PoolUnchanged DEF poolVars, StrictCollectedOK
<1>3. CASE ReceiveError \/ Return
  <2>1. StrictPoolOK' /\ doc' = doc
    BY <1>3, StrictCollector DEF ReceiveError, Return, Inv, TakeResult,
       ResetAllocator
  <2>2. Collected' = Collected
    BY <1>3, CollectedKept
  <2> QED
    BY <1>0, <2>1, <2>2 DEF StrictCollectedOK
<1>4. CASE ReceiveText
  <2>1. StrictPoolOK' /\ doc' = doc
    BY <1>4, StrictCollector DEF ReceiveText, Inv, TakeResult
  <2>2. Collected' = Collected \cup {Head(results).index}
    BY <1>4, CollectedGrows
  <2>3. mode = "strict" => doc[Head(results).index].kind = "text"
    <3>1. 1 \in DOMAIN results /\ Head(results) = results[1]
      BY <1>4 DEF ReceiveText, TakeResult, Inv, PoolInv, PoolTypeOK
    <3>2. ~(Head(results).err /\ mode = "strict")
      BY <1>4 DEF ReceiveText
    <3> QED
      BY <3>1, <3>2 DEF StrictPoolOK
  <2> QED
    BY <1>0, <2>1, <2>2, <2>3 DEF StrictCollectedOK
<1> QED
  BY <1>1, <1>2, <1>3, <1>4 DEF Next, Collector, Quiet

-----------------------------------------------------------------------------
(* The theorems. *)

LEMMA DeliveryInit == Init => DeliveryInv
BY InitInv, PlacesInit, ClosingInit, StrictInit, EndInit, StrictCollectedInit
   DEF DeliveryInv, Init

LEMMA DeliveryStep == DeliveryInv /\ [Next]_vars => DeliveryInv'
BY StepInv, PlacesStep, EndStep, StrictCollectedStep DEF DeliveryInv

\* Every page is where the inductive invariant says, in every reachable state.
THEOREM Delivery == Spec => []DeliveryInv
BY DeliveryInit, DeliveryStep, PTL DEF Spec

\* A set of which the members are equal has at most one.
LEMMA AtMostOne ==
    ASSUME NEW S, \A x, y \in S : x = y
    PROVE  Cardinality(S) = IF S = {} THEN 0 ELSE 1
<1>1. CASE S = {}
  BY <1>1, FS_EmptySet
<1>2. CASE S # {}
  <2>1. PICK x \in S : S = {x}
    BY <1>2
  <2> QED
    BY <1>2, <2>1, FS_Singleton
<1> QED
  BY <1>1, <1>2

\* Each page taken is with one worker, in "results", in pageBuffer or output, and
\* in no two of them: none is lost and none is handled twice.
THEOREM PageInOnePlaceCorrect == Spec => []PageInOnePlace
<1>1. ASSUME DeliveryInv PROVE PageInOnePlace
  <2> SUFFICES ASSUME NEW p \in Pages
               PROVE  IF p > taken THEN Copies(p) = 0
                      ELSE IF alive /\ ~err THEN Copies(p) = 1
                      ELSE Copies(p) <= 1
    BY DEF PageInOnePlace
  <2> DEFINE H == {w \in Busy : worker[w].page = p}
             Q == {i \in DOMAIN results : results[i].index = p}
             b == IF p \in DOMAIN pageBuffer THEN 1 ELSE 0
             o == IF p < nextPage THEN 1 ELSE 0
  <2>1. Cardinality(H) = IF p \in Held THEN 1 ELSE 0
    <3>1. Cardinality(H) = IF H = {} THEN 0 ELSE 1
      BY <1>1, AtMostOne DEF DeliveryInv, OneHolder
    <3> QED
      BY <3>1 DEF Held
  <2>2. Cardinality(Q) = IF p \in Queued THEN 1 ELSE 0
    <3>1. Cardinality(Q) = IF Q = {} THEN 0 ELSE 1
      BY <1>1, AtMostOne DEF DeliveryInv, OneHolder
    <3> QED
      BY <3>1 DEF Queued
  <2>3. b + o = IF p \in Collected THEN 1 ELSE 0
    <3>1. p < nextPage <=> p \in 1 .. nextPage - 1
      BY <1>1, PoolAssumption DEF DeliveryInv, Inv, TypeOK, Pages
    <3> QED
      BY <1>1, <3>1 DEF DeliveryInv, PlacesOK, Collected
  <2>4. Copies(p) = Cardinality(H) + Cardinality(Q) + b + o
    BY DEF Copies
  <2>5. Copies(p) = IF p \in InPool \cup Collected THEN 1 ELSE 0
    <3>1. ~(p \in Held /\ p \in Queued)
          /\ ~(p \in InPool /\ p \in Collected)
      BY <1>1 DEF DeliveryInv, OneHolder, PlacesOK
    <3> HIDE DEF H, Q, b, o
    <3>2. b \in {0, 1} /\ o \in {0, 1}
      BY DEF b, o
    <3> QED
      BY <2>1, <2>2, <2>3, <2>4, <3>1, <3>2 DEF InPool
  <2>6. taken \in Nat /\ (p > taken <=> p \notin 1 .. taken)
    BY <1>1, PoolAssumption DEF DeliveryInv, Inv, PoolInv, PoolTypeOK, Pages
  <2>7. InPool \cup Collected \subseteq 1 .. taken
    BY <1>1, InPoolTaken DEF DeliveryInv, Inv, PlacesOK
  <2> QED
    BY <1>1, <2>5, <2>6, <2>7 DEF DeliveryInv, PlacesOK
<1> QED
  BY <1>1, Delivery, PTL

\* When the collection ends at the end of the results, the collector has every
\* page that was fed.
LEMMA CompleteAtEnd ==
    ASSUME DeliveryInv, pc = "returned", ~err, ~truncated
    PROVE  1 .. fed \subseteq Collected /\ ~Ready /\ AllDone /\ jobsClosed
<1>1. resultsClosed /\ results = << >> /\ ~Ready
  BY DEF DeliveryInv, EndOK
<1>2. Held = {} /\ taken = fed /\ alive
  BY <1>1, ClosedIsDrained DEF DeliveryInv, Inv
<1>3. InPool = {}
  BY <1>1, <1>2 DEF InPool, Queued
<1> QED
  BY <1>1, <1>2, <1>3 DEF DeliveryInv, PlacesOK, ClosingOK

\* A text that is not flagged as truncated stops at no page but one without text.
THEOREM StopsOnlyAtEmptyPageCorrect == Spec => []StopsOnlyAtEmptyPage
<1>1. ASSUME DeliveryInv PROVE StopsOnlyAtEmptyPage
  <2> SUFFICES ASSUME pc = "returned", ~err, ~truncated, ~cancelled,
                      ~(nextPage > Total)
               PROVE  /\ nextPage \in DOMAIN pageBuffer
                      /\ pageBuffer[nextPage].len = 0
    BY DEF StopsOnlyAtEmptyPage
  <2>1. 1 .. fed \subseteq Collected /\ ~Ready /\ jobsClosed
    BY <1>1, CompleteAtEnd
  <2>2. fed = Total
    BY <1>1, <2>1 DEF DeliveryInv, ClosingOK
  <2>3. nextPage \in 1 .. Total /\ nextPage \notin 1 .. nextPage - 1
    BY <1>1, PoolAssumption DEF DeliveryInv, Inv, TypeOK
  <2>4. nextPage \in DOMAIN pageBuffer
    BY <2>1, <2>2, <2>3 DEF Collected
  <2>5. pageBuffer[nextPage].len \in Nat
    BY <1>1, <2>4 DEF DeliveryInv, Inv, TypeOK, Text
  <2> QED
    BY <2>1, <2>4, <2>5 DEF Ready
<1> QED
  BY <1>1, Delivery, PTL

\* In strict mode a text that is not truncated is returned only if every page fed
\* succeeded, whatever the retries and the order of the results.
THEOREM StrictSuccessIsTotalCorrect == Spec => []StrictSuccessIsTotal
<1>1. DeliveryInv => StrictSuccessIsTotal
  BY CompleteAtEnd DEF StrictSuccessIsTotal, DeliveryInv, StrictCollectedOK
<1> QED
  BY <1>1, Delivery, PTL

\* Without an early return no worker reads the document when Extract resets its
\* allocator: the results were closed by then, so every worker is done.
THEOREM ResetAfterWorkersCorrect == Spec => []ResetAfterWorkers
<1>1. DeliveryInv => ResetAfterWorkers
  BY CompleteAtEnd DEF ResetAfterWorkers, AllDone, Reading
<1> QED
  BY <1>1, Delivery, PTL

=============================================================================
