--------------------------- MODULE ProcessorProofs ---------------------------
(***************************************************************************)
(* The slots of the semaphore and the memory of the calls are accounted    *)
(* for on every path of every call, for any calls and any number of slots. *)
(*                                                                         *)
(* SlotsAccounted is not inductive: a release hands its slot to the head   *)
(* of the queue, which must be a call that waits (QueueOK), and a call     *)
(* that fails before it has opened its document must hold nothing yet      *)
(* (UnopenedOK).                                                           *)
(***************************************************************************)
EXTENDS Processor, FiniteSetTheorems, SequenceTheorems, TLAPS

HolderLabels == {"handed", "acquired", "running", "reset", "release"}

\* The calls that hold a slot are finitely many.
LEMMA HoldersFinite == IsFiniteSet(Holders) /\ Cardinality(Holders) \in Nat
<1>1. IsFiniteSet(Holders)
  BY ProcessorAssumption, FS_Subset DEF Holders
<1> QED
  BY <1>1, FS_CardinalityType

\* How the set of holders follows the state of one call.
LEMMA HoldersChange ==
    ASSUME TypeOK, NEW c \in Calls, NEW label, Goto(c, label)
    PROVE  /\ Holders' = IF label \in HolderLabels
                         THEN Holders \cup {c} ELSE Holders \ {c}
           /\ pc'[c] = label
           /\ \A d \in Calls : d # c => pc'[d] = pc[d]
BY DEF TypeOK, Goto, Holders, HolderLabels

LEMMA InitInv == Init => Inv
<1> SUFFICES ASSUME Init PROVE Inv
  OBVIOUS
<1>1. TypeOK
  BY ProcessorAssumption, EmptySeq DEF Init, TypeOK, Labels
<1>2. QueueOK /\ UnopenedOK
  BY DEF Init, QueueOK, UnopenedOK
<1>3. Holders = {}
  BY DEF Init, Holders
<1>4. SlotsAccounted
  BY <1>3, FS_EmptySet, ProcessorAssumption DEF Init, SlotsAccounted
<1> QED
  BY <1>1, <1>2, <1>4 DEF Inv

-----------------------------------------------------------------------------
(* The queue of the semaphore. *)

\* A call that does not wait moves to a label other than "waiting".
LEMMA QueueKept ==
    ASSUME TypeOK, QueueOK, NEW c \in Calls, NEW label, Goto(c, label),
           pc[c] # "waiting", label # "waiting", waiters' = waiters
    PROVE  QueueOK'
<1>1. pc'[c] = label /\ \A d \in Calls : d # c => pc'[d] = pc[d]
  BY HoldersChange
<1>2. \A i \in DOMAIN waiters : waiters[i] \in Calls
  BY DEF TypeOK
<1> QED
  BY <1>1, <1>2 DEF QueueOK

\* The queue without its head.
LEMMA QueueTail ==
    ASSUME TypeOK, QueueOK, waiters # << >>, waiters' = Tail(waiters)
    PROVE  /\ Head(waiters) \in Calls
           /\ pc[Head(waiters)] = "waiting"
           /\ waiters' \in Seq(Calls)
           /\ \A i \in DOMAIN waiters' :
                 /\ waiters'[i] # Head(waiters)
                 /\ pc[waiters'[i]] = "waiting"
           /\ \A i, j \in DOMAIN waiters' : waiters'[i] = waiters'[j] => i = j
           /\ \A d \in Calls : pc[d] = "waiting" /\ d # Head(waiters) =>
                 \E i \in DOMAIN waiters' : waiters'[i] = d
<1>1. /\ waiters' \in Seq(Calls)
      /\ 1 \in DOMAIN waiters
      /\ Head(waiters) = waiters[1]
      /\ \A i \in DOMAIN waiters : waiters[i] \in Calls
      /\ \A i \in DOMAIN waiters' : /\ i \in Nat \ {0}
                                    /\ i + 1 \in DOMAIN waiters
                                    /\ waiters'[i] = waiters[i + 1]
      /\ \A i \in DOMAIN waiters : i \in Nat /\ (i = 1 \/ i - 1 \in DOMAIN waiters')
  BY DEF TypeOK
<1>2. \A i \in DOMAIN waiters' : i + 1 # 1
  BY <1>1
<1>3. \A i \in DOMAIN waiters' : /\ waiters'[i] # Head(waiters)
                                 /\ pc[waiters'[i]] = "waiting"
  BY <1>1, <1>2 DEF QueueOK
<1>4. \A i, j \in DOMAIN waiters' : waiters'[i] = waiters'[j] => i = j
  <2> SUFFICES ASSUME NEW i \in DOMAIN waiters', NEW j \in DOMAIN waiters',
                      waiters'[i] = waiters'[j]
               PROVE  i = j
    OBVIOUS
  <2>1. i + 1 = j + 1 /\ i \in Nat /\ j \in Nat
    BY <1>1 DEF QueueOK
  <2> QED
    BY <2>1
<1>5. ASSUME NEW d \in Calls, pc[d] = "waiting", d # Head(waiters)
      PROVE  \E i \in DOMAIN waiters' : waiters'[i] = d
  <2>1. PICK i \in DOMAIN waiters : waiters[i] = d
    BY <1>5 DEF QueueOK
  <2>2. i - 1 \in DOMAIN waiters' /\ (i - 1) + 1 = i
    BY <1>1, <1>5, <2>1
  <2> QED
    BY <1>1, <2>1, <2>2
<1> QED
  BY <1>1, <1>3, <1>4, <1>5 DEF QueueOK

\* The queue without one of its calls.
LEMMA QueueRemove ==
    ASSUME TypeOK, QueueOK, NEW k \in DOMAIN waiters,
           waiters' = RemoveAt(waiters, k)
    PROVE  /\ waiters' \in Seq(Calls)
           /\ \A i \in DOMAIN waiters' :
                 /\ waiters'[i] # waiters[k]
                 /\ pc[waiters'[i]] = "waiting"
           /\ \A i, j \in DOMAIN waiters' : waiters'[i] = waiters'[j] => i = j
           /\ \A d \in Calls : pc[d] = "waiting" /\ d # waiters[k] =>
                 \E i \in DOMAIN waiters' : waiters'[i] = d
<1> DEFINE n == Len(waiters)
           at(i) == IF i < k THEN i ELSE i + 1
<1>1. /\ waiters \in Seq(Calls)
      /\ n \in Nat
      /\ DOMAIN waiters = 1 .. n
      /\ k \in 1 .. n
      /\ \A i \in 1 .. n : waiters[i] \in Calls
  BY DEF TypeOK
<1>2. /\ waiters' \in Seq(Calls)
      /\ Len(waiters') = n - 1
      /\ \A i \in 1 .. n - 1 : waiters'[i] = waiters[at(i)]
  <2> DEFINE a == SubSeq(waiters, 1, k - 1)
             b == SubSeq(waiters, k + 1, n)
  <2>1. waiters' = a \o b
    BY DEF RemoveAt
  <2>2. /\ a \in Seq(Calls)
        /\ Len(a) = k - 1
        /\ \A i \in 1 .. k - 1 : a[i] = waiters[i]
    BY <1>1
  <2>3. /\ b \in Seq(Calls)
        /\ Len(b) = n - k
        /\ \A i \in 1 .. n - k : b[i] = waiters[k + i]
    <3>1. k + 1 \in 1 .. n + 1 /\ n \in (k + 1) - 1 .. n
      BY <1>1
    <3>2. /\ b \in Seq(Calls)
          /\ Len(b) = n - (k + 1) + 1
          /\ \A i \in 1 .. n - (k + 1) + 1 : b[i] = waiters[(k + 1) + i - 1]
      BY <1>1, <3>1, SubSeqProperties
    <3>3. n - (k + 1) + 1 = n - k /\ \A i \in 1 .. n - k : (k + 1) + i - 1 = k + i
      BY <1>1
    <3> QED
      BY <3>2, <3>3
  <2> HIDE DEF a, b, n
  <2>4. /\ waiters' \in Seq(Calls)
        /\ Len(waiters') = n - 1
        /\ \A i \in 1 .. n - 1 :
              waiters'[i] = IF i <= k - 1 THEN a[i] ELSE b[i - (k - 1)]
    <3>1. Len(a) + Len(b) = n - 1
      BY <1>1, <2>2, <2>3
    <3>2. /\ a \o b \in Seq(Calls)
          /\ Len(a \o b) = Len(a) + Len(b)
          /\ \A i \in 1 .. Len(a) + Len(b) :
                (a \o b)[i] = IF i <= Len(a) THEN a[i] ELSE b[i - Len(a)]
      BY <2>2, <2>3, ConcatProperties
    <3> QED
      BY <2>1, <2>2, <3>1, <3>2
  <2>5. ASSUME NEW i \in 1 .. n - 1
        PROVE  waiters'[i] = waiters[at(i)]
    <3>1. CASE i < k
      BY <1>1, <2>2, <2>4, <3>1
    <3>2. CASE ~(i < k)
      <4>1. i - (k - 1) \in 1 .. n - k /\ k + (i - (k - 1)) = i + 1
            /\ ~(i <= k - 1)
        BY <1>1, <3>2
      <4> QED
        BY <2>3, <2>4, <3>2, <4>1
    <3> QED
      BY <3>1, <3>2
  <2> QED
    BY <2>4, <2>5
<1> HIDE DEF n
<1>3. /\ DOMAIN waiters' = 1 .. n - 1
      /\ \A i \in 1 .. n - 1 : at(i) \in 1 .. n /\ at(i) # k
      /\ \A i, j \in 1 .. n - 1 : at(i) = at(j) => i = j
      /\ \A i \in 1 .. n : i # k => \E j \in 1 .. n - 1 : at(j) = i
  <2>1. DOMAIN waiters' = 1 .. n - 1
    BY <1>2
  <2>2. /\ \A i \in 1 .. n - 1 : at(i) \in 1 .. n /\ at(i) # k
        /\ \A i, j \in 1 .. n - 1 : at(i) = at(j) => i = j
    BY <1>1
  <2>3. ASSUME NEW i \in 1 .. n, i # k
        PROVE  \E j \in 1 .. n - 1 : at(j) = i
    <3>1. CASE i < k
      BY <1>1, <3>1
    <3>2. CASE i > k
      <4>1. i - 1 \in 1 .. n - 1 /\ at(i - 1) = i
        BY <1>1, <3>2
      <4> QED
        BY <4>1
    <3> QED
      BY <1>1, <2>3, <3>1, <3>2
  <2> QED
    BY <2>1, <2>2, <2>3
<1> HIDE DEF at
<1>4. \A i \in DOMAIN waiters' : /\ waiters'[i] # waiters[k]
                                 /\ pc[waiters'[i]] = "waiting"
  <2> SUFFICES ASSUME NEW i \in DOMAIN waiters'
               PROVE  waiters'[i] # waiters[k] /\ pc[waiters'[i]] = "waiting"
    OBVIOUS
  <2>1. waiters'[i] = waiters[at(i)] /\ at(i) \in DOMAIN waiters /\ at(i) # k
    BY <1>1, <1>2, <1>3
  <2> QED
    BY <1>1, <2>1 DEF QueueOK
<1>5. \A i, j \in DOMAIN waiters' : waiters'[i] = waiters'[j] => i = j
  <2> SUFFICES ASSUME NEW i \in DOMAIN waiters', NEW j \in DOMAIN waiters',
                      waiters'[i] = waiters'[j]
               PROVE  i = j
    OBVIOUS
  <2>1. /\ waiters[at(i)] = waiters[at(j)]
        /\ at(i) \in DOMAIN waiters
        /\ at(j) \in DOMAIN waiters
    BY <1>1, <1>2, <1>3
  <2>2. at(i) = at(j)
    BY <2>1 DEF QueueOK
  <2> QED
    BY <1>3, <2>2
<1>6. ASSUME NEW d \in Calls, pc[d] = "waiting", d # waiters[k]
      PROVE  \E i \in DOMAIN waiters' : waiters'[i] = d
  <2>1. PICK i \in DOMAIN waiters : waiters[i] = d
    BY <1>6 DEF QueueOK
  <2>2. PICK j \in 1 .. n - 1 : at(j) = i
    BY <1>1, <1>3, <1>6, <2>1
  <2> QED
    BY <1>2, <1>3, <2>1, <2>2
<1> QED
  BY <1>2, <1>4, <1>5, <1>6

-----------------------------------------------------------------------------
(* The release of a slot. *)

\* A release frees the slot of the call or hands it to the oldest waiter.
LEMMA ReleaseSteps ==
    ASSUME Inv, NEW c \in Calls, NEW label \in {"failed", "returned"},
           pc[c] \in HolderLabels, ReleaseAndGoto(c, label)
    PROVE  /\ pc' \in [Calls -> Labels]
           /\ cur' \in Nat
           /\ waiters' \in Seq(Calls)
           /\ QueueOK'
           /\ pc'[c] = label
           /\ \A d \in Calls :
                 \/ d = c
                 \/ pc'[d] = pc[d]
                 \/ pc[d] = "waiting" /\ pc'[d] = "handed"
           /\ c \notin Holders'
           /\ cur' = Cardinality(Holders')
           /\ cur' <= MaxConcurrentPDFs
           /\ waiters' # << >> => cur' = MaxConcurrentPDFs
<1>1. /\ label \in Labels /\ label \notin HolderLabels /\ label # "waiting"
      /\ pc[c] # "waiting"
      /\ c \in Holders
      /\ pc \in [Calls -> Labels]
  BY DEF HolderLabels, Labels, Holders, Inv, TypeOK
<1>2. /\ cur \in Nat /\ cur = Cardinality(Holders)
      /\ cur <= MaxConcurrentPDFs
      /\ waiters # << >> => cur = MaxConcurrentPDFs
  BY DEF Inv, TypeOK, SlotsAccounted
<1>3. Cardinality(Holders \ {c}) = cur - 1 /\ cur - 1 \in Nat
  BY <1>1, <1>2, HoldersFinite, FS_RemoveElement, FS_Subset, FS_CardinalityType
<1>4. CASE waiters = << >>
  <2>1. cur' = cur - 1 /\ Goto(c, label) /\ waiters' = waiters
    BY <1>4 DEF ReleaseAndGoto
  <2>2. /\ Holders' = Holders \ {c}
        /\ pc'[c] = label
        /\ \A d \in Calls : d # c => pc'[d] = pc[d]
    BY <1>1, <2>1, HoldersChange DEF Inv
  <2>3. QueueOK'
    BY <1>1, <2>1, QueueKept DEF Inv
  <2>4. pc' \in [Calls -> Labels]
    BY <1>1, <2>1 DEF Goto
  <2> QED
    BY <1>2, <1>3, <1>4, <2>1, <2>2, <2>3, <2>4, ProcessorAssumption
       DEF Inv, TypeOK
<1>5. CASE waiters # << >>
  <2> DEFINE h == Head(waiters)
  <2>1. /\ waiters' = Tail(waiters)
        /\ pc' = [pc EXCEPT ![c] = label, ![h] = "handed"]
        /\ cur' = cur
    BY <1>5 DEF ReleaseAndGoto
  <2>2. /\ h \in Calls
        /\ pc[h] = "waiting"
        /\ waiters' \in Seq(Calls)
        /\ \A i \in DOMAIN waiters' : waiters'[i] # h /\ pc[waiters'[i]] = "waiting"
        /\ \A i, j \in DOMAIN waiters' : waiters'[i] = waiters'[j] => i = j
        /\ \A d \in Calls : pc[d] = "waiting" /\ d # h =>
              \E i \in DOMAIN waiters' : waiters'[i] = d
    BY <1>5, <2>1, QueueTail DEF Inv
  <2> HIDE DEF h
  <2>3. /\ h # c
        /\ pc'[c] = label
        /\ pc'[h] = "handed"
        /\ \A d \in Calls : d # c /\ d # h => pc'[d] = pc[d]
        /\ pc' \in [Calls -> Labels]
    BY <1>1, <2>1, <2>2 DEF Labels
  <2>4. QueueOK'
    <3>1. \A i \in DOMAIN waiters' : waiters'[i] \in Calls
      BY <2>2
    <3> QED
      BY <1>1, <2>2, <2>3, <3>1 DEF QueueOK
  <2>5. Holders' = (Holders \ {c}) \cup {h} /\ h \notin Holders
    BY <1>1, <2>2, <2>3 DEF Holders, HolderLabels
  <2>6. Cardinality(Holders') = cur
    <3>1. IsFiniteSet(Holders \ {c}) /\ h \notin Holders \ {c}
      BY <2>5, HoldersFinite, FS_Subset
    <3>2. Cardinality(Holders') = Cardinality(Holders \ {c}) + 1
      BY <2>5, <3>1, FS_AddElement
    <3> QED
      BY <1>2, <1>3, <3>2
  <2>7. c \notin Holders'
    BY <2>3, <2>5
  <2> QED
    BY <1>2, <1>5, <2>1, <2>2, <2>3, <2>4, <2>6, <2>7
<1> QED
  BY <1>4, <1>5
-----------------------------------------------------------------------------
(* One lemma per kind of step. *)

\* Steps that move no call and touch no part of the semaphore.
LEMMA SemaphoreKept ==
    ASSUME Inv, UNCHANGED <<pc, cur, waiters>>,
           ctxDone' \subseteq Calls, memory' \subseteq Calls,
           working' \subseteq Calls, streaming' \subseteq Calls,
           UnopenedOK',
           \A c \in memory' \ Holders :
               c \in working' \cup streaming' \/ pc[c] = "metadata"
    PROVE  Inv'
<1>1. TypeOK'
  BY DEF Inv, TypeOK
<1>2. QueueOK'
  BY DEF Inv, QueueOK
<1>3. Holders' = Holders
  BY DEF Holders
<1>4. SlotsAccounted'
  BY <1>3 DEF Inv, SlotsAccounted
<1> QED
  BY <1>1, <1>2, <1>4 DEF Inv

LEMMA CancelInv ==
    ASSUME Inv, NEW c \in Calls, Cancel(c)
    PROVE  Inv'
<1>1. UnopenedOK' /\ ctxDone' \subseteq Calls
  BY DEF Cancel, Inv, UnopenedOK, TypeOK
<1> QED
  BY <1>1, SemaphoreKept DEF Cancel, Inv, TypeOK, SlotsAccounted

LEMMA BackgroundInv ==
    ASSUME Inv, NEW c \in Calls,
           WorkersExit(c) \/ WorkerAllocates(c) \/ StreamEnds(c)
    PROVE  Inv'
<1>1. UNCHANGED <<pc, cur, waiters, ctxDone>>
  BY DEF WorkersExit, WorkerAllocates, StreamEnds
<1>2. /\ memory' \subseteq Calls
      /\ working' \subseteq Calls
      /\ streaming' \subseteq Calls
      /\ memory' \cup working' \cup streaming' \subseteq memory \cup working \cup streaming
  BY DEF WorkersExit, WorkerAllocates, StreamEnds, Inv, TypeOK
<1>3. UnopenedOK'
  BY <1>1, <1>2 DEF Inv, UnopenedOK
<1>4. \A d \in memory' \ Holders :
         d \in working' \cup streaming' \/ pc[d] = "metadata"
  <2>1. CASE WorkersExit(c)
    <3> SUFFICES ASSUME NEW d \in memory' \ Holders
                 PROVE  d \in working' \cup streaming' \/ pc[d] = "metadata"
      OBVIOUS
    <3>1. CASE d # c
      BY <2>1, <3>1 DEF WorkersExit, Inv, SlotsAccounted
    <3>2. CASE d = c
      <4>1. pc[c] \in {"metadata", "returned"}
        BY <2>1, <3>2
           DEF WorkersExit, Inv, UnopenedOK, TypeOK, Labels, Holders
      <4> QED
        BY <2>1, <3>2, <4>1 DEF WorkersExit
    <3> QED
      BY <3>1, <3>2
  <2>2. CASE WorkerAllocates(c)
    BY <2>2 DEF WorkerAllocates, Inv, SlotsAccounted
  <2>3. CASE StreamEnds(c)
    BY <2>3 DEF StreamEnds, Inv, SlotsAccounted
  <2> QED
    BY <2>1, <2>2, <2>3
<1> QED
  BY <1>1, <1>2, <1>3, <1>4, SemaphoreKept DEF Inv, TypeOK

\* A call that holds a slot goes on with it, or one without a slot goes on
\* without: the semaphore is not touched.
LEMMA CallKeepsSlot ==
    ASSUME Inv, NEW c \in Calls, NEW label \in Labels, Goto(c, label),
           pc[c] # "waiting", label # "waiting",
           pc[c] \in HolderLabels <=> label \in HolderLabels,
           UNCHANGED <<ctxDone, cur, waiters>>,
           memory' \subseteq Calls, working' \subseteq Calls,
           streaming' \subseteq Calls,
           \A d \in Calls : d # c =>
               /\ d \in memory' <=> d \in memory
               /\ d \in working' <=> d \in working
               /\ d \in streaming' <=> d \in streaming,
           label \in {"idle", "handed", "acquired", "failed"} =>
               c \notin memory' \cup working' \cup streaming',
           c \in memory' /\ label \notin HolderLabels =>
               c \in working' \cup streaming' \/ label = "metadata"
    PROVE  Inv'
<1>1. /\ pc'[c] = label
      /\ \A d \in Calls : d # c => pc'[d] = pc[d]
      /\ pc \in [Calls -> Labels]
      /\ pc' \in [Calls -> Labels]
  BY HoldersChange DEF Inv, TypeOK, Goto
<1>2. Holders' = Holders
  BY <1>1 DEF Holders, HolderLabels
<1>3. TypeOK'
  BY <1>1 DEF Inv, TypeOK
<1>4. QueueOK'
  BY QueueKept DEF Inv
<1>5. UnopenedOK'
  BY <1>1 DEF Inv, UnopenedOK
<1>6. \A d \in memory' \ Holders' :
         d \in working' \cup streaming' \/ pc'[d] = "metadata"
  <2> SUFFICES ASSUME NEW d \in memory' \ Holders'
               PROVE  d \in working' \cup streaming' \/ pc'[d] = "metadata"
    OBVIOUS
  <2>1. CASE d = c
    BY <1>1, <2>1 DEF Holders, HolderLabels
  <2>2. CASE d # c
    BY <1>1, <1>2, <2>2 DEF Inv, SlotsAccounted
  <2> QED
    BY <2>1, <2>2
<1>7. SlotsAccounted'
  BY <1>2, <1>6 DEF Inv, SlotsAccounted
<1> QED
  BY <1>3, <1>4, <1>5, <1>7 DEF Inv

\* The steps of a call between its acquire and its release, and those of Metadata.
LEMMA CallInv ==
    ASSUME Inv, NEW c \in Calls,
           \/ Open(c)
           \/ Collected(c)
           \/ ResetAllocator(c)
           \/ StreamReturns(c)
           \/ MetadataOpen(c)
           \/ MetadataReturns(c)
    PROVE  Inv'
<1>1. memory \subseteq Calls /\ working \subseteq Calls /\ streaming \subseteq Calls
  BY DEF Inv, TypeOK
<1>2. CASE Open(c)
  <2>1. /\ pc[c] = "acquired"
        /\ Goto(c, "reset") \/ Goto(c, "running")
        /\ memory' = memory \cup {c}
        /\ working' \in {working, working \cup {c}}
        /\ UNCHANGED <<ctxDone, cur, waiters, streaming>>
    BY <1>2 DEF Open
  <2> QED
    BY <1>1, <2>1, CallKeepsSlot DEF Labels, HolderLabels
<1>3. CASE Collected(c)
  BY <1>1, <1>3, CallKeepsSlot DEF Collected, Labels, HolderLabels
<1>4. CASE ResetAllocator(c)
  BY <1>1, <1>4, CallKeepsSlot DEF ResetAllocator, Labels, HolderLabels
<1>5. CASE StreamReturns(c)
  BY <1>1, <1>5, CallKeepsSlot DEF StreamReturns, Labels, HolderLabels
<1>6. CASE MetadataOpen(c)
  <2>1. c \notin memory \cup working \cup streaming
    BY <1>6 DEF MetadataOpen, Inv, UnopenedOK
  <2> QED
    BY <1>1, <1>6, <2>1, CallKeepsSlot DEF MetadataOpen, Labels, HolderLabels
<1>7. CASE MetadataReturns(c)
  BY <1>1, <1>7, CallKeepsSlot DEF MetadataReturns, Labels, HolderLabels
<1> QED
  BY <1>2, <1>3, <1>4, <1>5, <1>6, <1>7

\* A release preserves the invariant if the call keeps no memory, except what its
\* goroutines use.
LEMMA ReleaseInv ==
    ASSUME Inv, NEW c \in Calls, NEW label \in {"failed", "returned"},
           pc[c] \in HolderLabels, ReleaseAndGoto(c, label),
           UNCHANGED <<ctxDone, working, streaming>>,
           memory' \subseteq memory, memory \ memory' \subseteq {c},
           label = "failed" => c \notin memory \cup working \cup streaming,
           c \in memory' => c \in working \cup streaming
    PROVE  Inv'
<1>1. /\ pc' \in [Calls -> Labels]
      /\ cur' \in Nat
      /\ waiters' \in Seq(Calls)
      /\ QueueOK'
      /\ pc'[c] = label
      /\ \A d \in Calls :
            \/ d = c
            \/ pc'[d] = pc[d]
            \/ pc[d] = "waiting" /\ pc'[d] = "handed"
      /\ c \notin Holders'
      /\ cur' = Cardinality(Holders')
      /\ cur' <= MaxConcurrentPDFs
      /\ waiters' # << >> => cur' = MaxConcurrentPDFs
  BY ReleaseSteps
<1>2. TypeOK'
  BY <1>1 DEF Inv, TypeOK
<1>3. UnopenedOK'
  BY <1>1 DEF Inv, UnopenedOK
<1>4. \A d \in memory' \ Holders' :
         d \in working' \cup streaming' \/ pc'[d] = "metadata"
  <2> SUFFICES ASSUME NEW d \in memory' \ Holders', d # c
               PROVE  d \in working \cup streaming \/ pc'[d] = "metadata"
    OBVIOUS
  <2>1. d \in Calls /\ d \in memory
    BY DEF Inv, TypeOK
  <2>2. CASE pc'[d] = pc[d]
    BY <2>1, <2>2 DEF Holders, Inv, SlotsAccounted
  <2>3. CASE pc'[d] = "handed"
    BY <2>1, <2>3 DEF Holders
  <2> QED
    BY <1>1, <2>1, <2>2, <2>3
<1> QED
  BY <1>1, <1>2, <1>3, <1>4 DEF Inv, SlotsAccounted

LEMMA GiveBackInv ==
    ASSUME Inv, NEW c \in Calls, OpenFails(c) \/ Release(c) \/ Wake(c)
    PROVE  Inv'
<1>1. CASE OpenFails(c)
  <2>1. c \notin memory \cup working \cup streaming
    BY <1>1 DEF OpenFails, Inv, UnopenedOK
  <2> QED
    BY <1>1, <2>1, ReleaseInv DEF OpenFails, HolderLabels
<1>2. CASE Release(c)
  <2>1. /\ memory' \subseteq memory /\ memory \ memory' \subseteq {c}
        /\ c \in memory' => c \in working \cup streaming
    BY <1>2 DEF Release
  <2> QED
    BY <1>2, <2>1, ReleaseInv DEF Release, HolderLabels
<1>3. CASE Wake(c)
  <2>1. c \notin memory \cup working \cup streaming
    BY <1>3 DEF Wake, Inv, UnopenedOK
  <2>2. CASE ReleaseAndGoto(c, "failed")
    BY <1>3, <2>1, <2>2, ReleaseInv DEF Wake, HolderLabels
  <2>3. CASE Goto(c, "acquired") /\ UNCHANGED <<cur, waiters>>
    BY <1>3, <2>1, <2>3, CallKeepsSlot DEF Wake, HolderLabels, Labels, Inv, TypeOK
  <2> QED
    BY <1>3, <2>2, <2>3 DEF Wake
<1> QED
  BY <1>1, <1>2, <1>3

\* A call that asks for a slot fails, gets one that is free, or joins the queue.
LEMMA AcquireSlotInv ==
    ASSUME Inv, NEW c \in Calls, AcquireSlot(c)
    PROVE  Inv'
<1>1. /\ pc[c] = "idle"
      /\ UNCHANGED <<ctxDone, memory, working, streaming>>
      /\ c \notin memory \cup working \cup streaming
  BY DEF AcquireSlot, Inv, UnopenedOK
<1>2. /\ memory \subseteq Calls /\ working \subseteq Calls /\ streaming \subseteq Calls
      /\ waiters \in Seq(Calls)
      /\ pc \in [Calls -> Labels]
      /\ cur \in Nat
      /\ cur = Cardinality(Holders)
      /\ cur <= MaxConcurrentPDFs
  BY DEF Inv, TypeOK, SlotsAccounted
<1>3. CASE Goto(c, "failed") /\ UNCHANGED <<cur, waiters>>
  BY <1>1, <1>2, <1>3, CallKeepsSlot DEF HolderLabels, Labels
<1>4. ASSUME NEW label \in {"acquired", "waiting"}, Goto(c, label)
      PROVE  /\ UnopenedOK'
             /\ pc' \in [Calls -> Labels]
             /\ pc'[c] = label
             /\ \A d \in Calls : d # c => pc'[d] = pc[d]
             /\ \A d \in memory' \ Holders' :
                   d \in working' \cup streaming' \/ pc'[d] = "metadata"
  <2>1. /\ pc'[c] = label
        /\ \A d \in Calls : d # c => pc'[d] = pc[d]
        /\ pc' \in [Calls -> Labels]
    BY <1>2, <1>4, HoldersChange DEF Inv, Goto, Labels
  <2>2. UnopenedOK'
    BY <1>1, <2>1 DEF Inv, UnopenedOK
  <2>3. \A d \in memory' \ Holders' : d # c /\ d \in memory \ Holders
    BY <1>1, <1>2, <2>1 DEF Holders
  <2> QED
    BY <1>1, <1>2, <2>1, <2>2, <2>3 DEF Inv, SlotsAccounted
<1>5. CASE /\ cur < MaxConcurrentPDFs
           /\ waiters = << >>
           /\ cur' = cur + 1
           /\ Goto(c, "acquired")
           /\ UNCHANGED waiters
  <2>1. Holders' = Holders \cup {c} /\ c \notin Holders
    BY <1>1, <1>5, HoldersChange DEF Inv, HolderLabels, Holders
  <2>2. Cardinality(Holders') = cur + 1
    BY <1>2, <2>1, HoldersFinite, FS_AddElement
  <2>3. QueueOK'
    BY <1>1, <1>5, QueueKept DEF Inv
  <2>4. TypeOK'
    BY <1>1, <1>2, <1>4, <1>5 DEF TypeOK, Inv
  <2>5. SlotsAccounted'
    BY <1>1, <1>2, <1>4, <1>5, <2>2, ProcessorAssumption DEF SlotsAccounted
  <2> QED
    BY <1>4, <1>5, <2>3, <2>4, <2>5 DEF Inv
<1>6. CASE /\ cur >= MaxConcurrentPDFs \/ waiters # << >>
           /\ waiters' = Append(waiters, c)
           /\ Goto(c, "waiting")
           /\ UNCHANGED cur
  <2>1. Holders' = Holders
    BY <1>1, <1>6, HoldersChange DEF Inv, HolderLabels, Holders
  <2>2. /\ waiters' \in Seq(Calls)
        /\ Len(waiters) \in Nat
        /\ DOMAIN waiters = 1 .. Len(waiters)
        /\ DOMAIN waiters' = 1 .. Len(waiters) + 1
        /\ \A i \in DOMAIN waiters : waiters'[i] = waiters[i]
        /\ waiters'[Len(waiters) + 1] = c
    BY <1>2, <1>6
  <2>3. /\ pc'[c] = "waiting"
        /\ \A d \in Calls : d # c => pc'[d] = pc[d]
    BY <1>4, <1>6
  <2>4. \A i \in DOMAIN waiters : waiters[i] \in Calls /\ waiters[i] # c
    BY <1>1, <1>2 DEF Inv, QueueOK
  <2>5. /\ \A i \in DOMAIN waiters' : i \in DOMAIN waiters \/ i = Len(waiters) + 1
        /\ \A i \in DOMAIN waiters : i \in DOMAIN waiters'
        /\ Len(waiters) + 1 \in DOMAIN waiters'
    BY <2>2
  <2>6. QueueOK'
    <3>1. \A i \in DOMAIN waiters' : pc'[waiters'[i]] = "waiting"
      BY <2>2, <2>3, <2>4, <2>5 DEF Inv, QueueOK
    <3>2. \A i, j \in DOMAIN waiters' : waiters'[i] = waiters'[j] => i = j
      BY <2>2, <2>4, <2>5 DEF Inv, QueueOK
    <3>3. \A d \in Calls : pc'[d] = "waiting" =>
             \E i \in DOMAIN waiters' : waiters'[i] = d
      BY <2>2, <2>3, <2>5 DEF Inv, QueueOK
    <3> QED
      BY <3>1, <3>2, <3>3 DEF QueueOK
  <2>7. TypeOK'
    BY <1>1, <1>2, <1>4, <1>6, <2>2 DEF TypeOK, Inv
  <2>8. cur = MaxConcurrentPDFs
    BY <1>2, <1>6, ProcessorAssumption DEF Inv, SlotsAccounted
  <2>9. SlotsAccounted'
    BY <1>1, <1>2, <1>4, <1>6, <2>1, <2>8 DEF SlotsAccounted
  <2> QED
    BY <1>4, <1>6, <2>6, <2>7, <2>9 DEF Inv
<1> QED
  BY <1>3, <1>5, <1>6 DEF AcquireSlot

\* A call that gives up leaves the queue; no slot is free then, so nobody has to
\* be woken.
LEMMA GiveUpInv ==
    ASSUME Inv, NEW c \in Calls, GiveUp(c)
    PROVE  Inv'
<1>1. PICK k \in DOMAIN waiters :
         waiters[k] = c /\ waiters' = RemoveAt(waiters, k)
  BY DEF GiveUp
<1>2. /\ pc[c] = "waiting"
      /\ Goto(c, "failed")
      /\ UNCHANGED <<ctxDone, cur, memory, working, streaming>>
  BY DEF GiveUp
<1>3. /\ waiters' \in Seq(Calls)
      /\ \A i \in DOMAIN waiters' : waiters'[i] # c /\ pc[waiters'[i]] = "waiting"
      /\ \A i, j \in DOMAIN waiters' : waiters'[i] = waiters'[j] => i = j
      /\ \A d \in Calls : pc[d] = "waiting" /\ d # c =>
            \E i \in DOMAIN waiters' : waiters'[i] = d
  BY <1>1, QueueRemove DEF Inv
<1>4. /\ Holders' = Holders
      /\ pc'[c] = "failed"
      /\ \A d \in Calls : d # c => pc'[d] = pc[d]
      /\ pc' \in [Calls -> Labels]
  BY <1>2, HoldersChange DEF Inv, HolderLabels, Holders, Goto, TypeOK, Labels
<1>5. QueueOK'
  <2>1. \A i \in DOMAIN waiters' : waiters'[i] \in Calls
    BY <1>3
  <2> QED
    BY <1>3, <1>4, <2>1 DEF QueueOK
<1>6. TypeOK'
  BY <1>2, <1>3, <1>4 DEF Inv, TypeOK
<1>7. UnopenedOK'
  BY <1>2, <1>4 DEF Inv, UnopenedOK
<1>8. waiters # << >>
  BY <1>1
<1>9. c \notin memory
  BY <1>2 DEF Inv, UnopenedOK
<1>10. \A d \in memory' \ Holders' :
          d \in working' \cup streaming' \/ pc'[d] = "metadata"
  BY <1>2, <1>4, <1>9 DEF Inv, SlotsAccounted, TypeOK
<1>11. SlotsAccounted'
  BY <1>2, <1>4, <1>8, <1>10 DEF Inv, SlotsAccounted
<1> QED
  BY <1>5, <1>6, <1>7, <1>11 DEF Inv

-----------------------------------------------------------------------------
(* The theorems. *)

LEMMA StepInv == Inv /\ [Next]_vars => Inv'
<1> SUFFICES ASSUME Inv, [Next]_vars PROVE Inv'
  OBVIOUS
<1>1. ASSUME NEW c \in Calls,
             \/ Cancel(c)
             \/ CallStep(c)
             \/ WorkersExit(c)
             \/ WorkerAllocates(c)
             \/ StreamEnds(c)
      PROVE  Inv'
  BY <1>1, CancelInv, BackgroundInv, CallInv, GiveBackInv, AcquireSlotInv,
     GiveUpInv DEF CallStep
<1>2. CASE UNCHANGED vars
  <2>1. UnopenedOK'
    BY <1>2 DEF vars, Inv, UnopenedOK
  <2> QED
    BY <1>2, <2>1, SemaphoreKept DEF vars, Inv, TypeOK, SlotsAccounted
<1> QED
  BY <1>1, <1>2 DEF Next

\* The inductive invariant of the calls holds in every reachable state.
THEOREM Invariant == Spec => []Inv
BY InitInv, StepInv, PTL DEF Spec

\* Every slot in use belongs to one call, there are never more than allowed, no
\* call waits while one is free, and memory without a slot has its reason.
THEOREM SlotsAccountedCorrect == Spec => []SlotsAccounted
<1>1. Inv => SlotsAccounted
  BY DEF Inv
<1> QED
  BY <1>1, Invariant, PTL

\* The queue holds exactly the calls that wait, each once: none is forgotten.
THEOREM QueueCorrect == Spec => []QueueOK
<1>1. Inv => QueueOK
  BY DEF Inv
<1> QED
  BY <1>1, Invariant, PTL
=============================================================================
