-------------------------- MODULE FutureQueueProofs --------------------------
(***************************************************************************)
(* For every capacity and every set of futures, the ring buffer keeps its  *)
(* invariants and implements the bounded FIFO.                             *)
(***************************************************************************)
EXTENDS FutureQueue, SequenceTheorems, TLAPS

QueueInv ==
  /\ QueueTypeOK
  /\ TailFollowsSize
  /\ LiveSlotsAreFutures

(* The slot of the i-th oldest future: at most one wrap-around.            *)
SlotOf(i) == IF head + i - 1 < MaxQueueSize THEN head + i - 1
                                            ELSE head + i - 1 - MaxQueueSize

LEMMA LiveSlot ==
  ASSUME QueueTypeOK, NEW i \in 1 .. MaxQueueSize
  PROVE  /\ (head + i - 1) % MaxQueueSize = SlotOf(i)
         /\ SlotOf(i) \in Slots
<1>1. head \in Nat /\ head < MaxQueueSize
  BY CapacityAssumption DEF QueueTypeOK, Slots
<1>2. QED
  BY <1>1, CapacityAssumption, SMT DEF SlotOf, Slots

(* Two live slots are never the same one.                                  *)
LEMMA SlotsDiffer ==
  ASSUME QueueTypeOK, NEW i \in 1 .. MaxQueueSize, NEW j \in 1 .. MaxQueueSize
  PROVE  SlotOf(i) = SlotOf(j) => i = j
BY CapacityAssumption, SMT DEF QueueTypeOK, Slots, SlotOf

LEMMA NextSlotWraps ==
  ASSUME NEW s \in Slots
  PROVE  /\ NextSlot(s) = IF s = MaxQueueSize - 1 THEN 0 ELSE s + 1
         /\ NextSlot(s) \in Slots
BY CapacityAssumption, SMT DEF NextSlot, Slots

LEMMA ContentsProperties ==
  ASSUME QueueInv
  PROVE  /\ Contents \in Seq(Futures)
         /\ Len(Contents) = size
         /\ \A i \in 1 .. size : Contents[i] = futures[SlotOf(i)]
<1>1. size \in Nat /\ size <= MaxQueueSize
  BY CapacityAssumption DEF QueueInv, QueueTypeOK
<1>2. Contents \in [1 .. size -> Futures]
  BY DEF QueueInv, LiveSlotsAreFutures, Contents
<1>3. Contents \in Seq(Futures) /\ Len(Contents) = size
  BY <1>1, <1>2, SeqDef, LenProperties DEF Contents
<1>4. ASSUME NEW i \in 1 .. size
      PROVE  Contents[i] = futures[SlotOf(i)]
  BY <1>1, <1>4, LiveSlot, CapacityAssumption DEF QueueInv, Contents
<1>5. QED
  BY <1>3, <1>4
-----------------------------------------------------------------------------

(* A push that is accepted appends to the contents.                        *)
LEMMA StoreAppends ==
  ASSUME QueueInv, NEW f \in Futures, size # MaxQueueSize,
         futures' = [futures EXCEPT ![tail] = f], tail' = NextSlot(tail),
         size' = size + 1, head' = head
  PROVE  /\ Contents' = Append(Contents, f)
         /\ futures' \in [Slots -> Futures \union {Null}]
         /\ size' \in 0 .. MaxQueueSize
         /\ tail' \in Slots
         /\ tail' = (head + size + 1) % MaxQueueSize
<1>1. size \in 0 .. MaxQueueSize - 1
  BY CapacityAssumption DEF QueueInv, QueueTypeOK
<1>2. head \in Slots /\ tail \in Slots
  BY <1>1, CapacityAssumption DEF QueueInv, QueueTypeOK
<1>3. tail = SlotOf(size + 1)
  <2>1. (head + size) % MaxQueueSize = SlotOf(size + 1)
    BY <1>1, <1>2, CapacityAssumption, SMT DEF SlotOf, Slots
  <2>2. QED
    BY <1>1, <2>1, CapacityAssumption DEF QueueInv, TailFollowsSize
<1>4. futures' \in [Slots -> Futures \union {Null}]
  BY DEF QueueInv, QueueTypeOK
<1>5. tail' \in Slots
  BY <1>2, NextSlotWraps
<1>6. tail' = (head + size + 1) % MaxQueueSize
  BY <1>1, <1>2, <1>3, CapacityAssumption, NextSlotWraps, SMT
     DEF SlotOf, Slots
<1>7. Contents' = Append(Contents, f)
  <2>1. ASSUME NEW i \in 1 .. size
        PROVE  Contents'[i] = Contents[i]
    <3>1. i \in 1 .. MaxQueueSize /\ size + 1 \in 1 .. MaxQueueSize /\ i # size + 1
      BY <1>1, CapacityAssumption
    <3>2. SlotOf(i) \in Slots /\ SlotOf(i) # tail
      BY <1>3, <3>1, LiveSlot, SlotsDiffer DEF QueueInv
    <3>3. futures'[SlotOf(i)] = futures[SlotOf(i)]
      BY <3>2 DEF QueueInv, QueueTypeOK
    <3>4. (head + i - 1) % MaxQueueSize = SlotOf(i)
      BY <3>1, LiveSlot DEF QueueInv
    <3>5. i \in 1 .. size'
      BY <1>1
    <3>6. QED
      BY <3>3, <3>4, <3>5 DEF Contents
  <2>2. Contents'[size + 1] = f
    <3>1. size + 1 \in 1 .. MaxQueueSize /\ size + 1 \in 1 .. size'
      BY <1>1, CapacityAssumption
    <3>2. (head + (size + 1) - 1) % MaxQueueSize = tail
      BY <1>3, <3>1, LiveSlot DEF QueueInv
    <3>3. QED
      BY <1>2, <3>1, <3>2 DEF QueueInv, QueueTypeOK, Contents
  <2>3. /\ Contents \in Seq(Futures)
        /\ Len(Contents) = size
    BY ContentsProperties
  <2>4. /\ Contents' \in Seq(Futures)
        /\ Len(Contents') = size + 1
    <3>1. ASSUME NEW i \in 1 .. size + 1
          PROVE  Contents'[i] \in Futures
      <4>1. CASE i = size + 1
        BY <2>2, <4>1
      <4>2. CASE i \in 1 .. size
        BY <2>1, <4>2 DEF QueueInv, LiveSlotsAreFutures
      <4>3. QED
        BY <1>1, <4>1, <4>2, CapacityAssumption
    <3>2. Contents' \in [1 .. size + 1 -> Futures]
      BY <3>1 DEF Contents
    <3>3. QED
      BY <1>1, <3>2, SeqDef, LenProperties, CapacityAssumption DEF Contents
  <2>5. /\ Append(Contents, f) \in Seq(Futures)
        /\ Len(Append(Contents, f)) = size + 1
        /\ \A i \in 1 .. size : Append(Contents, f)[i] = Contents[i]
        /\ Append(Contents, f)[size + 1] = f
    BY <2>3, AppendProperties
  <2>6. \A i \in 1 .. size + 1 : Contents'[i] = Append(Contents, f)[i]
    BY <1>1, <2>1, <2>2, <2>5, CapacityAssumption
  <2>7. QED
    BY <2>4, <2>5, <2>6, SeqEqual
<1>8. QED
  BY <1>1, <1>4, <1>5, <1>6, <1>7, CapacityAssumption

(* A pop that finds something takes the head of the contents.              *)
LEMMA TakeRemovesHead ==
  ASSUME QueueInv, size # 0,
         head' = NextSlot(head), size' = size - 1, futures' = futures
  PROVE  /\ Contents # <<>>
         /\ futures[head] = Head(Contents)
         /\ Contents' = Tail(Contents)
         /\ size' \in 0 .. MaxQueueSize
         /\ head' \in Slots
         /\ tail = (head' + size') % MaxQueueSize
<1>1. size \in 1 .. MaxQueueSize
  BY CapacityAssumption DEF QueueInv, QueueTypeOK
<1>2. head \in Slots /\ tail \in Slots
  BY <1>1, CapacityAssumption DEF QueueInv, QueueTypeOK
<1>3. /\ Contents \in Seq(Futures)
      /\ Len(Contents) = size
      /\ \A i \in 1 .. size : Contents[i] = futures[SlotOf(i)]
  BY ContentsProperties
<1>4. Contents # <<>>
  BY <1>1, <1>3
<1>5. futures[head] = Head(Contents)
  <2>1. SlotOf(1) = head
    BY <1>2, CapacityAssumption DEF SlotOf, Slots
  <2>2. Head(Contents) = Contents[1]
    BY <1>3, <1>4
  <2>3. QED
    BY <1>1, <1>3, <2>1, <2>2
<1>6. head' \in Slots
  BY <1>2, NextSlotWraps
<1>7. tail = (head' + size') % MaxQueueSize
  <2>1. tail = (head + size) % MaxQueueSize
    BY <1>1, CapacityAssumption DEF QueueInv, TailFollowsSize
  <2>2. head' = IF head = MaxQueueSize - 1 THEN 0 ELSE head + 1
    BY <1>2, NextSlotWraps
  <2>3. QED
    BY <1>1, <1>2, <2>1, <2>2, CapacityAssumption, SMT DEF Slots
<1>8. Contents' = Tail(Contents)
  <2>1. /\ Tail(Contents) \in Seq(Futures)
        /\ Len(Tail(Contents)) = size - 1
        /\ \A i \in 1 .. size - 1 : Tail(Contents)[i] = Contents[i + 1]
    BY <1>3, <1>4, HeadTailProperties
  <2>2. ASSUME NEW i \in 1 .. size - 1
        PROVE  Contents'[i] = Contents[i + 1]
    <3>1. i \in 1 .. MaxQueueSize /\ i + 1 \in 1 .. size /\ i \in 1 .. size'
      BY <1>1, CapacityAssumption
    <3>2. (head' + i - 1) % MaxQueueSize = SlotOf(i + 1)
      <4>1. head' = IF head = MaxQueueSize - 1 THEN 0 ELSE head + 1
        BY <1>2, NextSlotWraps
      <4>2. QED
        BY <1>1, <1>2, <3>1, <4>1, CapacityAssumption, SMT DEF SlotOf, Slots
    <3>3. QED
      BY <1>3, <3>1, <3>2 DEF Contents
  <2>3. ASSUME NEW i \in 1 .. size - 1
        PROVE  Contents'[i] \in Futures
    <3>1. i + 1 \in 1 .. size
      BY <1>1, CapacityAssumption
    <3>2. QED
      BY <2>2, <3>1 DEF QueueInv, LiveSlotsAreFutures
  <2>4. Contents' \in [1 .. size - 1 -> Futures]
    BY <2>3 DEF Contents
  <2>5. Contents' \in Seq(Futures) /\ Len(Contents') = size - 1
    BY <1>1, <2>4, SeqDef, LenProperties, CapacityAssumption DEF Contents
  <2>6. QED
    BY <2>1, <2>2, <2>5, SeqEqual
<1>9. QED
  BY <1>1, <1>4, <1>5, <1>6, <1>7, <1>8, CapacityAssumption

(* The loop of waker_wake() finds exactly the futures in the contents.     *)
LEMMA SearchFindsContents ==
  ASSUME QueueInv, NEW f
  PROVE  (\E i \in 0 .. size - 1 : futures[(head + i) % MaxQueueSize] = f)
           <=> Holds(Contents, f)
<1>1. size \in Nat
  BY DEF QueueInv, QueueTypeOK
<1>2. Range(Contents) = {Contents[i] : i \in 1 .. size}
  BY DEF Range, Contents
<1>3. ASSUME NEW i \in 0 .. size - 1, futures[(head + i) % MaxQueueSize] = f
      PROVE  Contents[i + 1] = f /\ i + 1 \in 1 .. size
  <2>1. i + 1 \in 1 .. size /\ head + (i + 1) - 1 = head + i
    BY <1>1 DEF QueueInv, QueueTypeOK
  <2>2. QED
    BY <1>3, <2>1 DEF Contents
<1>4. ASSUME NEW i \in 1 .. size, Contents[i] = f
      PROVE  futures[(head + (i - 1)) % MaxQueueSize] = f /\ i - 1 \in 0 .. size - 1
  <2>1. i - 1 \in 0 .. size - 1 /\ head + (i - 1) = head + i - 1
    BY <1>1 DEF QueueInv, QueueTypeOK
  <2>2. QED
    BY <1>4, <2>1 DEF Contents
<1>5. QED
  BY <1>2, <1>3, <1>4 DEF Holds
-----------------------------------------------------------------------------

LEMMA QueueInvInit == QueueInit => QueueInv
<1> SUFFICES ASSUME QueueInit
             PROVE  QueueInv
  OBVIOUS
<1>1. QueueTypeOK
  BY CapacityAssumption DEF QueueInit, QueueTypeOK, Slots
<1>2. TailFollowsSize
  BY CapacityAssumption, SMT DEF QueueInit, TailFollowsSize
<1>3. LiveSlotsAreFutures
  BY DEF QueueInit, LiveSlotsAreFutures
<1>4. QED
  BY <1>1, <1>2, <1>3 DEF QueueInv

LEMMA QueueInvStep == QueueInv /\ [QueueNext]_queueVars => QueueInv'
<1> SUFFICES ASSUME QueueInv, [QueueNext]_queueVars
             PROVE  QueueInv'
  OBVIOUS
<1>1. ASSUME UNCHANGED <<futures, size, head, tail>>,
             ret' \in BOOLEAN \union Futures \union {Null}
      PROVE  QueueInv'
  BY <1>1 DEF QueueInv, QueueTypeOK, TailFollowsSize, LiveSlotsAreFutures,
     Contents, Slots
<1>2. ASSUME NEW f \in Futures \union {Null}, QueuePush(f)
      PROVE  QueueInv'
  <2>1. CASE f = Null \/ size = MaxQueueSize
    BY <1>1, <1>2, <2>1 DEF QueuePush
  <2>2. CASE ~(f = Null \/ size = MaxQueueSize)
    <3>1. /\ Contents' = Append(Contents, f)
          /\ futures' \in [Slots -> Futures \union {Null}]
          /\ size' \in 0 .. MaxQueueSize
          /\ tail' \in Slots
          /\ tail' = (head + size + 1) % MaxQueueSize
      BY <1>2, <2>2, StoreAppends DEF QueuePush
    <3>2. QueueTypeOK'
      <4>1. tail' \in Nat
        BY <3>1, CapacityAssumption DEF Slots
      <4>2. head' = head /\ ret' = TRUE
        BY <1>2, <2>2 DEF QueuePush
      <4>3. ret' \in BOOLEAN \union Futures \union {Null}
        BY <4>2, Zenon
      <4>4. Slots' = Slots
        BY DEF Slots
      <4>5. QED
        BY <3>1, <4>1, <4>2, <4>3, <4>4 DEF QueueInv, QueueTypeOK
    <3>3. TailFollowsSize'
      <4>1. head' = head /\ size' = size + 1 /\ head \in Nat /\ size \in Nat
        BY <1>2, <2>2 DEF QueuePush, QueueInv, QueueTypeOK
      <4>2. head' + size' = head + size + 1
        BY <4>1
      <4>3. QED
        BY <3>1, <4>2 DEF TailFollowsSize
    <3>4. LiveSlotsAreFutures'
      <4>1. Contents \in Seq(Futures) /\ Len(Contents) = size
        BY ContentsProperties
      <4>2. Contents' \in Seq(Futures) /\ Len(Contents') = size'
        BY <1>2, <2>2, <3>1, <4>1, AppendProperties DEF QueuePush
      <4>3. QED
        BY <4>2, ElementOfSeq DEF LiveSlotsAreFutures
    <3>5. QED
      BY <3>2, <3>3, <3>4 DEF QueueInv
  <2>3. QED
    BY <2>1, <2>2
<1>3. ASSUME QueuePop
      PROVE  QueueInv'
  <2>1. CASE size = 0
    BY <1>1, <1>3, <2>1 DEF QueuePop
  <2>2. CASE size # 0
    <3>1. /\ Contents # <<>>
          /\ futures[head] = Head(Contents)
          /\ Contents' = Tail(Contents)
          /\ size' \in 0 .. MaxQueueSize
          /\ head' \in Slots
          /\ tail = (head' + size') % MaxQueueSize
      BY <1>3, <2>2, TakeRemovesHead DEF QueuePop
    <3>2. Contents \in Seq(Futures) /\ Len(Contents) = size
      BY ContentsProperties
    <3>3. /\ ret' \in Futures
          /\ Contents' \in Seq(Futures)
          /\ Len(Contents') = size'
      BY <1>3, <2>2, <3>1, <3>2, HeadTailProperties DEF QueuePop
    <3>4. QueueTypeOK'
      <4>1. head' \in Nat
        BY <3>1, CapacityAssumption DEF Slots
      <4>2. tail' = tail /\ futures' = futures
        BY <1>3, <2>2 DEF QueuePop
      <4>3. ret' \in BOOLEAN \union Futures \union {Null}
        BY <3>3, Zenon
      <4>4. Slots' = Slots
        BY DEF Slots
      <4>5. QED
        BY <3>1, <4>1, <4>2, <4>3, <4>4 DEF QueueInv, QueueTypeOK
    <3>5. TailFollowsSize'
      BY <1>3, <2>2, <3>1 DEF QueuePop, TailFollowsSize
    <3>6. LiveSlotsAreFutures'
      BY <3>3, ElementOfSeq DEF LiveSlotsAreFutures
    <3>7. QED
      BY <3>4, <3>5, <3>6 DEF QueueInv
  <2>3. QED
    BY <2>1, <2>2
<1>4. ASSUME NEW f \in Futures, WakerSearch(f)
      PROVE  QueueInv'
  <2>1. ret' \in BOOLEAN
    BY <1>4 DEF WakerSearch
  <2>2. QED
    BY <1>1, <1>4, <2>1 DEF WakerSearch
<1>5. CASE UNCHANGED queueVars
  BY <1>1, <1>5 DEF queueVars, QueueInv, QueueTypeOK
<1>6. QED
  BY <1>2, <1>3, <1>4, <1>5 DEF QueueNext

LEMMA QueueInvariant == QueueSpec => []QueueInv
BY QueueInvInit, QueueInvStep, PTL DEF QueueSpec

(* The fields of the buffer stay in range: no push or pop leaves the array *)
(* that queue_create() allocated.                                          *)
THEOREM QueueTypeCorrect == QueueSpec => []QueueTypeOK
BY QueueInvariant, PTL DEF QueueInv

(* No pop returns a stale or a NULL slot to executor_run().                *)
THEOREM PoppedIsAFuture == QueueSpec => []LiveSlotsAreFutures
BY QueueInvariant, PTL DEF QueueInv

(* head, tail and size never disagree.                                     *)
THEOREM TailIsRedundant == QueueSpec => []TailFollowsSize
BY QueueInvariant, PTL DEF QueueInv
-----------------------------------------------------------------------------

LEMMA FifoInitHolds == QueueInit => Fifo!FifoInit
<1> SUFFICES ASSUME QueueInit
             PROVE  Fifo!FifoInit
  OBVIOUS
<1>1. Contents \in Seq(Futures) /\ Len(Contents) = 0
  BY QueueInvInit, ContentsProperties DEF QueueInit
<1>2. Contents = <<>>
  BY <1>1, EmptySeq
<1>3. QED
  BY <1>2 DEF QueueInit, Fifo!FifoInit

(* Every step of the buffer is the same step of the FIFO.                  *)
LEMMA FifoStepHolds ==
  QueueInv /\ [QueueNext]_queueVars => [Fifo!FifoNext]_(Fifo!fifoVars)
<1> SUFFICES ASSUME QueueInv, [QueueNext]_queueVars
             PROVE  [Fifo!FifoNext]_(Fifo!fifoVars)
  OBVIOUS
<1> USE DEF Fifo!Full, Full, Fifo!Pushed, Pushed, Fifo!Holds, Holds
<1>1. Contents \in Seq(Futures) /\ Len(Contents) = size
  BY ContentsProperties
<1>2. ASSUME UNCHANGED <<futures, size, head, tail>>
      PROVE  Contents' = Contents
  BY <1>2 DEF Contents
<1>3. ASSUME NEW f \in Futures \union {Null}, QueuePush(f)
      PROVE  Fifo!FifoPush(f)
  <2>1. CASE f = Null \/ size = MaxQueueSize
    BY <1>1, <1>2, <1>3, <2>1 DEF QueuePush, Fifo!FifoPush
  <2>2. CASE ~(f = Null \/ size = MaxQueueSize)
    <3>1. Contents' = Append(Contents, f)
      BY <1>3, <2>2, StoreAppends DEF QueuePush
    <3>2. QED
      BY <1>1, <1>3, <2>2, <3>1 DEF QueuePush, Fifo!FifoPush
  <2>3. QED
    BY <2>1, <2>2
<1>4. ASSUME QueuePop
      PROVE  Fifo!FifoPop
  <2>1. CASE size = 0
    <3>1. Contents = <<>>
      BY <1>1, <2>1, EmptySeq
    <3>2. QED
      BY <1>2, <1>4, <2>1, <3>1 DEF QueuePop, Fifo!FifoPop
  <2>2. CASE size # 0
    BY <1>4, <2>2, TakeRemovesHead DEF QueuePop, Fifo!FifoPop
  <2>3. QED
    BY <2>1, <2>2
<1>5. ASSUME NEW f \in Futures, WakerSearch(f)
      PROVE  Fifo!FifoFind(f)
  <2>1. Fifo!Holds(Contents, f) = Holds(Contents, f)
    BY DEF Fifo!Range, Range
  <2>2. Holds(Contents, f) \in BOOLEAN
    OBVIOUS
  <2>3. (\E i \in 0 .. size - 1 : futures[(head + i) % MaxQueueSize] = f)
          = Holds(Contents, f)
    BY <2>2, SearchFindsContents
  <2>4. ret' = Fifo!Holds(Contents, f)
    BY <1>5, <2>1, <2>3 DEF WakerSearch
  <2>5. QED
    BY <1>2, <1>5, <2>4 DEF WakerSearch, Fifo!FifoFind
<1>6. CASE UNCHANGED queueVars
  BY <1>2, <1>6 DEF queueVars, Fifo!fifoVars
<1>7. QED
  BY <1>3, <1>4, <1>5, <1>6 DEF QueueNext, Fifo!FifoNext

(* The ring buffer implements the FIFO: the executor and the proofs about  *)
(* it may use the sequence in its place.                                   *)
THEOREM RingBufferIsFifo == QueueSpec => ImplementsFifo
BY QueueInvariant, FifoInitHolds, FifoStepHolds, PTL
   DEF QueueSpec, ImplementsFifo, Fifo!FifoSpec
=============================================================================
