--------------------------- MODULE SpscQueueProofs ---------------------------
(***************************************************************************)
(* Proofs about SpscQueue, for a ring of any size and any items: its types, *)
(* that the two threads never meet in a slot, that what is published is     *)
(* constructed, and that the ring implements the bounded FIFO.              *)
(***************************************************************************)
EXTENDS SpscQueue, SequenceTheorems, TLAPS

(* Whether a slot holds a published record, told from the two indices.       *)
Published(s) ==
  IF readIndex <= writeIndex THEN readIndex <= s /\ s < writeIndex
                             ELSE readIndex <= s \/ s < writeIndex

(* What a thread knows between its check and its store: the other thread     *)
(* can only have made more room, or more records, since.                     *)
RoomKept == Writing => NextRecord(writeIndex) # readIndex
RecordKept == Reading => readIndex # writeIndex

(* The record under construction, the published ones and the one moved out.  *)
RecordsOK ==
  /\ Writing => item \in Item
  /\ ppc = "publish" => records[writeIndex] = item
  /\ \A s \in Slot : Published(s) => records[s] \in Item
  /\ cpc = "release" => moved = records[readIndex]

(* The inductive invariant.                                                  *)
RingInv == TypeOK /\ RoomKept /\ RecordKept /\ RecordsOK
-----------------------------------------------------------------------------
(* The successor of an index stays in the ring.                              *)
LEMMA NextInRing ==
  ASSUME NEW i \in Slot
  PROVE  NextRecord(i) \in Slot /\ NextRecord(i) # i
BY SpscAssumption DEF Slot, NextRecord

(* The number of published records, and what it says at both ends.           *)
LEMMA CountFacts ==
  ASSUME TypeOK
  PROVE  /\ Count \in 0 .. Size - 1
         /\ Count = 0 <=> readIndex = writeIndex
         /\ Count = Size - 1 <=> NextRecord(writeIndex) = readIndex
BY SpscAssumption DEF TypeOK, Slot, Count, NextRecord

(* The slots of the published records, one by one.                           *)
LEMMA SlotFacts ==
  ASSUME TypeOK, NEW i \in 1 .. Count
  PROVE  SlotOf(i) \in Slot /\ Published(SlotOf(i))
BY SpscAssumption DEF TypeOK, Slot, Count, SlotOf, Published

(* The slots counted from readIndex are the published ones.                  *)
LEMMA LiveIsPublished ==
  ASSUME TypeOK
  PROVE  Live = {s \in Slot : Published(s)}
<1>1. ASSUME NEW s \in Slot, Published(s)
      PROVE  \E i \in 1 .. Count : s = SlotOf(i)
  <2>1. CASE readIndex <= s
    <3>1. s - readIndex + 1 \in 1 .. Count /\ s = SlotOf(s - readIndex + 1)
      BY <1>1, <2>1, SpscAssumption DEF TypeOK, Slot, Count, SlotOf, Published
    <3> QED
      BY <3>1
  <2>2. CASE ~(readIndex <= s)
    <3>1. s + Size - readIndex + 1 \in 1 .. Count /\ s = SlotOf(s + Size - readIndex + 1)
      BY <1>1, <2>2, SpscAssumption DEF TypeOK, Slot, Count, SlotOf, Published
    <3> QED
      BY <3>1
  <2> QED
    BY <2>1, <2>2
<1> QED
  BY <1>1, SlotFacts DEF Live
-----------------------------------------------------------------------------
(* An empty ring satisfies the invariant.                                    *)
LEMMA RingInit == Init => RingInv
<1> SUFFICES ASSUME Init
             PROVE  RingInv
  OBVIOUS
<1>1. TypeOK
  BY SpscAssumption DEF Init, TypeOK, Slot
<1>2. RoomKept /\ RecordKept
  BY DEF Init, RoomKept, RecordKept, Writing, Reading
<1>3. RecordsOK
  BY DEF Init, RecordsOK, Writing, Published, Slot
<1> QED
  BY <1>1, <1>2, <1>3 DEF RingInv

(* No load, store, construction or move breaks the invariant.                *)
LEMMA RingStep == RingInv /\ [Next]_vars => RingInv'
<1> SUFFICES ASSUME RingInv, [Next]_vars
             PROVE  RingInv'
  OBVIOUS
<1> USE DEF RingInv
<1>1. ASSUME NEW x \in Item, WriteCheck(x)
      PROVE  RingInv'
  <2>1. TypeOK'
    BY <1>1 DEF WriteCheck, TypeOK, cvars
  <2>2. RoomKept' /\ RecordKept'
    BY <1>1 DEF WriteCheck, RoomKept, RecordKept, Writing, Reading, cvars, TypeOK, NextRecord
  <2>3. RecordsOK'
    BY <1>1 DEF WriteCheck, RecordsOK, Writing, Published, cvars
  <2> QED
    BY <2>1, <2>2, <2>3
<1>2. CASE WriteConstruct
  <2>1. TypeOK'
    BY <1>2 DEF WriteConstruct, TypeOK, cvars
  <2>2. RoomKept' /\ RecordKept'
    BY <1>2 DEF WriteConstruct, RoomKept, RecordKept, Writing, Reading, cvars, NextRecord
  <2>3. RecordsOK'
    <3>1. records' = [records EXCEPT ![writeIndex] = item] /\ writeIndex \in Slot
      BY <1>2 DEF WriteConstruct, TypeOK
    <3>2. \A s \in Slot : s # writeIndex => records'[s] = records[s]
      BY <3>1 DEF TypeOK
    <3>3. records'[writeIndex] = item /\ item \in Item
      BY <1>2, <3>1 DEF WriteConstruct, RecordsOK, Writing, TypeOK
    <3>4. ~Published(writeIndex)
      BY <3>1 DEF Published, TypeOK, Slot
    <3>5. cpc = "release" => readIndex # writeIndex /\ readIndex \in Slot
      BY DEF RecordKept, Reading, TypeOK
    <3>6. UNCHANGED <<readIndex, writeIndex, item, cpc, moved>> /\ ppc' = "publish"
      BY <1>2 DEF WriteConstruct, cvars
    <3>7. \A s \in Slot : Published(s)' => records'[s] \in Item
      BY <3>2, <3>4, <3>6 DEF Published, RecordsOK
    <3>8. (cpc = "release" => moved = records[readIndex])'
      BY <3>2, <3>5, <3>6 DEF RecordsOK
    <3> QED
      BY <3>3, <3>6, <3>7, <3>8 DEF RecordsOK
  <2> QED
    BY <2>1, <2>2, <2>3
<1>3. CASE WritePublish
  <2>0. writeIndex \in Slot /\ readIndex \in Slot /\ writeIndex' = NextRecord(writeIndex)
        /\ NextRecord(writeIndex) \in Slot /\ ppc = "publish" /\ ppc' = "idle"
        /\ UNCHANGED <<records, readIndex, item, cpc, moved, rres, out>>
    BY <1>3, NextInRing DEF WritePublish, TypeOK, cvars
  <2>1. TypeOK'
    BY <1>3, <2>0 DEF WritePublish, TypeOK
  <2>2. RoomKept' /\ RecordKept'
    BY <2>0 DEF RoomKept, RecordKept, Writing, Reading
  <2>3. RecordsOK'
    <3>1. ASSUME NEW s \in Slot, Published(s)'
          PROVE  records'[s] \in Item
      <4>1. s = writeIndex \/ Published(s)
        BY <3>1, <2>0, SpscAssumption DEF Published, Slot, NextRecord, RoomKept, Writing
      <4> QED
        BY <4>1, <2>0 DEF RecordsOK, Writing
    <3> QED
      BY <3>1, <2>0 DEF RecordsOK, Writing
  <2> QED
    BY <2>1, <2>2, <2>3
<1>4. ASSUME NEW op \in {"move", "pop"}, ReadCheck(op)
      PROVE  RingInv'
  <2>1. TypeOK'
    BY <1>4 DEF ReadCheck, TypeOK, pvars
  <2>2. RoomKept' /\ RecordKept'
    BY <1>4 DEF ReadCheck, RoomKept, RecordKept, Writing, Reading, pvars, NextRecord
  <2>3. RecordsOK'
    BY <1>4 DEF ReadCheck, RecordsOK, Writing, Published, pvars
  <2> QED
    BY <2>1, <2>2, <2>3
<1>5. CASE ReadMove
  <2>1. TypeOK'
    BY <1>5 DEF ReadMove, TypeOK, pvars
  <2>2. RoomKept' /\ RecordKept'
    BY <1>5 DEF ReadMove, RoomKept, RecordKept, Writing, Reading, pvars, NextRecord
  <2>3. RecordsOK'
    BY <1>5 DEF ReadMove, RecordsOK, Writing, Published, pvars
  <2> QED
    BY <2>1, <2>2, <2>3
<1>6. CASE ReadPublish \/ PopPublish
  <2>0. writeIndex \in Slot /\ readIndex \in Slot /\ readIndex' = NextRecord(readIndex)
        /\ NextRecord(readIndex) \in Slot /\ cpc # "idle" /\ cpc' = "idle"
        /\ UNCHANGED <<records, writeIndex, item, ppc, wres, moved>>
    BY <1>6, NextInRing DEF ReadPublish, PopPublish, TypeOK, pvars
  <2>1. TypeOK'
    BY <1>6, <2>0 DEF ReadPublish, PopPublish, TypeOK
  <2>2. RoomKept' /\ RecordKept'
    BY <2>0, SpscAssumption DEF RoomKept, RecordKept, Writing, Reading, NextRecord, Slot
  <2>3. RecordsOK'
    <3>1. ASSUME NEW s \in Slot, Published(s)'
          PROVE  Published(s)
      BY <3>1, <2>0, SpscAssumption DEF Published, Slot, NextRecord, RecordKept, Reading
    <3> QED
      BY <3>1, <2>0 DEF RecordsOK, Writing
  <2> QED
    BY <2>1, <2>2, <2>3
<1>7. CASE UNCHANGED vars
  BY <1>7 DEF vars, TypeOK, RoomKept, RecordKept, RecordsOK, Writing, Reading, Published, NextRecord
<1> QED
  BY <1>1, <1>2, <1>3, <1>4, <1>5, <1>6, <1>7 DEF Next, Producer, Consumer

(* The invariant holds in every state.                                       *)
THEOREM RingInvariant == Spec => []RingInv
BY RingInit, RingStep, PTL DEF Spec

(* The indices stay in the ring and every variable keeps its type            *)
(* (ProducerConsumerQueue.h:90-122).                                         *)
THEOREM TypeCorrect == Spec => []TypeOK
<1>1. RingInv => TypeOK
  BY DEF RingInv
<1> QED
  BY <1>1, RingInvariant, PTL

(* The two threads never touch the same slot                                 *)
(* (ProducerConsumerQueue.h:96-98 and :109-120).                             *)
THEOREM NoSlotRaceHolds == Spec => []NoSlotRace
<1>1. RingInv => NoSlotRace
  <2> SUFFICES ASSUME RingInv
               PROVE  NoSlotRace
    OBVIOUS
  <2>1. Live = {s \in Slot : Published(s)} /\ readIndex \in Slot /\ writeIndex \in Slot
    BY LiveIsPublished DEF RingInv, TypeOK
  <2>2. ~Published(writeIndex)
    BY <2>1 DEF Published, Slot
  <2>3. readIndex # writeIndex => Published(readIndex)
    BY <2>1 DEF Published, Slot
  <2> QED
    BY <2>1, <2>2, <2>3 DEF RingInv, RecordKept, NoSlotRace
<1> QED
  BY <1>1, RingInvariant, PTL

(* A published slot holds a constructed record, and the one moved out is not *)
(* written over before its slot is given back                                *)
(* (ProducerConsumerQueue.h:97-98, :113-119).                                *)
THEOREM LiveConstructedHolds == Spec => []LiveConstructed
<1>1. RingInv => LiveConstructed
  BY LiveIsPublished DEF RingInv, RecordsOK, LiveConstructed
<1> QED
  BY <1>1, RingInvariant, PTL
-----------------------------------------------------------------------------
(* The contents of the ring as a sequence.                                   *)
LEMMA ContentsFacts ==
  RingInv => /\ Count \in 0 .. Size - 1
             /\ Contents \in Seq(Item) /\ Len(Contents) = Count
             /\ \A i \in 1 .. Count : Contents[i] = records[SlotOf(i)]
<1> SUFFICES ASSUME RingInv
             PROVE  /\ Count \in 0 .. Size - 1
                    /\ Contents \in Seq(Item) /\ Len(Contents) = Count
                    /\ \A i \in 1 .. Count : Contents[i] = records[SlotOf(i)]
  OBVIOUS
<1>1. Count \in Nat /\ Count \in 0 .. Size - 1
  BY CountFacts, SpscAssumption DEF RingInv
<1>2. \A i \in 1 .. Count : records[SlotOf(i)] \in Item
  BY SlotFacts DEF RingInv, RecordsOK
<1>3. Contents \in [1 .. Count -> Item]
  BY <1>2 DEF Contents
<1> QED
  BY <1>1, <1>3 DEF Contents

(* The same of the state after a step.                                       *)
LEMMA ContentsFactsNext ==
  RingInv' => /\ Count' \in 0 .. Size - 1
              /\ Contents' \in Seq(Item) /\ Len(Contents') = Count'
              /\ \A i \in 1 .. Count' : Contents'[i] = records'[SlotOf(i)']
<1>1. (RingInv => /\ Count \in 0 .. Size - 1
                  /\ Contents \in Seq(Item) /\ Len(Contents) = Count
                  /\ \A i \in 1 .. Count : Contents[i] = records[SlotOf(i)])'
  BY ContentsFacts, PTL
<1> QED
  BY <1>1

(* What does not move the indices and does not touch a published slot does   *)
(* not change the contents.                                                  *)
LEMMA ContentsUnchanged ==
  ASSUME TypeOK, UNCHANGED <<readIndex, writeIndex>>,
         \A s \in Slot : Published(s) => records'[s] = records[s]
  PROVE  Contents' = Contents
<1>1. Count' = Count /\ \A i \in 1 .. Count : SlotOf(i)' = SlotOf(i)
  BY DEF Count, SlotOf
<1>2. \A i \in 1 .. Count : records'[SlotOf(i)] = records[SlotOf(i)]
  BY SlotFacts
<1> QED
  BY <1>1, <1>2 DEF Contents

(* Storing writeIndex_ appends the record just constructed.                  *)
LEMMA PublishAppends ==
  ASSUME RingInv, RingInv', WritePublish
  PROVE  Contents' = Append(Contents, item) /\ Count < Size - 1 /\ item \in Item
<1>1. /\ TypeOK /\ readIndex \in Slot /\ writeIndex \in Slot
      /\ writeIndex' = NextRecord(writeIndex) /\ NextRecord(writeIndex) # readIndex
      /\ UNCHANGED <<records, readIndex>> /\ records[writeIndex] = item /\ item \in Item
  BY DEF RingInv, TypeOK, RoomKept, RecordsOK, Writing, WritePublish
<1>2. Count < Size - 1 /\ Count' = Count + 1
  BY <1>1, SpscAssumption DEF Count, NextRecord, Slot
<1>3. \A i \in 1 .. Count : SlotOf(i)' = SlotOf(i)
  BY <1>1 DEF SlotOf
<1>4. SlotOf(Count)' = writeIndex
  BY <1>1, <1>2, SpscAssumption DEF SlotOf, Count, NextRecord, Slot
<1>5. Contents \in Seq(Item) /\ Len(Contents) = Count /\ Count \in Nat
  BY ContentsFacts, SpscAssumption
<1>6. Contents' \in Seq(Item) /\ Len(Contents') = Count + 1
  BY ContentsFactsNext, <1>2
<1>7. \A i \in 1 .. Count : Contents'[i] = Contents[i]
  BY ContentsFacts, ContentsFactsNext, <1>1, <1>2, <1>3, <1>5
<1>8. Contents'[Count + 1] = item
  BY ContentsFactsNext, <1>1, <1>2, <1>4, <1>5
<1>9. Contents' = Append(Contents, item)
  <2>1. Append(Contents, item) \in Seq(Item) /\ Len(Append(Contents, item)) = Count + 1
    BY <1>1, <1>5
  <2>2. \A i \in 1 .. Count + 1 : Append(Contents, item)[i] = IF i <= Count THEN Contents[i] ELSE item
    BY <1>1, <1>5
  <2>3. \A i \in 1 .. Len(Contents') : Contents'[i] = Append(Contents, item)[i]
    BY <1>5, <1>6, <1>7, <1>8, <2>2
  <2> QED
    BY <1>6, <2>1, <2>3, SeqEqual
<1> QED
  BY <1>1, <1>2, <1>9

(* Storing readIndex_ removes the oldest record.                             *)
LEMMA ReleaseRemoves ==
  ASSUME RingInv, RingInv', ReadPublish \/ PopPublish
  PROVE  Contents # <<>> /\ Contents' = Tail(Contents) /\ Head(Contents) = records[readIndex]
<1>1. /\ TypeOK /\ readIndex \in Slot /\ writeIndex \in Slot
      /\ readIndex' = NextRecord(readIndex) /\ readIndex # writeIndex
      /\ UNCHANGED <<records, writeIndex>>
  BY DEF RingInv, TypeOK, RecordKept, Reading, ReadPublish, PopPublish
<1>2. Count >= 1 /\ Count' = Count - 1 /\ Count \in Nat
  BY <1>1, SpscAssumption DEF Count, NextRecord, Slot
<1>3. \A i \in 1 .. Count - 1 : SlotOf(i)' = SlotOf(i + 1)
  BY <1>1, <1>2, SpscAssumption DEF SlotOf, Count, NextRecord, Slot
<1>4. SlotOf(1) = readIndex
  BY <1>1, SpscAssumption DEF SlotOf, Slot
<1>5. Contents \in Seq(Item) /\ Len(Contents) = Count /\ Contents # <<>>
  BY ContentsFacts, <1>2
<1>6. Contents' \in Seq(Item) /\ Len(Contents') = Count - 1
  BY ContentsFactsNext, <1>2
<1>7. Head(Contents) = records[readIndex]
  BY ContentsFacts, <1>2, <1>4, <1>5
<1>8. Tail(Contents) \in Seq(Item) /\ Len(Tail(Contents)) = Count - 1
  BY <1>2, <1>5
<1>9. \A i \in 1 .. Count - 1 : Contents'[i] = Tail(Contents)[i]
  <2> TAKE i \in 1 .. Count - 1
  <2>1. Tail(Contents)[i] = Contents[i + 1]
    BY <1>2, <1>5
  <2>2. Contents[i + 1] = records[SlotOf(i + 1)]
    BY ContentsFacts, <1>2
  <2>3. Contents'[i] = records'[SlotOf(i)']
    BY ContentsFactsNext, <1>2
  <2> QED
    BY <1>1, <1>3, <2>1, <2>2, <2>3
<1> QED
  BY <1>5, <1>6, <1>7, <1>8, <1>9, SeqEqual

(* Every step of the ring is a step of the FIFO or leaves it alone.          *)
LEMMA StepRefines == RingInv /\ RingInv' /\ [Next]_vars => [Fifo!Next]_Fifo!vars
<1> SUFFICES ASSUME RingInv, RingInv', [Next]_vars
             PROVE  [Fifo!Next]_Fifo!vars
  OBVIOUS
<1>0. TypeOK /\ Contents \in Seq(Item) /\ Len(Contents) = Count /\ Count \in 0 .. Size - 1
  BY ContentsFacts DEF RingInv
<1>1. ASSUME NEW x \in Item, WriteCheck(x)
      PROVE  [Fifo!Next]_Fifo!vars
  <2>1. Contents' = Contents
    BY <1>0, <1>1, ContentsUnchanged DEF WriteCheck
  <2>2. CASE NextRecord(writeIndex) # readIndex
    BY <1>1, <2>1, <2>2 DEF WriteCheck, cvars, Fifo!vars
  <2>3. CASE NextRecord(writeIndex) = readIndex
    <3>1. Len(Contents) = Size - 1
      BY <1>0, <2>3, CountFacts
    <3>2. Fifo!PutFull
      BY <1>1, <2>1, <2>3, <3>1 DEF WriteCheck, cvars, Fifo!PutFull
    <3> QED
      BY <3>2 DEF Fifo!Next
  <2> QED
    BY <2>2, <2>3
<1>2. CASE WriteConstruct
  <2>1. \A s \in Slot : Published(s) => records'[s] = records[s]
    BY <1>0, <1>2 DEF WriteConstruct, TypeOK, Published, Slot
  <2>2. Contents' = Contents
    BY <1>0, <1>2, <2>1, ContentsUnchanged DEF WriteConstruct
  <2> QED
    BY <1>2, <2>2 DEF WriteConstruct, cvars, Fifo!vars
<1>3. CASE WritePublish
  <2>1. Fifo!Put(item)
    BY <1>0, <1>3, PublishAppends DEF WritePublish, cvars, Fifo!Put
  <2> QED
    BY <1>3, <2>1, PublishAppends DEF Fifo!Next
<1>4. ASSUME NEW op \in {"move", "pop"}, ReadCheck(op)
      PROVE  [Fifo!Next]_Fifo!vars
  <2>1. Contents' = Contents
    BY <1>0, <1>4, ContentsUnchanged DEF ReadCheck
  <2>2. CASE readIndex # writeIndex
    BY <1>4, <2>1, <2>2 DEF ReadCheck, pvars, Fifo!vars
  <2>3. CASE readIndex = writeIndex
    <3>1. Contents = <<>>
      BY <1>0, <2>3, CountFacts
    <3>2. Fifo!TakeEmpty
      BY <1>4, <2>1, <2>3, <3>1 DEF ReadCheck, pvars, Fifo!TakeEmpty
    <3> QED
      BY <3>2 DEF Fifo!Next
  <2> QED
    BY <2>2, <2>3
<1>5. CASE ReadMove
  <2>1. Contents' = Contents
    BY <1>0, <1>5, ContentsUnchanged DEF ReadMove
  <2> QED
    BY <1>5, <2>1 DEF ReadMove, pvars, Fifo!vars
<1>6. CASE ReadPublish
  <2>1. moved = records[readIndex]
    BY <1>6 DEF ReadPublish, RingInv, RecordsOK
  <2>2. Fifo!Take
    BY <1>6, <2>1, ReleaseRemoves DEF ReadPublish, pvars, Fifo!Take
  <2> QED
    BY <2>2 DEF Fifo!Next
<1>7. CASE PopPublish
  <2>1. Fifo!Drop
    BY <1>7, ReleaseRemoves DEF PopPublish, pvars, Fifo!Drop
  <2> QED
    BY <2>1 DEF Fifo!Next
<1>8. CASE UNCHANGED vars
  <2>1. Contents' = Contents
    BY <1>0, <1>8, ContentsUnchanged DEF vars
  <2> QED
    BY <1>8, <2>1 DEF vars, Fifo!vars
<1> QED
  BY <1>1, <1>2, <1>3, <1>4, <1>5, <1>6, <1>7, <1>8 DEF Next, Producer, Consumer

(* The lock-free ring implements the bounded FIFO its callers rely on: for   *)
(* any size and any interleaving of the two threads records come out once    *)
(* and in the order they went in, a write is refused only when Size - 1      *)
(* records are in, a read only when none is                                  *)
(* (ProducerConsumerQueue.h:90-122).                                         *)
THEOREM RingImplementsFifo == Spec => FifoSpec
<1>1. Init => Fifo!Init
  <2> SUFFICES ASSUME Init
               PROVE  Fifo!Init
    OBVIOUS
  <2>1. Contents = <<>>
    <3>1. RingInv /\ Count = 0
      BY RingInit, CountFacts DEF Init, RingInv
    <3> QED
      BY <3>1, ContentsFacts
  <2> QED
    BY <2>1 DEF Init, Fifo!Init
<1> QED
  BY <1>1, RingInvariant, StepRefines, PTL DEF Spec, FifoSpec, Fifo!Spec
=============================================================================
