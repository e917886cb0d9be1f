------------------------------ MODULE SpscQueue ------------------------------
(***************************************************************************)
(* folly::ProducerConsumerQueue (lib/folly/ProducerConsumerQueue.h), the    *)
(* lock-free ring between the DMA read thread (producer) and the file       *)
(* write thread (consumer).  Each access to memory the other thread may     *)
(* touch is a step of its own: the loads and stores of the two indices, the *)
(* construction of a record and the move out of one.  The load of a         *)
(* thread's own index is local to it and is not a step.  The acquire and    *)
(* release orderings of the code make the steps sequentially consistent     *)
(* for the two indices and the record they guard.                           *)
(***************************************************************************)
EXTENDS Naturals, Sequences

CONSTANTS
  Item,    \* the values that can be queued
  Size,    \* size_ : number of slots, of which Size - 1 are usable
  NoItem   \* memory that holds no constructed record

ASSUME SpscAssumption == /\ Size \in Nat /\ Size >= 2
                         /\ NoItem \notin Item

VARIABLES
  records,      \* records_[]
  readIndex,    \* readIndex_, stored by the consumer only
  writeIndex,   \* writeIndex_, stored by the producer only
  ppc, item,    \* the producer's place in write() and its argument
  cpc, moved,   \* the consumer's place in read()/popFront() and its record
  wres, rres,   \* what the last completed call returned
  out           \* the record the last successful read() handed to its caller

pvars == <<ppc, item, wres>>
cvars == <<cpc, moved, rres, out>>
vars == <<records, readIndex, writeIndex, ppc, item, cpc, moved, wres, rres, out>>

Slot == 0 .. Size - 1

(* Mutant of NextRecord: the wrap comes one index late. *)
NextRecordLateWrap(i) == IF i = Size THEN 0 ELSE i + 1

(* The successor of an index, with the wrap at size_. *)
NextRecord(i) == IF i + 1 = Size THEN 0 ELSE i + 1

Init == /\ records = [s \in Slot |-> NoItem]
        /\ readIndex = 0
        /\ writeIndex = 0
        /\ ppc = "idle" /\ item = NoItem
        /\ cpc = "idle" /\ moved = NoItem
        /\ wres = "none" /\ rres = "none" /\ out = NoItem
-----------------------------------------------------------------------------
(* write(recordArgs): called by the producer. *)

(* Mutant of WriteCheck: the test for a full queue is missing. *)
WriteCheckNeverFull(x) ==
  /\ ppc = "idle"
  /\ ppc' = "construct"
  /\ item' = x
  /\ UNCHANGED <<records, readIndex, writeIndex, wres, cvars>>

(* Mutant of WriteCheck: the queue is reported full with a slot to spare. *)
WriteCheckFullEarly(x) ==
  LET full == readIndex \in {NextRecord(writeIndex), NextRecord(NextRecord(writeIndex))}
  IN /\ ppc = "idle"
     /\ ppc' = IF full THEN ppc ELSE "construct"
     /\ item' = IF full THEN item ELSE x
     /\ wres' = IF full THEN "full" ELSE wres
     /\ UNCHANGED <<records, readIndex, writeIndex, cvars>>

(* The load of readIndex_ that tells a full queue from one with room. *)
WriteCheck(x) ==
  /\ ppc = "idle"
  /\ \/ /\ NextRecord(writeIndex) # readIndex
        /\ ppc' = "construct"
        /\ item' = x
        /\ UNCHANGED wres
     \/ /\ NextRecord(writeIndex) = readIndex
        /\ wres' = "full"
        /\ UNCHANGED <<ppc, item>>
  /\ UNCHANGED <<records, readIndex, writeIndex, cvars>>

(* Placement new of the record in the slot at writeIndex_. *)
WriteConstruct ==
  /\ ppc = "construct"
  /\ records' = [records EXCEPT ![writeIndex] = item]
  /\ ppc' = "publish"
  /\ UNCHANGED <<readIndex, writeIndex, item, wres, cvars>>

(* Mutant of WritePublish: the index is stored before the record is built. *)
WritePublishEarly ==
  /\ ppc = "construct"
  /\ writeIndex' = NextRecord(writeIndex)
  /\ ppc' = "idle"
  /\ wres' = "ok"
  /\ UNCHANGED <<records, readIndex, item, cvars>>

(* The release store of writeIndex_. *)
WritePublish ==
  /\ ppc = "publish"
  /\ writeIndex' = NextRecord(writeIndex)
  /\ ppc' = "idle"
  /\ wres' = "ok"
  /\ UNCHANGED <<records, readIndex, item, cvars>>
-----------------------------------------------------------------------------
(* read(record), and isEmpty() followed by popFront(): called by the         *)
(* consumer.                                                                 *)

(* The load of writeIndex_ that tells an empty queue from one with a record; *)
(* op is the call being made.                                                *)
ReadCheck(op) ==
  /\ cpc = "idle"
  /\ \/ /\ readIndex = writeIndex
        /\ rres' = "empty"
        /\ UNCHANGED cpc
     \/ /\ readIndex # writeIndex
        /\ cpc' = op
        /\ UNCHANGED rres
  /\ UNCHANGED <<records, readIndex, writeIndex, moved, out, pvars>>

(* The record is moved out.  A record is an array of words: moving it copies *)
(* it and its destructor does nothing, so the slot keeps its content.        *)
ReadMove ==
  /\ cpc = "move"
  /\ moved' = records[readIndex]
  /\ cpc' = "release"
  /\ UNCHANGED <<records, readIndex, writeIndex, rres, out, pvars>>

(* The release store of readIndex_, after which read() returns true. *)
ReadPublish ==
  /\ cpc = "release"
  /\ readIndex' = NextRecord(readIndex)
  /\ out' = moved
  /\ rres' = "ok"
  /\ cpc' = "idle"
  /\ UNCHANGED <<records, writeIndex, moved, pvars>>

(* popFront(): readIndex_ is stored, the record is not looked at. *)
PopPublish ==
  /\ cpc = "pop"
  /\ readIndex' = NextRecord(readIndex)
  /\ rres' = "dropped"
  /\ cpc' = "idle"
  /\ UNCHANGED <<records, writeIndex, moved, out, pvars>>
-----------------------------------------------------------------------------
Producer == \/ \E x \in Item : WriteCheck(x)
            \/ WriteConstruct
            \/ WritePublish

Consumer == \/ \E op \in {"move", "pop"} : ReadCheck(op)
            \/ ReadMove
            \/ ReadPublish
            \/ PopPublish

Next == Producer \/ Consumer

Spec == Init /\ [][Next]_vars
-----------------------------------------------------------------------------
(* Every variable keeps its type; in particular the two indices never leave *)
(* the ring.                                                                *)
TypeOK ==
  /\ records \in [Slot -> Item \cup {NoItem}]
  /\ readIndex \in Slot
  /\ writeIndex \in Slot
  /\ ppc \in {"idle", "construct", "publish"}
  /\ item \in Item \cup {NoItem}
  /\ cpc \in {"idle", "move", "release", "pop"}
  /\ moved \in Item \cup {NoItem}
  /\ wres \in {"none", "ok", "full"}
  /\ rres \in {"none", "ok", "empty", "dropped"}
  /\ out \in Item \cup {NoItem}

(* The number of published records, as sizeGuess() computes it. *)
Count == IF writeIndex >= readIndex THEN writeIndex - readIndex
         ELSE writeIndex - readIndex + Size

(* The slot of the i-th published record, oldest first. *)
SlotOf(i) == IF readIndex + i - 1 < Size THEN readIndex + i - 1
             ELSE readIndex + i - 1 - Size

(* The slots [readIndex, writeIndex) that hold published records. *)
Live == {SlotOf(i) : i \in 1 .. Count}

Writing == ppc # "idle"
Reading == cpc # "idle"

(* The slot the producer constructs a record in is never one that holds a    *)
(* published record, so the consumer never reads or destroys a slot that is  *)
(* being written (ProducerConsumerQueue.h:96-98 and :109-120).               *)
NoSlotRace ==
  /\ Writing => writeIndex \notin Live
  /\ Reading => readIndex \in Live
  /\ Writing /\ Reading => readIndex # writeIndex

(* A published slot holds a constructed record, and the record the consumer *)
(* has moved out is still the one at the front until readIndex_ is stored:  *)
(* nobody has written over it in between.                                    *)
LiveConstructed ==
  /\ \A s \in Live : records[s] \in Item
  /\ cpc = "release" => moved = records[readIndex]

(* The queue its callers see. *)
Contents == [i \in 1 .. Count |-> records[SlotOf(i)]]

Fifo == INSTANCE BoundedFifo WITH q <- Contents, Cap <- Size - 1

(* The ring implements the bounded FIFO: records come out in the order they  *)
(* went in, none is lost, repeated or altered, write() fails only on a full  *)
(* queue and read() only on an empty one (ProducerConsumerQueue.h:90-122).   *)
FifoSpec == Fifo!Spec
=============================================================================
