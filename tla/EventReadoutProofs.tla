------------------------- MODULE EventReadoutProofs -------------------------
(***************************************************************************)
(* Proofs about EventReadout for every stream of words, every size of       *)
(* block, buffer, chunk, file and queue, and any number of faults.          *)
(***************************************************************************)
EXTENDS EventReadout, FiniteSetTheorems, TLAPS

(* The words of a buffer prefix are a sequence of natural numbers. *)
LEMMA WordsType ==
  ASSUME TypeOK, NEW n \in 0 .. BufWords
  PROVE  Words(n) \in Seq(Nat) /\ Len(Words(n)) = n
<1>1. n \in Nat
  BY ReadoutAssumption
<1>2. \A i \in 1 .. n : buffer[i - 1] \in Nat
  BY <1>1, ReadoutAssumption DEF TypeOK, WriteTypes, Idx
<1> QED
  BY <1>1, <1>2 DEF Words

(* write() appends at most one sequence of words, and only adds incidents. *)
LEMMA WriteBufferType ==
  ASSUME TypeOK, NEW n \in 0 .. BufWords, NEW r \in WriteResult, WriteBuffer(n, r)
  PROVE  writes' \in Seq(Seq(Nat)) /\ incidents' \in SUBSET Incident
<1>1. ASSUME NEW k \in 0 .. BufWords, writes' = Append(writes, Words(k))
      PROVE  writes' \in Seq(Seq(Nat))
  BY <1>1, WordsType DEF TypeOK, FileTypes
<1>2. n \in Nat /\ BufWords \in Nat /\ 1 .. n - 1 \subseteq 0 .. BufWords
  BY ReadoutAssumption
<1>3. writes' \in Seq(Seq(Nat))
  BY <1>1, <1>2 DEF WriteBuffer, TypeOK, FileTypes
<1>4. incidents' \in SUBSET Incident
  BY DEF WriteBuffer, TypeOK, FileTypes, Incident
<1> QED
  BY <1>3, <1>4

LEMMA TypeInit == Init => TypeOK
<1> SUFFICES ASSUME Init PROVE TypeOK
  OBVIOUS
<1> USE ReadoutAssumption DEF Init
<1>1. FlagTypes
  BY DEF FlagTypes
<1>2. ReadTypes
  BY DEF ReadTypes, NoResync
<1>3. WriteTypes
  BY DEF WriteTypes, Idx
<1>4. FileTypes
  BY DEF FileTypes, Incident
<1> QED
  BY <1>1, <1>2, <1>3, <1>4 DEF TypeOK

(* Every step keeps the types, and with them the write thread inside its    *)
(* event buffer.                                                            *)
LEMMA TypeStep == TypeOK /\ [Next]_vars => TypeOK'
<1> SUFFICES ASSUME TypeOK, [Next]_vars PROVE TypeOK'
  OBVIOUS
<1> USE ReadoutAssumption DEF TypeOK
<1>1. CASE StopRun
  <2>1. FlagTypes'
    BY <1>1 DEF FlagTypes, StopRun, readVars, buildVars, fileVars
  <2>2. ReadTypes'
    BY <1>1 DEF ReadTypes, NoResync, StopRun, readVars, buildVars, fileVars
  <2>3. WriteTypes'
    BY <1>1 DEF WriteTypes, Idx, StopRun, readVars, buildVars, fileVars
  <2>4. FileTypes'
    BY <1>1 DEF FileTypes, Incident, StopRun, readVars, buildVars, fileVars
  <2> QED
    BY <2>1, <2>2, <2>3, <2>4
<1>2. CASE ReadStart
  <2>1. FlagTypes'
    BY <1>2 DEF FlagTypes, ReadStart, shared, buildVars, fileVars
  <2>2. ReadTypes'
    BY <1>2 DEF ReadTypes, NoResync, ReadStart, shared, buildVars, fileVars
  <2>3. WriteTypes'
    BY <1>2 DEF WriteTypes, Idx, ReadStart, shared, buildVars, fileVars
  <2>4. FileTypes'
    BY <1>2 DEF FileTypes, Incident, ReadStart, shared, buildVars, fileVars
  <2> QED
    BY <2>1, <2>2, <2>3, <2>4
<1>3. CASE ReadLoop
  <2>1. FlagTypes'
    BY <1>3 DEF FlagTypes, ReadLoop, ReadUnchanged, shared, buildVars, fileVars
  <2>2. ReadTypes'
    BY <1>3 DEF ReadTypes, NoResync, ReadLoop, ReadUnchanged, shared, buildVars,
        fileVars
  <2>3. WriteTypes'
    BY <1>3 DEF WriteTypes, Idx, ReadLoop, ReadUnchanged, shared, buildVars,
        fileVars
  <2>4. FileTypes'
    BY <1>3 DEF FileTypes, Incident, ReadLoop, ReadUnchanged, shared, buildVars,
        fileVars
  <2> QED
    BY <2>1, <2>2, <2>3, <2>4
<1>4. CASE DmaDone
  <2>1. FlagTypes'
    BY <1>4 DEF FlagTypes, DmaDone, ReadUnchanged, shared, buildVars, fileVars
  <2>2. ReadTypes'
    BY <1>4 DEF ReadTypes, NoResync, DmaDone, ReadUnchanged, shared, buildVars,
        fileVars
  <2>3. WriteTypes'
    BY <1>4 DEF WriteTypes, Idx, DmaDone, ReadUnchanged, shared, buildVars,
        fileVars
  <2>4. FileTypes'
    BY <1>4 DEF FileTypes, Incident, DmaDone, ReadUnchanged, shared, buildVars,
        fileVars
  <2> QED
    BY <2>1, <2>2, <2>3, <2>4
<1>5. CASE DmaTimeout
  <2>1. FlagTypes'
    BY <1>5 DEF FlagTypes, DmaTimeout, ReadUnchanged, shared, buildVars, fileVars
  <2>2. ReadTypes'
    BY <1>5 DEF ReadTypes, NoResync, DmaTimeout, ReadUnchanged, shared, buildVars,
        fileVars
  <2>3. WriteTypes'
    BY <1>5 DEF WriteTypes, Idx, DmaTimeout, ReadUnchanged, shared, buildVars,
        fileVars
  <2>4. FileTypes'
    BY <1>5 DEF FileTypes, Incident, DmaTimeout, ReadUnchanged, shared, buildVars,
        fileVars
  <2> QED
    BY <2>1, <2>2, <2>3, <2>4
<1>6. CASE DmaAbort
  <2>1. FlagTypes'
    BY <1>6 DEF FlagTypes, DmaAbort, ReadUnchanged, shared, buildVars, fileVars
  <2>2. ReadTypes'
    BY <1>6 DEF ReadTypes, NoResync, DmaAbort, ReadUnchanged, shared, buildVars,
        fileVars
  <2>3. WriteTypes'
    BY <1>6 DEF WriteTypes, Idx, DmaAbort, ReadUnchanged, shared, buildVars,
        fileVars
  <2>4. FileTypes'
    BY <1>6 DEF FileTypes, Incident, DmaAbort, ReadUnchanged, shared, buildVars,
        fileVars
  <2> QED
    BY <2>1, <2>2, <2>3, <2>4
<1>7. CASE Enqueue
  <2>1. FlagTypes'
    BY <1>7 DEF FlagTypes, Enqueue, NextDma, shared, buildVars, fileVars
  <2>2. ReadTypes'
    <3>1. CASE Len(queue) < QueueCap /\ queue' = Append(queue, block)
               /\ blocks_enqueued' = blocks_enqueued + 1 /\ NextDma
      <4>1. queue' \in Seq(Nat) /\ Len(queue') = Len(queue) + 1
        BY <3>1 DEF ReadTypes
      <4> QED
        BY <1>7, <3>1, <4>1 DEF ReadTypes, NoResync, Enqueue, NextDma
    <3>2. CASE rpc' = "mark" /\ UNCHANGED <<queue, blocks_enqueued, iv>>
      BY <1>7, <3>2 DEF ReadTypes, NoResync, Enqueue
    <3> QED
      BY <1>7, <3>1, <3>2 DEF Enqueue
  <2>3. WriteTypes'
    BY <1>7 DEF WriteTypes, Idx, Enqueue, NextDma, shared, buildVars, fileVars
  <2>4. FileTypes'
    BY <1>7 DEF FileTypes, Incident, Enqueue, NextDma, shared, buildVars, fileVars
  <2> QED
    BY <2>1, <2>2, <2>3, <2>4
<1>8. CASE MarkResync
  <2>1. FlagTypes'
    BY <1>8 DEF FlagTypes, MarkResync, StoreResync, NextDma, ReadUnchanged,
        shared, buildVars, fileVars
  <2>2. ReadTypes'
    BY <1>8 DEF ReadTypes, NoResync, MarkResync, StoreResync, NextDma,
       ReadUnchanged, shared, buildVars, fileVars
  <2>3. WriteTypes'
    BY <1>8 DEF WriteTypes, Idx, MarkResync, StoreResync, NextDma, ReadUnchanged,
        shared, buildVars, fileVars
  <2>4. FileTypes'
    BY <1>8 DEF FileTypes, Incident, MarkResync, StoreResync, NextDma,
       ReadUnchanged, shared, buildVars, fileVars
  <2> QED
    BY <2>1, <2>2, <2>3, <2>4
<1>9. CASE ReadStop
  <2>1. FlagTypes'
    BY <1>9 DEF FlagTypes, ReadStop, buildVars, fileVars
  <2>2. ReadTypes'
    BY <1>9 DEF ReadTypes, NoResync, ReadStop, buildVars, fileVars
  <2>3. WriteTypes'
    BY <1>9 DEF WriteTypes, Idx, ReadStop, buildVars, fileVars
  <2>4. FileTypes'
    BY <1>9 DEF FileTypes, Incident, ReadStop, buildVars, fileVars
  <2> QED
    BY <2>1, <2>2, <2>3, <2>4
<1>10. CASE WriteStart
  <2>1. FlagTypes'
    BY <1>10 DEF FlagTypes, WriteStart, StoreResync, RequestDiskStop, shared,
        readVars, buildVars
  <2>2. ReadTypes'
    BY <1>10 DEF ReadTypes, NoResync, WriteStart, StoreResync, RequestDiskStop,
        shared, readVars, buildVars
  <2>3. WriteTypes'
    BY <1>10 DEF WriteTypes, Idx, WriteStart, StoreResync, RequestDiskStop,
        shared, readVars, buildVars
  <2>4. FileTypes'
    BY <1>10 DEF FileTypes, Incident, WriteStart, StoreResync, RequestDiskStop,
        shared, readVars, buildVars
  <2> QED
    BY <2>1, <2>2, <2>3, <2>4
<1>11. CASE WriteLoop
  <2>1. FlagTypes'
    BY <1>11 DEF FlagTypes, WriteLoop, WriteUnchanged, shared, readVars,
        buildVars, fileVars
  <2>2. ReadTypes'
    BY <1>11 DEF ReadTypes, NoResync, WriteLoop, WriteUnchanged, shared, readVars,
        buildVars, fileVars
  <2>3. WriteTypes'
    BY <1>11 DEF WriteTypes, Idx, WriteLoop, WriteUnchanged, shared, readVars,
        buildVars, fileVars
  <2>4. FileTypes'
    BY <1>11 DEF FileTypes, Incident, WriteLoop, WriteUnchanged, shared, readVars,
        buildVars, fileVars
  <2> QED
    BY <2>1, <2>2, <2>3, <2>4
<1>12. CASE Dequeue
  <2>1. FlagTypes'
    BY <1>12 DEF FlagTypes, Dequeue, WriteUnchanged, shared, readVars, buildVars,
        fileVars
  <2>2. ReadTypes'
    <3>1. queue' \in Seq(Nat) /\ Len(queue') <= QueueCap
      <4>1. CASE queue = <<>>
        BY <1>12, <4>1 DEF ReadTypes, Dequeue
      <4>2. CASE queue # <<>>
        <5>1. queue' = Tail(queue)
          BY <1>12, <4>2 DEF Dequeue
        <5>2. queue \in Seq(Nat) /\ Len(queue) <= QueueCap /\ QueueCap \in Nat
          BY ReadoutAssumption DEF ReadTypes
        <5>3. Tail(queue) \in Seq(Nat) /\ Len(Tail(queue)) = Len(queue) - 1
          BY <4>2, <5>2
        <5> QED
          BY <5>1, <5>2, <5>3
      <4> QED
        BY <4>1, <4>2
    <3>2. UNCHANGED <<resync, readVars>>
      BY <1>12 DEF Dequeue, WriteUnchanged
    <3> QED
      BY <3>1, <3>2 DEF ReadTypes, NoResync, readVars
  <2>3. WriteTypes'
    <3>1. word_arr' \in Nat /\ wi' \in 0 .. BlockWords /\ wpc = "poll" /\ wpc' \in {"loop", "load"}
      <4>1. CASE queue = <<>>
        BY <1>12, <4>1 DEF WriteTypes, Dequeue
      <4>2. CASE queue # <<>>
        <5>1. queue \in Seq(Nat) /\ 0 \in 0 .. BlockWords
          BY ReadoutAssumption DEF ReadTypes
        <5>2. Head(queue) \in Nat
          BY <4>2, <5>1
        <5> QED
          BY <1>12, <4>2, <5>1, <5>2 DEF Dequeue
      <4> QED
        BY <4>1, <4>2
    <3>2. UNCHANGED <<event_count, buildVars, blocks_read>>
      BY <1>12 DEF Dequeue
    <3> QED
      BY <3>1, <3>2 DEF WriteTypes, buildVars
  <2>4. FileTypes'
    BY <1>12 DEF FileTypes, Incident, Dequeue, WriteUnchanged, shared, readVars,
        buildVars, fileVars
  <2> QED
    BY <2>1, <2>2, <2>3, <2>4
<1>13. CASE LoadResync
  <2>1. FlagTypes'
    BY <1>13 DEF FlagTypes, LoadResync, WriteUnchanged, shared, readVars,
        buildVars, fileVars
  <2>2. ReadTypes'
    BY <1>13 DEF ReadTypes, NoResync, LoadResync, WriteUnchanged, shared,
        readVars, buildVars, fileVars
  <2>3. WriteTypes'
    BY <1>13 DEF WriteTypes, Idx, LoadResync, WriteUnchanged, shared, readVars,
        buildVars, fileVars
  <2>4. FileTypes'
    BY <1>13 DEF FileTypes, Incident, LoadResync, WriteUnchanged, shared,
        readVars, buildVars, fileVars
  <2> QED
    BY <2>1, <2>2, <2>3, <2>4
<1>14. CASE ClearResync
  <2>1. FlagTypes'
    BY <1>14 DEF FlagTypes, ClearResync, DropPartial, WriteUnchanged, shared, readVars,
        fileVars
  <2>2. ReadTypes'
    BY <1>14 DEF ReadTypes, NoResync, ClearResync, DropPartial, WriteUnchanged, shared,
        readVars, fileVars
  <2>3. WriteTypes'
    BY <1>14 DEF WriteTypes, Idx, ClearResync, DropPartial, WriteUnchanged, shared, readVars,
        fileVars
  <2>4. FileTypes'
    BY <1>14 DEF FileTypes, Incident, ClearResync, DropPartial, WriteUnchanged, shared,
        readVars, fileVars
  <2> QED
    BY <2>1, <2>2, <2>3, <2>4
<1>15. CASE StartWord
  <2>1. FlagTypes'
    BY <1>15 DEF FlagTypes, StartWord, WordStep, Store, Word, Overflow,
        WriteUnchanged, shared, readVars, fileVars
  <2>2. ReadTypes'
    BY <1>15 DEF ReadTypes, NoResync, StartWord, WordStep, Store, Word, Overflow,
        WriteUnchanged, shared, readVars, fileVars
  <2>3. WriteTypes'
    BY <1>15 DEF WriteTypes, Idx, StartWord, WordStep, Store, Word, Overflow,
        WriteUnchanged, shared, readVars, fileVars
  <2>4. FileTypes'
    BY <1>15 DEF FileTypes, Incident, StartWord, WordStep, Store, Word, Overflow,
        WriteUnchanged, shared, readVars, fileVars
  <2> QED
    BY <2>1, <2>2, <2>3, <2>4
<1>16. CASE SkipWord
  <2>1. FlagTypes'
    BY <1>16 DEF FlagTypes, SkipWord, WordStep, Word, Overflow, Building,
        WriteUnchanged, shared, readVars, fileVars
  <2>2. ReadTypes'
    BY <1>16 DEF ReadTypes, NoResync, SkipWord, WordStep, Word, Overflow,
        Building, WriteUnchanged, shared, readVars, fileVars
  <2>3. WriteTypes'
    BY <1>16 DEF WriteTypes, Idx, SkipWord, WordStep, Word, Overflow, Building,
        WriteUnchanged, shared, readVars, fileVars
  <2>4. FileTypes'
    BY <1>16 DEF FileTypes, Incident, SkipWord, WordStep, Word, Overflow,
        Building, WriteUnchanged, shared, readVars, fileVars
  <2> QED
    BY <2>1, <2>2, <2>3, <2>4
<1>17. CASE EndWord
  <2>1. FlagTypes'
    BY <1>17 DEF FlagTypes, EndWord, WordStep, Store, Word, Overflow, Building,
        WriteUnchanged, shared, readVars, fileVars
  <2>2. ReadTypes'
    BY <1>17 DEF ReadTypes, NoResync, EndWord, WordStep, Store, Word, Overflow,
        Building, WriteUnchanged, shared, readVars, fileVars
  <2>3. WriteTypes'
    BY <1>17 DEF WriteTypes, Idx, EndWord, EventWords, WordStep, Store, Word, Overflow,
        Building, WriteUnchanged, shared, readVars, fileVars
  <2>4. FileTypes'
    BY <1>17 DEF FileTypes, Incident, EndWord, WordStep, Store, Word, Overflow,
        Building, WriteUnchanged, shared, readVars, fileVars
  <2> QED
    BY <2>1, <2>2, <2>3, <2>4
<1>18. CASE DataWord
  <2>1. FlagTypes'
    BY <1>18 DEF FlagTypes, DataWord, WordStep, Store, Word, Overflow, Building,
        WriteUnchanged, shared, readVars, fileVars
  <2>2. ReadTypes'
    BY <1>18 DEF ReadTypes, NoResync, DataWord, WordStep, Store, Word, Overflow,
        Building, WriteUnchanged, shared, readVars, fileVars
  <2>3. WriteTypes'
    BY <1>18 DEF WriteTypes, Idx, DataWord, WordStep, Store, Word, Overflow,
        Building, WriteUnchanged, shared, readVars, fileVars
  <2>4. FileTypes'
    BY <1>18 DEF FileTypes, Incident, DataWord, WordStep, Store, Word, Overflow,
        Building, WriteUnchanged, shared, readVars, fileVars
  <2> QED
    BY <2>1, <2>2, <2>3, <2>4
<1>19. CASE BlockDone
  <2>1. FlagTypes'
    BY <1>19 DEF FlagTypes, BlockDone, WriteUnchanged, shared, readVars,
        buildVars, fileVars
  <2>2. ReadTypes'
    BY <1>19 DEF ReadTypes, NoResync, BlockDone, WriteUnchanged, shared, readVars,
        buildVars, fileVars
  <2>3. WriteTypes'
    BY <1>19 DEF WriteTypes, Idx, BlockDone, WriteUnchanged, shared, readVars,
        buildVars, fileVars
  <2>4. FileTypes'
    BY <1>19 DEF FileTypes, Incident, BlockDone, WriteUnchanged, shared, readVars,
        buildVars, fileVars
  <2> QED
    BY <2>1, <2>2, <2>3, <2>4
<1>20. CASE FlushChunk
  <2>1. PICK r \in WriteResult :
          /\ WriteBuffer(num_words, r)
          /\ IF r = "enospc" THEN RequestDiskStop ELSE UNCHANGED shared
    BY <1>20 DEF FlushChunk
  <2>2. writes' \in Seq(Seq(Nat)) /\ incidents' \in SUBSET Incident
    BY <2>1, WriteBufferType DEF WriteTypes
  <2>3. FlagTypes'
    BY <1>20, <2>1 DEF FlagTypes, FlushChunk, RequestDiskStop, shared, readVars
  <2>4. ReadTypes'
    BY <1>20 DEF ReadTypes, FlushChunk, RequestDiskStop, shared, readVars
  <2>5. WriteTypes'
    BY <1>20 DEF WriteTypes, FlushChunk, RequestDiskStop, shared, readVars
  <2>6. FileTypes'
    BY <1>20, <2>2 DEF FileTypes, FlushChunk
  <2> QED
    BY <2>3, <2>4, <2>5, <2>6
<1>21. CASE SwitchWriteFile
  <2>1. FlagTypes'
    BY <1>21 DEF FlagTypes, SwitchWriteFile, RequestDiskStop, shared, readVars,
        buildVars
  <2>2. ReadTypes'
    BY <1>21 DEF ReadTypes, NoResync, SwitchWriteFile, RequestDiskStop, shared,
        readVars, buildVars
  <2>3. WriteTypes'
    BY <1>21 DEF WriteTypes, Idx, SwitchWriteFile, RequestDiskStop, shared,
        readVars, buildVars
  <2>4. FileTypes'
    BY <1>21 DEF FileTypes, Incident, SwitchWriteFile, RequestDiskStop, shared,
        readVars, buildVars
  <2> QED
    BY <2>1, <2>2, <2>3, <2>4
<1>22. CASE FinalWrite
  <2>1. PICK r \in WriteResult : WriteBuffer(event_words, r)
    BY <1>22 DEF FinalWrite
  <2>2. writes' \in Seq(Seq(Nat)) /\ incidents' \in SUBSET Incident
    BY <2>1, WriteBufferType DEF WriteTypes
  <2>3. FlagTypes'
    BY <1>22, <2>1 DEF FlagTypes, FinalWrite, shared, readVars, buildVars
  <2>4. ReadTypes'
    BY <1>22 DEF ReadTypes, FinalWrite, shared, readVars, buildVars
  <2>5. WriteTypes'
    BY <1>22 DEF WriteTypes, FinalWrite, shared, readVars, buildVars
  <2>6. FileTypes'
    BY <1>22, <2>2 DEF FileTypes, FinalWrite
  <2> QED
    BY <2>3, <2>4, <2>5, <2>6
<1>23. CASE UNCHANGED vars
  BY <1>23 DEF FlagTypes, ReadTypes, WriteTypes, FileTypes, vars, shared, readVars,
               buildVars, fileVars
<1> QED
  BY <1>1, <1>2, <1>3, <1>4, <1>5, <1>6, <1>7, <1>8, <1>9, <1>10, <1>11, <1>12,
     <1>13, <1>14, <1>15, <1>16, <1>17, <1>18, <1>19, <1>20, <1>21, <1>22, <1>23
     DEF Next, ReadThread, WriteThread, Finished

(* The types hold throughout a run; DataWrite never stores to or writes from *)
(* beyond its event buffer, whatever the stream (data_handler.cpp:491-548).  *)
THEOREM TypeCorrect == Spec => []TypeOK
BY TypeInit, TypeStep, PTL DEF Spec
-----------------------------------------------------------------------------
LEMMA InvInit == Init => ReadoutInv
BY ReadoutAssumption DEF Init, ReadoutInv, BufferOK, ChainOK, BuilderOK, WritesWhole,
                         Taken, Idx

(* Incidents are never forgotten. *)
LEMMA IncidentsGrow == [Next]_vars => incidents \subseteq incidents'
<1> USE DEF WriteBuffer, StoreResync
<1>1. [ReadThread]_vars => incidents \subseteq incidents'
  BY DEF ReadThread, ReadStart, ReadLoop, DmaDone, DmaTimeout, DmaAbort, Enqueue,
         MarkResync, ReadStop, vars
<1>2. WriteThread => incidents \subseteq incidents'
  BY DEF WriteThread, WriteStart, WriteLoop, Dequeue, LoadResync, ClearResync,
         StartWord, SkipWord, EndWord, DataWord, WordStep, BlockDone, FlushChunk,
         SwitchWriteFile, FinalWrite
<1> QED
  BY <1>1, <1>2 DEF Next, StopRun, Finished, vars

(* A write() of the complete events in the buffer leaves only whole events   *)
(* on disk, unless it was cut short.                                         *)
LEMMA WriteKeepsWhole ==
  ASSUME TypeOK, BufferOK, WritesWhole, NEW r \in WriteResult,
         WriteBuffer(event_words, r), Clean'
  PROVE  WritesWhole'
<1> DEFINE n == event_words
<1>0. n \in 0 .. BufWords /\ BufWords \in Nat
  BY ReadoutAssumption DEF TypeOK, WriteTypes
<1>1. CASE writes' = writes
  BY <1>1 DEF WritesWhole
<1>2. CASE n > 0 /\ writes' = Append(writes, Words(n))
  <2>1. Words(n) \in Seq(Nat) /\ Len(Words(n)) = n
    BY <1>0, WordsType
  <2>2. \A i \in 1 .. n : Words(n)[i] = buffer[i - 1]
    BY DEF Words
  <2>3. Whole(Words(n))
    <3>1. Words(n)[1] \in Starts /\ Words(n)[n] \in Ends
      BY <1>0, <1>2, <2>2 DEF BufferOK
    <3>2. ASSUME NEW i \in 1 .. n - 1
          PROVE  Joined(Words(n)[i], Words(n)[i + 1])
      <4>1. /\ i \in 1 .. n /\ i + 1 \in 1 .. n /\ i - 1 \in 0 .. n - 2
            /\ (i + 1) - 1 = (i - 1) + 1
        BY <1>0
      <4>2. Words(n)[i] = buffer[i - 1] /\ Words(n)[i + 1] = buffer[(i - 1) + 1]
        BY <4>1, <2>2
      <4>3. Joined(buffer[i - 1], buffer[(i - 1) + 1])
        BY <4>1, <1>2 DEF BufferOK
      <4> QED
        BY <4>2, <4>3
    <3> QED
      BY <3>1, <3>2, <2>1 DEF Whole
  <2>4. /\ Len(writes) \in Nat
        /\ Len(writes') = Len(writes) + 1 /\ writes'[Len(writes) + 1] = Words(n)
        /\ \A k \in 1 .. Len(writes) : writes'[k] = writes[k]
    BY <1>2, <2>1 DEF TypeOK, FileTypes
  <2> QED
    BY <2>3, <2>4 DEF WritesWhole
<1>3. "short_write" \notin incidents'
  BY DEF Clean
<1> QED
  BY <1>0, <1>1, <1>2, <1>3 DEF WriteBuffer

(* Every step keeps the inductive invariant. *)
LEMMA InvStep == TypeOK /\ ReadoutInv /\ [Next]_vars => ReadoutInv'
<1> SUFFICES ASSUME TypeOK, ReadoutInv, [Next]_vars, Clean' 
             PROVE  (BufferOK /\ ChainOK /\ BuilderOK /\ WritesWhole)'
  BY DEF ReadoutInv
<1>a. Clean /\ BufferOK /\ ChainOK /\ BuilderOK /\ WritesWhole
  BY IncidentsGrow DEF Clean, ReadoutInv
<1>b. TypeOK'
  BY TypeStep
<1> USE ReadoutAssumption DEF TypeOK
<1>1. CASE StopRun
  <2>1. BufferOK'
    BY <1>1, <1>a DEF BufferOK, FlagTypes, ReadTypes, WriteTypes, StopRun, readVars,
        buildVars, fileVars
  <2>2. ChainOK'
    BY <1>1, <1>a DEF ChainOK, Taken, LastBlock, NextBlock, ResyncDue, FlagTypes,
        ReadTypes, WriteTypes, StopRun, readVars, buildVars, fileVars
  <2>3. BuilderOK'
    BY <1>1, <1>a DEF BuilderOK, Taken, ResyncDue, FlagTypes, ReadTypes, WriteTypes,
        StopRun, readVars, buildVars, fileVars
  <2>4. WritesWhole'
    BY <1>1, <1>a DEF WritesWhole, StopRun, readVars, buildVars, fileVars
  <2> QED
    BY <2>1, <2>2, <2>3, <2>4
<1>2. CASE ReadStart
  <2>1. BufferOK'
    BY <1>2, <1>a DEF BufferOK, FlagTypes, ReadTypes, WriteTypes, ReadStart, shared,
        buildVars, fileVars
  <2>2. ChainOK'
    BY <1>2, <1>a DEF ChainOK, Taken, LastBlock, NextBlock, ResyncDue, FlagTypes,
        ReadTypes, WriteTypes, ReadStart, shared, buildVars, fileVars
  <2>3. BuilderOK'
    BY <1>2, <1>a DEF BuilderOK, Taken, ResyncDue, FlagTypes, ReadTypes, WriteTypes,
        ReadStart, shared, buildVars, fileVars
  <2>4. WritesWhole'
    BY <1>2, <1>a DEF WritesWhole, ReadStart, shared, buildVars, fileVars
  <2> QED
    BY <2>1, <2>2, <2>3, <2>4
<1>3. CASE ReadLoop
  <2>1. BufferOK'
    BY <1>3, <1>a DEF BufferOK, FlagTypes, ReadTypes, WriteTypes, ReadLoop,
        ReadUnchanged, shared, buildVars, fileVars
  <2>2. ChainOK'
    BY <1>3, <1>a DEF ChainOK, Taken, LastBlock, NextBlock, ResyncDue, FlagTypes,
        ReadTypes, WriteTypes, ReadLoop, ReadUnchanged, shared, buildVars, fileVars
  <2>3. BuilderOK'
    BY <1>3, <1>a DEF BuilderOK, Taken, ResyncDue, FlagTypes, ReadTypes, WriteTypes,
        ReadLoop, ReadUnchanged, shared, buildVars, fileVars
  <2>4. WritesWhole'
    BY <1>3, <1>a DEF WritesWhole, ReadLoop, ReadUnchanged, shared, buildVars,
        fileVars
  <2> QED
    BY <2>1, <2>2, <2>3, <2>4
<1>4. CASE DmaDone
  <2>1. BufferOK'
    BY <1>4, <1>a DEF BufferOK, FlagTypes, ReadTypes, WriteTypes, DmaDone,
        ReadUnchanged, shared, buildVars, fileVars
  <2>2. ChainOK'
    BY <1>4, <1>a DEF ChainOK, Taken, LastBlock, NextBlock, ResyncDue, FlagTypes,
        ReadTypes, WriteTypes, DmaDone, ReadUnchanged, shared, buildVars, fileVars
  <2>3. BuilderOK'
    BY <1>4, <1>a DEF BuilderOK, Taken, ResyncDue, FlagTypes, ReadTypes, WriteTypes,
        DmaDone, ReadUnchanged, shared, buildVars, fileVars
  <2>4. WritesWhole'
    BY <1>4, <1>a DEF WritesWhole, DmaDone, ReadUnchanged, shared, buildVars, fileVars
  <2> QED
    BY <2>1, <2>2, <2>3, <2>4
<1>5. CASE DmaTimeout
  <2>1. BufferOK'
    BY <1>5, <1>a DEF BufferOK, FlagTypes, ReadTypes, WriteTypes, DmaTimeout,
        ReadUnchanged, shared, buildVars, fileVars
  <2>2. ChainOK'
    BY <1>5, <1>a DEF ChainOK, Taken, LastBlock, NextBlock, ResyncDue, FlagTypes,
        ReadTypes, WriteTypes, DmaTimeout, ReadUnchanged, shared, buildVars, fileVars
  <2>3. BuilderOK'
    BY <1>5, <1>a DEF BuilderOK, Taken, ResyncDue, FlagTypes, ReadTypes, WriteTypes,
        DmaTimeout, ReadUnchanged, shared, buildVars, fileVars
  <2>4. WritesWhole'
    BY <1>5, <1>a DEF WritesWhole, DmaTimeout, ReadUnchanged, shared, buildVars,
        fileVars
  <2> QED
    BY <2>1, <2>2, <2>3, <2>4
<1>6. CASE DmaAbort
  <2>1. BufferOK'
    BY <1>6, <1>a DEF BufferOK, FlagTypes, ReadTypes, WriteTypes, DmaAbort,
        ReadUnchanged, shared, buildVars, fileVars
  <2>2. ChainOK'
    BY <1>6, <1>a DEF ChainOK, Taken, LastBlock, NextBlock, ResyncDue, FlagTypes,
        ReadTypes, WriteTypes, DmaAbort, ReadUnchanged, shared, buildVars, fileVars
  <2>3. BuilderOK'
    BY <1>6, <1>a DEF BuilderOK, Taken, ResyncDue, FlagTypes, ReadTypes, WriteTypes,
        DmaAbort, ReadUnchanged, shared, buildVars, fileVars
  <2>4. WritesWhole'
    BY <1>6, <1>a DEF WritesWhole, DmaAbort, ReadUnchanged, shared, buildVars,
        fileVars
  <2> QED
    BY <2>1, <2>2, <2>3, <2>4
<1>7. CASE Enqueue
  <2>1. BufferOK'
    BY <1>7, <1>a DEF BufferOK, Enqueue, buildVars
  <2>2. ChainOK'
    <3>1. CASE /\ queue' = Append(queue, block)
               /\ blocks_enqueued' = blocks_enqueued + 1 /\ NextDma
      <4>1. /\ Len(queue') = Len(queue) + 1
            /\ \A k \in 1 .. Len(queue) : queue'[k] = queue[k]
            /\ queue'[Len(queue) + 1] = block
            /\ queue' # <<>>
        BY <3>1 DEF ReadTypes
      <4>2. Taken' = Taken /\ Taken \in Nat
        BY <1>7 DEF Taken, Enqueue, WriteTypes
      <4>3. /\ resync' = resync /\ word_arr' = word_arr /\ hw' = hw /\ wpc' = wpc
            /\ blocks_read' = blocks_read /\ rpc' \notin {"mark", "enqueue"}
            /\ hw = block + BlockWords
        BY <1>7, <3>1, <1>a DEF Enqueue, NextDma, ChainOK
      <4>4. ASSUME blocks_enqueued > 0
            PROVE  block = LastBlock + BlockWords \/ resync = blocks_enqueued
        BY <1>7, <1>a, <4>4 DEF ChainOK, NextBlock, Enqueue
      <4>5. blocks_enqueued' = Taken' + Len(queue')
        BY <3>1, <1>a, <4>1, <4>2 DEF ChainOK, ReadTypes
      <4>6. ASSUME NEW k \in 1 .. Len(queue') - 1
            PROVE  queue'[k + 1] = queue'[k] + BlockWords \/ resync' = Taken' + k
        <5>1. CASE k < Len(queue)
          <6>1. k \in 1 .. Len(queue) - 1 /\ k + 1 \in 1 .. Len(queue)
            BY <4>1, <5>1 DEF ReadTypes
          <6> QED
            BY <6>1, <1>a, <4>1, <4>2, <4>3 DEF ChainOK
        <5>2. CASE k = Len(queue)
          <6>1. Len(queue) > 0 /\ queue # <<>> /\ blocks_enqueued > 0
            BY <5>2, <1>a, <4>2 DEF ChainOK, ReadTypes
          <6> QED
            BY <6>1, <5>2, <1>a, <4>1, <4>2, <4>3, <4>4 DEF ChainOK, LastBlock
        <5> QED
          BY <5>1, <5>2, <4>1 DEF ReadTypes
      <4>7. Taken' > 0 => queue'[1] = word_arr' + BlockWords \/ resync' = Taken'
        <5>1. CASE queue = <<>>
          BY <5>1, <1>a, <4>1, <4>2, <4>3, <4>4 DEF ChainOK, LastBlock
        <5>2. CASE queue # <<>>
          BY <5>2, <1>a, <4>1, <4>2, <4>3 DEF ChainOK, ReadTypes
        <5> QED
          BY <5>1, <5>2
      <4>8. NextBlock' = LastBlock' + BlockWords
        BY <4>1, <4>3 DEF NextBlock, LastBlock, ReadTypes
      <4>9. (wpc = "clear" => ResyncDue)'
        BY <4>3, <1>a DEF ChainOK, ResyncDue
      <4> QED
        BY <4>3, <4>5, <4>6, <4>7, <4>8, <4>9 DEF ChainOK
    <3>2. CASE rpc' = "mark" /\ UNCHANGED <<queue, blocks_enqueued, iv>>
      BY <1>7, <3>2, <1>a DEF ChainOK, Taken, LastBlock, NextBlock, ResyncDue, Enqueue
    <3> QED
      BY <1>7, <3>1, <3>2 DEF Enqueue
  <2>3. BuilderOK'
    BY <1>7, <1>a DEF BuilderOK, Taken, ResyncDue, Enqueue, buildVars
  <2>4. WritesWhole'
    BY <1>7, <1>a DEF WritesWhole, Enqueue, fileVars
  <2> QED
    BY <2>1, <2>2, <2>3, <2>4
<1>8. CASE MarkResync
  <2>0. resync \in {NoResync, blocks_enqueued} /\ resync' = blocks_enqueued
    BY <1>8 DEF MarkResync, StoreResync, Clean
  <2>1. BufferOK'
    BY <1>8, <1>a DEF BufferOK, MarkResync, ReadUnchanged, buildVars
  <2>2. ChainOK'
    <3>1. /\ queue' = queue /\ word_arr' = word_arr /\ wpc' = wpc /\ hw' = hw
          /\ block' = block /\ blocks_read' = blocks_read /\ Taken' = Taken
          /\ blocks_enqueued' = blocks_enqueued /\ rpc' # "enqueue"
      BY <1>8 DEF MarkResync, NextDma, ReadUnchanged, Taken
    <3>2. Taken \in Nat /\ Len(queue) \in Nat /\ blocks_enqueued = Taken + Len(queue)
      BY <1>a DEF Taken, ReadTypes, WriteTypes, ChainOK
    <3>3. \A k \in 1 .. Len(queue) - 1 : queue[k + 1] = queue[k] + BlockWords
      BY <2>0, <3>2, <1>a DEF ChainOK, NoResync
    <3>4. queue # <<>> /\ Taken > 0 => queue[1] = word_arr + BlockWords \/ resync' = Taken
      BY <2>0, <3>2, <1>a DEF ChainOK, NoResync, ReadTypes
    <3>5. wpc # "clear"
      <4>1. CASE wpc = "clear"
        BY <4>1, <2>0, <3>2, <1>a DEF ChainOK, ResyncDue, Taken, NoResync, WriteTypes
      <4> QED
        BY <4>1
    <3> QED
      BY <2>0, <3>1, <3>2, <3>3, <3>4, <3>5 DEF ChainOK
  <2>3. BuilderOK'
    <3>1. ~ResyncDue \/ wpc \notin {"load", "clear"}
      BY <2>0, <1>a DEF ResyncDue, ChainOK, Taken, NoResync, ReadTypes, WriteTypes
    <3> QED
      BY <1>8, <3>1, <1>a DEF BuilderOK, Taken, ResyncDue, MarkResync, ReadUnchanged, buildVars
  <2>4. WritesWhole'
    BY <1>8, <1>a DEF WritesWhole, MarkResync, ReadUnchanged, fileVars
  <2> QED
    BY <2>1, <2>2, <2>3, <2>4
<1>9. CASE ReadStop
  <2>1. BufferOK'
    BY <1>9, <1>a DEF BufferOK, FlagTypes, ReadTypes, WriteTypes, ReadStop, buildVars,
        fileVars
  <2>2. ChainOK'
    BY <1>9, <1>a DEF ChainOK, Taken, LastBlock, NextBlock, ResyncDue, FlagTypes,
        ReadTypes, WriteTypes, ReadStop, buildVars, fileVars
  <2>3. BuilderOK'
    BY <1>9, <1>a DEF BuilderOK, Taken, ResyncDue, FlagTypes, ReadTypes, WriteTypes,
        ReadStop, buildVars, fileVars
  <2>4. WritesWhole'
    BY <1>9, <1>a DEF WritesWhole, ReadStop, buildVars, fileVars
  <2> QED
    BY <2>1, <2>2, <2>3, <2>4
<1>10. CASE WriteStart
  <2>0. resync' = resync
    BY <1>10 DEF WriteStart, StoreResync, Clean
  <2>1. BufferOK'
    BY <1>10, <1>a DEF BufferOK, WriteStart, buildVars
  <2>2. ChainOK'
    BY <1>10, <2>0, <1>a DEF ChainOK, Taken, LastBlock, NextBlock, WriteStart, readVars
  <2>3. BuilderOK'
    BY <1>10, <2>0, <1>a DEF BuilderOK, Taken, WriteStart, buildVars
  <2>4. WritesWhole'
    BY <1>10, <1>a DEF WritesWhole, WriteStart
  <2> QED
    BY <2>1, <2>2, <2>3, <2>4
<1>11. CASE WriteLoop
  <2>1. BufferOK'
    BY <1>11, <1>a DEF BufferOK, FlagTypes, ReadTypes, WriteTypes, WriteLoop,
        WriteUnchanged, shared, readVars, buildVars, fileVars
  <2>2. ChainOK'
    BY <1>11, <1>a DEF ChainOK, Taken, LastBlock, NextBlock, ResyncDue, FlagTypes,
        ReadTypes, WriteTypes, WriteLoop, WriteUnchanged, shared, readVars, buildVars,
        fileVars
  <2>3. BuilderOK'
    BY <1>11, <1>a DEF BuilderOK, Taken, ResyncDue, FlagTypes, ReadTypes, WriteTypes,
        WriteLoop, WriteUnchanged, shared, readVars, buildVars, fileVars
  <2>4. WritesWhole'
    BY <1>11, <1>a DEF WritesWhole, WriteLoop, WriteUnchanged, shared, readVars,
        buildVars, fileVars
  <2> QED
    BY <2>1, <2>2, <2>3, <2>4
<1>12. CASE Dequeue
  <2>1. BufferOK'
    BY <1>12, <1>a DEF BufferOK, Dequeue, buildVars
  <2>2. ChainOK' /\ BuilderOK'
    <3>1. CASE queue = <<>> /\ wpc' = "loop" /\ UNCHANGED <<queue, word_arr, wi>>
      BY <1>12, <3>1, <1>a DEF ChainOK, BuilderOK, Taken, LastBlock, NextBlock, Dequeue,
         WriteUnchanged, readVars, buildVars
    <3>2. CASE queue # <<>> /\ word_arr' = Head(queue) /\ wi' = 0
               /\ queue' = Tail(queue) /\ wpc' = "load"
      <4>1. /\ Len(queue) > 0 /\ Len(queue') = Len(queue) - 1
            /\ word_arr' = queue[1]
            /\ \A k \in 1 .. Len(queue) - 1 : queue'[k] = queue[k + 1]
            /\ queue' = <<>> <=> Len(queue) = 1
        <5>1. Len(queue) > 0 /\ word_arr' = queue[1]
          BY <3>2 DEF ReadTypes
        <5>2. queue' \in Seq(Nat) /\ Len(queue') = Len(queue) - 1
          BY <3>2 DEF ReadTypes
        <5>3. \A k \in 1 .. Len(queue) - 1 : queue'[k] = queue[k + 1]
          BY <3>2 DEF ReadTypes
        <5>4. queue' = <<>> <=> Len(queue) = 1
          <6>1. queue' = <<>> <=> Len(queue') = 0
            BY <5>2
          <6> QED
            BY <6>1, <5>1, <5>2 DEF ReadTypes
        <5> QED
          BY <5>1, <5>2, <5>3, <5>4
      <4>2. /\ Taken = blocks_read /\ Taken' = blocks_read + 1 /\ blocks_read' = blocks_read
            /\ resync' = resync /\ blocks_enqueued' = blocks_enqueued
            /\ NextBlock' = NextBlock /\ rpc' = rpc /\ hw' = hw /\ block' = block
            /\ wi = BlockWords
        BY <1>12, <3>2, <1>a DEF Dequeue, Taken, NextBlock, WriteUnchanged, readVars, BuilderOK
      <4>3. ChainOK'
        <5>1. blocks_enqueued' = Taken' + Len(queue')
          BY <1>a, <4>1, <4>2 DEF ChainOK, ReadTypes, WriteTypes
        <5>2. ASSUME NEW k \in 1 .. Len(queue') - 1
              PROVE  queue'[k + 1] = queue'[k] + BlockWords \/ resync' = Taken' + k
          <6>1. k + 1 \in 1 .. Len(queue) - 1 /\ k \in 1 .. Len(queue) - 1
            BY <4>1 DEF ReadTypes
          <6>2. queue[k + 2] = queue[k + 1] + BlockWords \/ resync = Taken + (k + 1)
            BY <6>1, <1>a DEF ChainOK
          <6> QED
            BY <6>1, <6>2, <4>1, <4>2 DEF WriteTypes
        <5>3. queue' # <<>> => queue'[1] = word_arr' + BlockWords \/ resync' = Taken'
          <6>1. CASE queue' # <<>>
            <7>1. 1 \in 1 .. Len(queue) - 1
              BY <6>1, <4>1 DEF ReadTypes
            <7> QED
              BY <7>1, <1>a, <4>1, <4>2 DEF ChainOK
          <6> QED
            BY <6>1
        <5>4. LastBlock' = LastBlock
          BY <3>2, <4>1 DEF LastBlock, ReadTypes
        <5> QED
          BY <3>2, <1>a, <4>2, <5>1, <5>2, <5>3, <5>4 DEF ChainOK
      <4>4. BuilderOK'
        <5>1. UNCHANGED <<event_start, buffer, num_words>>
          BY <1>12 DEF Dequeue, buildVars
        <5>2. event_start => buffer[num_words - 1] + 1 = word_arr + BlockWords /\ Taken > 0
          BY <1>12, <1>a, <4>2 DEF BuilderOK, Dequeue
        <5>3. event_start => queue[1] = word_arr + BlockWords \/ resync = Taken
          BY <5>2, <3>2, <1>a DEF ChainOK
        <5>4. event_start => buffer[num_words - 1] + 1 = word_arr' \/ ResyncDue'
          BY <5>2, <5>3, <4>1, <4>2 DEF ResyncDue, NoResync, WriteTypes
        <5> QED
          BY <3>2, <4>2, <5>1, <5>4 DEF BuilderOK, WriteTypes
      <4> QED
        BY <4>3, <4>4
    <3> QED
      BY <1>12, <3>1, <3>2 DEF Dequeue
  <2>4. WritesWhole'
    BY <1>12, <1>a DEF WritesWhole, Dequeue, WriteUnchanged, fileVars
  <2> QED
    BY <2>1, <2>2, <2>4
<1>13. CASE LoadResync
  <2>1. BufferOK'
    BY <1>13, <1>a DEF BufferOK, FlagTypes, ReadTypes, WriteTypes, LoadResync,
        WriteUnchanged, shared, readVars, buildVars, fileVars
  <2>2. ChainOK'
    BY <1>13, <1>a DEF ChainOK, Taken, LastBlock, NextBlock, ResyncDue, FlagTypes,
        ReadTypes, WriteTypes, LoadResync, WriteUnchanged, shared, readVars,
        buildVars, fileVars
  <2>3. BuilderOK'
    BY <1>13, <1>a DEF BuilderOK, Taken, ResyncDue, FlagTypes, ReadTypes, WriteTypes,
        LoadResync, WriteUnchanged, shared, readVars, buildVars, fileVars
  <2>4. WritesWhole'
    BY <1>13, <1>a DEF WritesWhole, LoadResync, WriteUnchanged, shared, readVars,
        buildVars, fileVars
  <2> QED
    BY <2>1, <2>2, <2>3, <2>4
<1>14. CASE ClearResync
  <2>0. wpc' = "words" /\ UNCHANGED <<buffer, event_words>>
    BY <1>14 DEF ClearResync
  <2>1. BufferOK'
    <3>1. event_start' = FALSE
      BY <1>14 DEF ClearResync, DropPartial, FlagTypes
    <3>2. num_words' = event_words
      BY <1>14, <1>a DEF ClearResync, DropPartial, BufferOK
    <3> QED
      BY <2>0, <3>1, <3>2, <1>a DEF BufferOK
  <2>2. ChainOK'
    BY <1>14, <1>a DEF ChainOK, Taken, LastBlock, NextBlock, ResyncDue, FlagTypes,
        ReadTypes, WriteTypes, ClearResync, DropPartial, WriteUnchanged, shared, readVars, fileVars
  <2>3. BuilderOK'
    BY <1>14, <1>a DEF BuilderOK, Taken, ResyncDue, FlagTypes, ReadTypes, WriteTypes,
        ClearResync, DropPartial, WriteUnchanged, shared, readVars, fileVars
  <2>4. WritesWhole'
    BY <1>14, <1>a DEF WritesWhole, ClearResync, DropPartial, WriteUnchanged, shared, readVars,
        fileVars
  <2> QED
    BY <2>1, <2>2, <2>3, <2>4
<1>15. CASE StartWord
  <2>0. /\ wpc = "words" /\ wi' = wi + 1 /\ word_arr' = word_arr /\ Taken' = Taken
        /\ Overflow => event_start
    BY <1>15 DEF StartWord, WordStep, Taken, Clean
  <2>n. blocks_read' > 0
    BY <1>15, <1>a DEF StartWord, WordStep, BuilderOK
  <2>a. /\ event_begin' = event_words /\ event_words < BufWords
        /\ num_words' = event_words + 1 /\ event_words' = event_words
        /\ buffer' = [buffer EXCEPT ![event_words] = Word]
        /\ Word \in Starts /\ Word \notin Ends /\ event_start' = TRUE /\ wpc' = "words"
    <3>1. /\ Word \in Starts /\ Word \notin Ends /\ event_start' = TRUE /\ wpc' = "words"
          /\ event_words' = event_words
      BY <1>15, <2>0 DEF StartWord
    <3>2. CASE event_start
      BY <1>15, <1>a, <3>1, <3>2 DEF StartWord, Store, BufferOK, WriteTypes, Idx
    <3>3. CASE ~event_start
      <4>1. num_words = event_words /\ num_words < BufWords
        BY <1>a, <2>0, <3>3 DEF Overflow, BufferOK, WriteTypes
      <4> QED
        BY <1>15, <2>0, <3>1, <3>3, <4>1 DEF StartWord, Store
    <3> QED
      BY <3>2, <3>3
  <2>b. /\ buffer'[event_words] = Word
        /\ \A i \in 0 .. event_words - 1 : buffer'[i] = buffer[i]
    BY <2>a DEF WriteTypes, Idx
  <2>1. BufferOK'
    <3>1. event_words > 0 =>
            /\ buffer'[0] \in Starts /\ buffer'[event_words - 1] \in Ends
            /\ \A i \in 0 .. event_words - 2 : Joined(buffer'[i], buffer'[i + 1])
      BY <1>a, <2>b DEF BufferOK, WriteTypes
    <3> QED
      BY <3>1, <2>a, <2>b DEF BufferOK, WriteTypes
  <2>2. ChainOK'
    BY <1>15, <1>a DEF ChainOK, Taken, LastBlock, NextBlock, ResyncDue, StartWord, WordStep,
        WriteUnchanged, readVars
  <2>3. BuilderOK'
    <3>1. Taken > 0
      BY <2>0, <1>a DEF Taken, BuilderOK, WriteTypes
    <3>2. buffer'[num_words' - 1] + 1 = word_arr + (wi + 1)
      BY <2>a, <2>b DEF Word, WriteTypes
    <3> QED
      BY <2>0, <2>n, <2>a, <3>1, <3>2 DEF BuilderOK
  <2>4. WritesWhole'
    BY <1>15, <1>a DEF WritesWhole, StartWord, WordStep, WriteUnchanged, fileVars
  <2> QED
    BY <2>1, <2>2, <2>3, <2>4
<1>16. CASE SkipWord
  <2>0. /\ wpc = "words" /\ wi' = wi + 1 /\ word_arr' = word_arr /\ Taken' = Taken
        /\ Overflow => event_start
    BY <1>16 DEF SkipWord, WordStep, Taken, Clean
  <2>n. blocks_read' > 0
    BY <1>16, <1>a DEF SkipWord, WordStep, BuilderOK
  <2>1. BufferOK'
    BY <1>16, <1>a, <2>0 DEF BufferOK, SkipWord, Building, Overflow, WriteTypes
  <2>2. ChainOK'
    BY <1>16, <1>a DEF ChainOK, Taken, LastBlock, NextBlock, ResyncDue, SkipWord, WordStep,
        WriteUnchanged, readVars
  <2>3. BuilderOK'
    BY <1>16, <2>0, <2>n DEF BuilderOK, SkipWord
  <2>4. WritesWhole'
    BY <1>16, <1>a DEF WritesWhole, SkipWord, WordStep, WriteUnchanged, fileVars
  <2> QED
    BY <2>1, <2>2, <2>3, <2>4
<1>17. CASE EndWord
  <2>0. /\ wpc = "words" /\ wi' = wi + 1 /\ word_arr' = word_arr /\ Taken' = Taken
        /\ Overflow => event_start
    BY <1>17 DEF EndWord, WordStep, Taken, Clean
  <2>n. blocks_read' > 0
    BY <1>17, <1>a DEF EndWord, WordStep, BuilderOK
  <2>a. /\ event_start /\ num_words < BufWords /\ num_words' = num_words + 1
        /\ buffer' = [buffer EXCEPT ![num_words] = Word] /\ event_begin' = event_begin
        /\ event_begin = event_words /\ event_words < num_words /\ num_words > 0
    BY <1>17, <1>a DEF EndWord, Store, Building, Overflow, BufferOK, WriteTypes
  <2>b. /\ buffer'[num_words] = Word
        /\ \A i \in 0 .. num_words - 1 : buffer'[i] = buffer[i]
    BY <2>a DEF WriteTypes, Idx
  <2>c. Word = buffer[num_words - 1] + 1 /\ Word \notin Starts
    BY <1>17, <1>a, <2>0, <2>a, ReadoutAssumption DEF EndWord, BuilderOK, Word
  <2>d. /\ \A i \in event_begin .. num_words - 1 : buffer'[i] = buffer[i] /\ buffer[i] \notin Ends
        /\ \A i \in event_begin .. num_words - 1 : Joined(buffer'[i], buffer'[i + 1])
    <3>1. \A i \in event_begin .. num_words - 1 : buffer'[i] = buffer[i] /\ buffer[i] \notin Ends
      BY <1>a, <2>a, <2>b DEF BufferOK, WriteTypes, Idx
    <3>2. Joined(buffer'[num_words - 1], buffer'[num_words])
      BY <3>1, <2>a, <2>b, <2>c DEF Joined, WriteTypes, Idx
    <3>3. ASSUME NEW i \in event_begin .. num_words - 1
          PROVE  Joined(buffer'[i], buffer'[i + 1])
      <4>1. CASE i = num_words - 1
        BY <4>1, <3>2, <2>a DEF WriteTypes, Idx
      <4>2. CASE i # num_words - 1
        <5>1. i \in event_begin .. num_words - 2 /\ i \in 0 .. num_words - 1
              /\ i + 1 \in 0 .. num_words - 1
          BY <4>2, <2>a DEF WriteTypes, Idx
        <5> QED
          BY <5>1, <2>a, <2>b, <1>a DEF BufferOK
      <4> QED
        BY <4>1, <4>2
    <3> QED
      BY <3>1, <3>3
  <2>e. /\ Word \in Ends /\ event_words' = num_words + 1 /\ event_start' = FALSE
    BY <1>17 DEF EndWord, EventWords
  <2>1. BufferOK'
    <3>1. buffer'[0] \in Starts
      <4>1. CASE event_words = 0
        BY <4>1, <1>a, <2>a, <2>b DEF BufferOK, WriteTypes
      <4>2. CASE event_words > 0
        BY <4>2, <1>a, <2>a, <2>b DEF BufferOK, WriteTypes
      <4> QED
        BY <4>1, <4>2 DEF WriteTypes
    <3>2. ASSUME NEW i \in 0 .. num_words - 1
          PROVE  Joined(buffer'[i], buffer'[i + 1])
      <4>1. CASE i >= event_begin
        BY <4>1, <2>a, <2>d DEF WriteTypes, Idx
      <4>2. CASE i = event_begin - 1
        <5>1. /\ buffer'[i] = buffer[i] /\ buffer'[i + 1] = buffer[event_begin]
              /\ buffer[i] \in Ends /\ buffer[event_begin] \in Starts
          BY <4>2, <1>a, <2>a, <2>b DEF BufferOK, WriteTypes, Idx
        <5> QED
          BY <5>1 DEF Joined
      <4>3. CASE i < event_begin - 1
        <5>1. i \in 0 .. event_words - 2 /\ i + 1 \in 0 .. num_words - 1
          BY <4>3, <2>a DEF WriteTypes, Idx
        <5> QED
          BY <5>1, <2>a, <2>b, <1>a DEF BufferOK, WriteTypes
      <4> QED
        BY <4>1, <4>2, <4>3, <2>a DEF WriteTypes, Idx
    <3> QED
      BY <3>1, <3>2, <2>a, <2>b, <2>e DEF BufferOK, WriteTypes
  <2>2. ChainOK'
    BY <1>17, <1>a DEF ChainOK, Taken, LastBlock, NextBlock, ResyncDue, EndWord, WordStep,
        WriteUnchanged, readVars
  <2>3. BuilderOK'
    BY <1>17, <2>0, <2>n, <2>e DEF BuilderOK, EndWord
  <2>4. WritesWhole'
    BY <1>17, <1>a DEF WritesWhole, EndWord, WordStep, WriteUnchanged, fileVars
  <2> QED
    BY <2>1, <2>2, <2>3, <2>4
<1>18. CASE DataWord
  <2>0. /\ wpc = "words" /\ wi' = wi + 1 /\ word_arr' = word_arr /\ Taken' = Taken
        /\ Overflow => event_start
    BY <1>18 DEF DataWord, WordStep, Taken, Clean
  <2>n. blocks_read' > 0
    BY <1>18, <1>a DEF DataWord, WordStep, BuilderOK
  <2>a. /\ event_start /\ num_words < BufWords /\ num_words' = num_words + 1
        /\ buffer' = [buffer EXCEPT ![num_words] = Word] /\ event_begin' = event_begin
        /\ event_begin = event_words /\ event_words < num_words /\ num_words > 0
    BY <1>18, <1>a DEF DataWord, Store, Building, Overflow, BufferOK, WriteTypes
  <2>b. /\ buffer'[num_words] = Word
        /\ \A i \in 0 .. num_words - 1 : buffer'[i] = buffer[i]
    BY <2>a DEF WriteTypes, Idx
  <2>c. Word = buffer[num_words - 1] + 1 /\ Word \notin Starts
    BY <1>18, <1>a, <2>0, <2>a, ReadoutAssumption DEF DataWord, BuilderOK, Word
  <2>d. /\ \A i \in event_begin .. num_words - 1 : buffer'[i] = buffer[i] /\ buffer[i] \notin Ends
        /\ \A i \in event_begin .. num_words - 1 : Joined(buffer'[i], buffer'[i + 1])
    <3>1. \A i \in event_begin .. num_words - 1 : buffer'[i] = buffer[i] /\ buffer[i] \notin Ends
      BY <1>a, <2>a, <2>b DEF BufferOK, WriteTypes, Idx
    <3>2. Joined(buffer'[num_words - 1], buffer'[num_words])
      BY <3>1, <2>a, <2>b, <2>c DEF Joined, WriteTypes, Idx
    <3>3. ASSUME NEW i \in event_begin .. num_words - 1
          PROVE  Joined(buffer'[i], buffer'[i + 1])
      <4>1. CASE i = num_words - 1
        BY <4>1, <3>2, <2>a DEF WriteTypes, Idx
      <4>2. CASE i # num_words - 1
        <5>1. i \in event_begin .. num_words - 2 /\ i \in 0 .. num_words - 1
              /\ i + 1 \in 0 .. num_words - 1
          BY <4>2, <2>a DEF WriteTypes, Idx
        <5> QED
          BY <5>1, <2>a, <2>b, <1>a DEF BufferOK
      <4> QED
        BY <4>1, <4>2
    <3> QED
      BY <3>1, <3>3
  <2>e. Word \notin Ends /\ UNCHANGED <<event_words, event_start, wpc>>
    BY <1>18 DEF DataWord
  <2>1. BufferOK'
    <3>1. event_words > 0 =>
            /\ buffer'[0] \in Starts /\ buffer'[event_words - 1] \in Ends
            /\ \A i \in 0 .. event_words - 2 : Joined(buffer'[i], buffer'[i + 1])
      BY <1>a, <2>a, <2>b DEF BufferOK, WriteTypes
    <3>2. buffer'[event_begin] \in Starts
      BY <1>a, <2>a, <2>d DEF BufferOK, WriteTypes, Idx
    <3>3. \A i \in event_begin .. num_words : buffer'[i] \notin Ends
      BY <2>a, <2>b, <2>d, <2>e DEF WriteTypes, Idx
    <3> QED
      BY <3>1, <3>2, <3>3, <2>0, <2>a, <2>d, <2>e DEF BufferOK, WriteTypes, Idx
  <2>2. ChainOK'
    BY <1>18, <1>a DEF ChainOK, Taken, LastBlock, NextBlock, ResyncDue, DataWord, WordStep,
        WriteUnchanged, readVars
  <2>3. BuilderOK'
    <3>1. buffer'[num_words' - 1] + 1 = word_arr + (wi + 1)
      BY <2>a, <2>b DEF Word, WriteTypes
    <3> QED
      BY <2>0, <2>n, <2>a, <2>e, <3>1, <1>a DEF BuilderOK
  <2>4. WritesWhole'
    BY <1>18, <1>a DEF WritesWhole, DataWord, WordStep, WriteUnchanged, fileVars
  <2> QED
    BY <2>1, <2>2, <2>3, <2>4
<1>19. CASE BlockDone
  <2>1. BufferOK'
    BY <1>19, <1>a DEF BufferOK, FlagTypes, ReadTypes, WriteTypes, BlockDone,
        WriteUnchanged, shared, readVars, buildVars, fileVars
  <2>2. ChainOK'
    BY <1>19, <1>a DEF ChainOK, Taken, LastBlock, NextBlock, ResyncDue, FlagTypes,
        ReadTypes, WriteTypes, BlockDone, WriteUnchanged, shared, readVars, buildVars,
        fileVars
  <2>3. BuilderOK'
    BY <1>19, <1>a DEF BuilderOK, Taken, ResyncDue, FlagTypes, ReadTypes, WriteTypes,
        BlockDone, WriteUnchanged, shared, readVars, buildVars, fileVars
  <2>4. WritesWhole'
    BY <1>19, <1>a DEF WritesWhole, BlockDone, WriteUnchanged, shared, readVars,
        buildVars, fileVars
  <2> QED
    BY <2>1, <2>2, <2>3, <2>4
<1>20. CASE FlushChunk
  <2>1. BufferOK'
    BY <1>20, <1>a DEF BufferOK, FlagTypes, ReadTypes, WriteTypes, FlushChunk,
        RequestDiskStop, shared, readVars
  <2>2. ChainOK'
    BY <1>20, <1>a DEF ChainOK, Taken, LastBlock, NextBlock, ResyncDue, FlagTypes,
        ReadTypes, WriteTypes, FlushChunk, RequestDiskStop, shared, readVars
  <2>3. BuilderOK'
    BY <1>20, <1>a DEF BuilderOK, Taken, ResyncDue, FlagTypes, ReadTypes, WriteTypes,
        FlushChunk, RequestDiskStop, shared, readVars
  <2>4. WritesWhole'
    <3>1. num_words = event_words
      BY <1>20, <1>a DEF FlushChunk, BufferOK
    <3> QED
      BY <1>20, <1>a, <3>1, WriteKeepsWhole DEF FlushChunk
  <2> QED
    BY <2>1, <2>2, <2>3, <2>4
<1>21. CASE SwitchWriteFile
  <2>1. BufferOK'
    BY <1>21, <1>a DEF BufferOK, FlagTypes, ReadTypes, WriteTypes, SwitchWriteFile,
        RequestDiskStop, shared, readVars, buildVars
  <2>2. ChainOK'
    BY <1>21, <1>a DEF ChainOK, Taken, LastBlock, NextBlock, ResyncDue, FlagTypes,
        ReadTypes, WriteTypes, SwitchWriteFile, RequestDiskStop, shared, readVars,
        buildVars
  <2>3. BuilderOK'
    BY <1>21, <1>a DEF BuilderOK, Taken, ResyncDue, FlagTypes, ReadTypes, WriteTypes,
        SwitchWriteFile, RequestDiskStop, shared, readVars, buildVars
  <2>4. WritesWhole'
    BY <1>21, <1>a DEF WritesWhole, SwitchWriteFile, RequestDiskStop, shared,
        readVars, buildVars
  <2> QED
    BY <2>1, <2>2, <2>3, <2>4
<1>22. CASE FinalWrite
  <2>1. BufferOK'
    BY <1>22, <1>a DEF BufferOK, FlagTypes, ReadTypes, WriteTypes, FinalWrite, shared,
        readVars, buildVars
  <2>2. ChainOK'
    BY <1>22, <1>a DEF ChainOK, Taken, LastBlock, NextBlock, ResyncDue, FlagTypes,
        ReadTypes, WriteTypes, FinalWrite, shared, readVars, buildVars
  <2>3. BuilderOK'
    BY <1>22, <1>a DEF BuilderOK, Taken, ResyncDue, FlagTypes, ReadTypes, WriteTypes,
        FinalWrite, shared, readVars, buildVars
  <2>4. WritesWhole'
    BY <1>22, <1>a, WriteKeepsWhole DEF FinalWrite
  <2> QED
    BY <2>1, <2>2, <2>3, <2>4
<1>23. CASE UNCHANGED vars
  BY <1>23, <1>a DEF BufferOK, ChainOK, BuilderOK, WritesWhole, Taken, LastBlock,
                     NextBlock, ResyncDue, vars, shared, readVars, buildVars, fileVars
<1> QED
  BY <1>1, <1>2, <1>3, <1>4, <1>5, <1>6, <1>7, <1>8, <1>9, <1>10, <1>11, <1>12,
     <1>13, <1>14, <1>15, <1>16, <1>17, <1>18, <1>19, <1>20, <1>21, <1>22, <1>23
     DEF Next, ReadThread, WriteThread, Finished

(* Everything that is written to disk is whole events, for every stream of  *)
(* words and any number of timeouts and queue overflows, as long as no      *)
(* pending resync mark is lost, the event buffer is not filled exactly by    *)
(* complete events and no write() is cut short (data_handler.cpp:480-554).   *)
THEOREM WholeEventsCorrect == Spec => []WholeEvents
<1>1. TypeOK /\ ReadoutInv /\ [Next]_vars => (TypeOK /\ ReadoutInv)'
  BY TypeStep, InvStep
<1>2. ReadoutInv => WholeEvents
  BY DEF ReadoutInv, WholeEvents
<1> QED
  BY TypeInit, InvInit, <1>1, <1>2, PTL DEF Spec
-----------------------------------------------------------------------------
(* The order of the words on disk, the count of the events and the balance   *)
(* of the markers.  None of them needs the resync marks: they survive a lost *)
(* mark, and a short write as far as the order goes.                         *)

(* Blocks are taken, queued and delivered in stream order without overlap,   *)
(* whatever was lost between them.                                           *)
BlocksOK ==
  /\ \A k \in 1 .. Len(queue) - 1 : queue[k] + BlockWords <= queue[k + 1]
  /\ queue # <<>> => queue[Len(queue)] + BlockWords <= NextBlock
  /\ Taken > 0 =>
       word_arr + BlockWords <= IF queue = <<>> THEN NextBlock ELSE queue[1]
  /\ rpc = "enqueue" => hw = block + BlockWords
  /\ wpc \in {"words", "flush", "switch"} => blocks_read > 0

Uncut == "complete_cut" \notin incidents

(* The event being built starts where the complete events of the chunk end. *)
ShapeOK ==
  /\ ~event_start => num_words = event_words
  /\ event_start => event_begin = event_words /\ event_words < num_words
  /\ wpc = "flush" => ~event_start
  /\ wpc = "open" => event_count = 0

(* The words in the buffer are in order and precede the word to come. *)
HeldOK ==
  /\ num_words > 0 => Taken > 0
  /\ \A i \in 0 .. num_words - 1 : buffer[i] < word_arr + wi
  /\ \A i \in 0 .. num_words - 2 : buffer[i] < buffer[i + 1]

(* Until the final write, the words on disk precede the words in the buffer  *)
(* and the word to come.                                                     *)
DiskOK ==
  /\ writes # <<>> => Taken > 0
  /\ \A k \in 1 .. Len(writes) : Len(writes[k]) > 0
  /\ wpc # "done" =>
       \A k \in 1 .. Len(writes) : \A i \in 1 .. Len(writes[k]) :
         /\ writes[k][i] < word_arr + wi
         /\ \A j \in 0 .. num_words - 1 : writes[k][i] < buffer[j]

OrderInv == Uncut => ShapeOK /\ HeldOK /\ DiskOK /\ DiskOrder /\ MarkerBalance

(* The end markers of the complete events in the buffer. *)
HeldEnds == {p \in Ends : \E i \in 0 .. event_words - 1 : buffer[i] = p}

Unharmed == incidents \subseteq {"mark_lost", "mark_reset"}

(* The chunk holds event_chunk end markers, all of complete events. *)
CountInv ==
  Unharmed =>
    /\ IsFiniteSet(SavedEnds) /\ IsFiniteSet(HeldEnds)
    /\ Cardinality(HeldEnds) = event_chunk
    /\ event_start => \A i \in event_begin .. num_words - 1 : buffer[i] \notin Ends
    /\ EventsConserved

(* Every step keeps the blocks in stream order. *)
LEMMA BlocksStep == TypeOK /\ BlocksOK /\ [Next]_vars => BlocksOK'
<1> SUFFICES ASSUME TypeOK, BlocksOK, [Next]_vars PROVE BlocksOK'
  OBVIOUS
<1>0. /\ queue \in Seq(Nat) /\ hw \in Nat /\ block \in Nat /\ word_arr \in Nat
      /\ blocks_read \in Nat /\ BlockWords \in Nat
  BY ReadoutAssumption DEF TypeOK, ReadTypes, WriteTypes
<1> USE DEF BlocksOK, Taken, NextBlock
<1>1. CASE /\ UNCHANGED <<queue, word_arr, blocks_read, hw, block>>
           /\ Taken' = Taken
           /\ rpc' = "enqueue" => rpc = "enqueue"
           /\ rpc = "enqueue" => rpc' \in {"enqueue", "mark"}
           /\ wpc' \in {"words", "flush", "switch"} => blocks_read > 0
  BY <1>0, <1>1
<1>2. CASE DmaDone
  BY <1>0, <1>2 DEF DmaDone, ReadUnchanged
<1>3. CASE DmaTimeout
  BY <1>0, <1>3, ReadoutAssumption DEF DmaTimeout, ReadUnchanged
<1>4. CASE Enqueue /\ Len(queue) < QueueCap
  <2>1. /\ queue' = Append(queue, block) /\ rpc = "enqueue" /\ rpc' # "enqueue"
        /\ UNCHANGED <<hw, wpc, word_arr, blocks_read>>
    BY <1>4, <1>0, ReadoutAssumption DEF Enqueue, NextDma, TypeOK, ReadTypes
  <2>2. /\ Len(queue') = Len(queue) + 1 /\ queue'[Len(queue) + 1] = block
        /\ \A k \in 1 .. Len(queue) : queue'[k] = queue[k]
        /\ queue' # <<>> /\ Len(queue) \in Nat
    BY <2>1, <1>0
  <2>3. \A k \in 1 .. Len(queue') - 1 : queue'[k] + BlockWords <= queue'[k + 1]
    <3> SUFFICES ASSUME NEW k \in 1 .. Len(queue) 
                 PROVE  queue'[k] + BlockWords <= queue'[k + 1]
      BY <2>2
    <3>1. CASE k = Len(queue)
      BY <3>1, <2>1, <2>2
    <3>2. CASE k < Len(queue)
      BY <3>2, <2>1, <2>2
    <3> QED
      BY <2>2, <3>1, <3>2
  <2>4. Taken' > 0 => word_arr' + BlockWords <= queue'[1]
    BY <1>0, <2>1, <2>2
  <2>5. queue'[Len(queue')] + BlockWords <= NextBlock'
    BY <1>0, <2>1, <2>2
  <2> QED
    BY <2>1, <2>2, <2>3, <2>4, <2>5
<1>5. CASE Dequeue /\ queue # <<>>
  <2>1. /\ word_arr' = queue[1] /\ queue' = Tail(queue) /\ wpc = "poll" /\ wpc' = "load"
        /\ UNCHANGED <<hw, block, rpc, blocks_read>>
    BY <1>5, <1>0 DEF Dequeue, WriteUnchanged, readVars
  <2>2. /\ Len(queue') = Len(queue) - 1 /\ Len(queue) \in Nat \ {0}
        /\ \A k \in 1 .. Len(queue) - 1 : queue'[k] = queue[k + 1]
        /\ queue' = <<>> <=> Len(queue) = 1
    <3>1. queue' \in Seq(Nat) /\ Len(queue') = Len(queue) - 1 /\ Len(queue) \in Nat \ {0}
      BY <1>5, <1>0, <2>1
    <3>2. queue' = <<>> <=> Len(queue') = 0
      BY <3>1
    <3>3. \A k \in 1 .. Len(queue) - 1 : queue'[k] = queue[k + 1]
      BY <1>5, <1>0, <2>1
    <3> QED
      BY <3>1, <3>2, <3>3
  <2>3. \A k \in 1 .. Len(queue') - 1 : queue'[k] + BlockWords <= queue'[k + 1]
    BY <2>2
  <2>4. queue' # <<>> => queue'[Len(queue')] + BlockWords <= NextBlock'
    BY <1>5, <2>1, <2>2
  <2>5. word_arr' + BlockWords <= IF queue' = <<>> THEN NextBlock' ELSE queue'[1]
    BY <1>5, <2>1, <2>2
  <2> QED
    BY <1>0, <2>1, <2>3, <2>4, <2>5
<1>6. CASE LoadResync
  <2>1. /\ wpc = "load" /\ Taken' = Taken /\ UNCHANGED <<queue, word_arr, hw, block, rpc>>
        /\ wpc' = "words" => blocks_read' = blocks_read + 1
        /\ wpc' \notin {"flush", "switch"}
    BY <1>6 DEF LoadResync, WriteUnchanged, readVars
  <2> QED
    BY <1>0, <2>1
<1>7. CASE ClearResync
  <2>1. /\ Taken' = Taken /\ UNCHANGED <<queue, word_arr, hw, block, rpc>>
        /\ blocks_read' = blocks_read + 1
    BY <1>7 DEF ClearResync, WriteUnchanged, readVars
  <2> QED
    BY <1>0, <2>1
<1>8. CASE StopRun \/ Finished \/ UNCHANGED vars
  BY <1>8, <1>1 DEF StopRun, Finished, vars, readVars
<1>9. CASE ReadStart \/ ReadLoop \/ DmaAbort \/ MarkResync \/ ReadStop
  BY <1>9, <1>1 DEF ReadStart, ReadLoop, DmaAbort, MarkResync, ReadStop, ReadUnchanged,
                    NextDma
<1>10. CASE Enqueue /\ Len(queue) = QueueCap
  BY <1>0, <1>10, <1>1, ReadoutAssumption DEF Enqueue
<1>11. CASE WriteStart \/ WriteLoop \/ (Dequeue /\ queue = <<>>) \/ BlockDone
  BY <1>11, <1>1 DEF WriteStart, WriteLoop, Dequeue, BlockDone, WriteUnchanged, readVars
<1>12. CASE StartWord \/ SkipWord \/ EndWord \/ DataWord
  BY <1>12, <1>1 DEF StartWord, SkipWord, EndWord, DataWord, WordStep, WriteUnchanged,
                     readVars
<1>13. CASE FlushChunk \/ SwitchWriteFile \/ FinalWrite
  BY <1>13, <1>1 DEF FlushChunk, SwitchWriteFile, FinalWrite, readVars
<1>14. Enqueue => Len(queue) < QueueCap \/ Len(queue) = QueueCap
  BY DEF Enqueue
<1> QED
  BY <1>2, <1>3, <1>4, <1>5, <1>6, <1>7, <1>8, <1>9, <1>10, <1>11, <1>12, <1>13, <1>14
     DEF Next, ReadThread, WriteThread

(* A word stored behind words that are in order, which it follows. *)
LEMMA StoreKeepsOrder ==
  ASSUME TypeOK, BlocksOK, HeldOK, DiskOK, NEW n \in 0 .. num_words, n < BufWords,
         Store(n), wpc = "words", wi < BlockWords, wi' = wi + 1, wpc' # "load",
         wpc' # "clear", UNCHANGED <<word_arr, blocks_read, writes>>
  PROVE  HeldOK' /\ DiskOK'
<1>0. /\ buffer \in [0 .. BufWords - 1 -> Nat] /\ num_words \in Nat /\ n \in Nat
      /\ word_arr \in Nat /\ wi \in Nat /\ BufWords \in Nat /\ num_words <= BufWords
      /\ blocks_read \in Nat
  BY ReadoutAssumption DEF TypeOK, WriteTypes, Idx
<1>1. /\ buffer' = [buffer EXCEPT ![n] = word_arr + wi] /\ num_words' = n + 1
      /\ n \in 0 .. BufWords - 1
  BY <1>0 DEF Store, Word
<1>2. Taken' > 0 /\ Taken > 0
  BY <1>0 DEF BlocksOK, Taken
<1>3. /\ buffer'[n] = word_arr + wi
      /\ \A i \in 0 .. n - 1 : buffer'[i] = buffer[i] /\ buffer[i] < word_arr + wi
  BY <1>0, <1>1 DEF HeldOK
<1>4. HeldOK'
  <2>1. \A i \in 0 .. num_words' - 1 : buffer'[i] < word_arr' + wi'
    BY <1>0, <1>1, <1>3
  <2>2. \A i \in 0 .. num_words' - 2 : buffer'[i] < buffer'[i + 1]
    <3> SUFFICES ASSUME NEW i \in 0 .. n - 1 PROVE buffer'[i] < buffer'[i + 1]
      BY <1>0, <1>1
    <3>1. CASE i = n - 1
      BY <3>1, <1>0, <1>3
    <3>2. CASE i < n - 1
      BY <3>2, <1>0, <1>3 DEF HeldOK
    <3> QED
      BY <1>0, <3>1, <3>2
  <2> QED
    BY <1>2, <2>1, <2>2 DEF HeldOK
<1>5. DiskOK'
  <2> SUFFICES ASSUME NEW k \in 1 .. Len(writes), NEW i \in 1 .. Len(writes[k])
               PROVE  /\ writes[k][i] < word_arr + (wi + 1)
                      /\ \A j \in 0 .. n : writes[k][i] < buffer'[j]
    BY <1>0, <1>1, <1>2 DEF DiskOK
  <2>1. /\ writes[k][i] < word_arr + wi /\ writes[k][i] \in Nat
        /\ \A j \in 0 .. num_words - 1 : writes[k][i] < buffer[j]
    BY DEF DiskOK, TypeOK, FileTypes
  <2>2. \A j \in 0 .. n : j = n \/ (j \in 0 .. n - 1 /\ j \in 0 .. num_words - 1)
    BY <1>0
  <2>3. \A j \in 0 .. n : writes[k][i] < buffer'[j]
    <3> TAKE j \in 0 .. n
    <3>1. CASE j = n
      BY <3>1, <1>3, <2>1
    <3>2. CASE j \in 0 .. n - 1 /\ j \in 0 .. num_words - 1
      BY <3>2, <1>3, <2>1
    <3> QED
      BY <2>2, <3>1, <3>2
  <2> QED
    BY <1>0, <2>1, <2>3
<1> QED
  BY <1>4, <1>5

(* A write() of words that are in order and follow those on disk, all of     *)
(* them or a part.                                                           *)
LEMMA WriteKeepsOrder ==
  ASSUME TypeOK, Uncut, DiskOrder, HeldOK, DiskOK, wpc # "done",
         NEW n \in 0 .. num_words, NEW r \in WriteResult, WriteBuffer(n, r)
  PROVE  /\ writes' # <<>> => Taken > 0
         /\ \A k \in 1 .. Len(writes') : Len(writes'[k]) > 0
         /\ \A k \in 1 .. Len(writes') : \A i \in 1 .. Len(writes'[k]) :
              writes'[k][i] < word_arr + wi
         /\ DiskOrder'
<1>0. /\ writes \in Seq(Seq(Nat)) /\ num_words \in 0 .. BufWords /\ BufWords \in Nat
      /\ n \in Nat /\ buffer \in [0 .. BufWords - 1 -> Nat] /\ num_words \in Nat
  BY ReadoutAssumption DEF TypeOK, WriteTypes, FileTypes, Idx
<1>1. CASE writes' = writes
  BY <1>1 DEF DiskOK, DiskOrder, Uncut
<1>2. ASSUME NEW m \in 1 .. n, writes' = Append(writes, Words(m))
      PROVE  /\ writes' # <<>> => Taken > 0
             /\ \A k \in 1 .. Len(writes') : Len(writes'[k]) > 0
             /\ \A k \in 1 .. Len(writes') : \A i \in 1 .. Len(writes'[k]) :
                  writes'[k][i] < word_arr + wi
             /\ DiskOrder'
  <2> DEFINE w == Words(m)
             N == Len(writes)
  <2>1. w \in Seq(Nat) /\ Len(w) = m /\ m \in Nat /\ m > 0 /\ m <= num_words
    BY <1>0, WordsType
  <2>2. \A i \in 1 .. m : w[i] = buffer[i - 1]
    BY DEF Words
  <2>3. /\ N \in Nat /\ Len(writes') = N + 1 /\ writes'[N + 1] = w
        /\ \A k \in 1 .. N : writes'[k] = writes[k]
    BY <1>0, <1>2, <2>1
  <2>4. \A i \in 1 .. m : w[i] < word_arr + wi
    <3> TAKE i \in 1 .. m
    <3>1. i - 1 \in 0 .. num_words - 1
      BY <1>0, <2>1
    <3> QED
      BY <2>2, <3>1 DEF HeldOK
  <2>5. \A i \in 1 .. m - 1 : w[i] < w[i + 1]
    <3> TAKE i \in 1 .. m - 1
    <3>1. /\ i - 1 \in 0 .. num_words - 2 /\ i \in 1 .. m /\ i + 1 \in 1 .. m
          /\ (i + 1) - 1 = (i - 1) + 1
      BY <1>0, <2>1
    <3>2. w[i] = buffer[i - 1] /\ w[i + 1] = buffer[(i - 1) + 1]
      BY <2>2, <3>1
    <3> QED
      BY <3>1, <3>2 DEF HeldOK
  <2>6. N > 0 => writes[N][Len(writes[N])] < w[1]
    <3> SUFFICES ASSUME N > 0 PROVE writes[N][Len(writes[N])] < w[1]
      OBVIOUS
    <3>1. N \in 1 .. N /\ Len(writes[N]) \in 1 .. Len(writes[N])
      <4>1. N \in 1 .. N
        BY <2>3
      <4>2. writes[N] \in Seq(Nat) /\ Len(writes[N]) > 0
        BY <1>0, <4>1 DEF DiskOK
      <4>3. Len(writes[N]) \in Nat
        BY <4>2
      <4> QED
        BY <4>1, <4>2, <4>3
    <3>2. w[1] = buffer[0] /\ 0 \in 0 .. num_words - 1
      BY <1>0, <2>1, <2>2
    <3> QED
      BY <3>1, <3>2 DEF DiskOK
  <2> HIDE DEF w
  <2>7. Taken > 0
    BY <1>0, <2>1 DEF HeldOK
  <2>8. \A k \in 1 .. N : Len(writes[k]) > 0
    BY DEF DiskOK
  <2>9. \A k \in 1 .. N : \A i \in 1 .. Len(writes[k]) : writes[k][i] < word_arr + wi
    BY DEF DiskOK
  <2>10. /\ \A k \in 1 .. N : \A i \in 1 .. Len(writes[k]) - 1 :
              writes[k][i] < writes[k][i + 1]
         /\ \A k \in 1 .. N - 1 : writes[k][Len(writes[k])] < writes[k + 1][1]
    BY DEF DiskOrder, Uncut
  <2> HIDE DEF N
  <2>11. \A k \in 1 .. Len(writes') : k \in 1 .. N \/ k = N + 1
    BY <2>3
  <2>12. \A k \in 1 .. Len(writes') : Len(writes'[k]) > 0
    BY <2>1, <2>3, <2>8, <2>11
  <2>13. \A k \in 1 .. Len(writes') : \A i \in 1 .. Len(writes'[k]) :
           writes'[k][i] < word_arr + wi
    BY <2>1, <2>3, <2>4, <2>9, <2>11
  <2>14. \A k \in 1 .. Len(writes') : \A i \in 1 .. Len(writes'[k]) - 1 :
           writes'[k][i] < writes'[k][i + 1]
    BY <2>1, <2>3, <2>5, <2>10, <2>11
  <2>15. \A k \in 1 .. Len(writes') - 1 :
           writes'[k][Len(writes'[k])] < writes'[k + 1][1]
    <3> TAKE k \in 1 .. Len(writes') - 1
    <3>1. CASE k = N
      <4>1. writes'[N] = writes[N] /\ writes'[N + 1] = w /\ N > 0
        BY <2>3, <3>1
      <4> QED
        BY <3>1, <4>1, <2>6 DEF N
    <3>2. CASE k \in 1 .. N - 1
      <4>1. writes'[k] = writes[k] /\ writes'[k + 1] = writes[k + 1]
        BY <2>3, <3>2
      <4> QED
        BY <3>2, <4>1, <2>10
    <3> QED
      BY <2>3, <3>1, <3>2
  <2> QED
    BY <2>7, <2>12, <2>13, <2>14, <2>15 DEF DiskOrder
<1>3. writes' = writes \/ \E m \in 1 .. n : writes' = Append(writes, Words(m))
  BY <1>0 DEF WriteBuffer
<1> QED
  BY <1>1, <1>2, <1>3

(* Every step keeps the order of the words and the balance of the markers. *)
LEMMA OrderStep == TypeOK /\ BlocksOK /\ OrderInv /\ [Next]_vars => OrderInv'
<1> SUFFICES ASSUME TypeOK, BlocksOK, OrderInv, [Next]_vars, Uncut'
             PROVE  (ShapeOK /\ HeldOK /\ DiskOK /\ DiskOrder /\ MarkerBalance)'
  BY DEF OrderInv
<1>a. Uncut /\ ShapeOK /\ HeldOK /\ DiskOK /\ DiskOrder /\ MarkerBalance
  BY IncidentsGrow DEF Uncut, OrderInv
<1>0. /\ queue \in Seq(Nat) /\ word_arr \in Nat /\ wi \in 0 .. BlockWords
      /\ BlockWords \in Nat /\ BufWords \in Nat /\ num_words \in 0 .. BufWords
      /\ event_begin \in 0 .. BufWords - 1 /\ event_words \in 0 .. BufWords
      /\ event_start \in BOOLEAN /\ blocks_read \in Nat /\ start_count \in Nat
      /\ event_count \in Nat /\ dropped_partial \in Nat
      /\ buffer \in [0 .. BufWords - 1 -> Nat] /\ writes \in Seq(Seq(Nat))
  BY ReadoutAssumption DEF TypeOK, FlagTypes, ReadTypes, WriteTypes, FileTypes, Idx
<1>b. start_count = event_count + dropped_partial + (IF event_start THEN 1 ELSE 0)
  BY <1>a DEF MarkerBalance, Uncut
<1>c. \A k \in 1 .. Len(writes) : \A i \in 1 .. Len(writes[k]) : writes[k][i] \in Nat
  <2> TAKE k \in 1 .. Len(writes)
  <2> TAKE i \in 1 .. Len(writes[k])
  <2>1. writes \in Seq(Seq(Nat))
    BY <1>0
  <2>2. writes[k] \in Seq(Nat)
    BY <2>1
  <2> QED
    BY <2>2
(* Steps that leave the buffer, the disk and the counters alone. *)
<1>1. CASE /\ UNCHANGED <<word_arr, wi, buildVars, writes>>
           /\ event_count' = event_count /\ Taken' = Taken
           /\ wpc' = "flush" => wpc = "flush"
           /\ wpc' = "open" => wpc = "open"
           /\ wpc = "done" => wpc' = "done"
  <2>1. ShapeOK'
    BY <1>a, <1>1 DEF ShapeOK, buildVars
  <2>2. HeldOK'
    BY <1>a, <1>1 DEF HeldOK, buildVars
  <2>3. DiskOK'
    BY <1>a, <1>1 DEF DiskOK, buildVars
  <2>4. DiskOrder' /\ MarkerBalance'
    BY <1>a, <1>1 DEF DiskOrder, MarkerBalance, Uncut, buildVars
  <2> QED
    BY <2>1, <2>2, <2>3, <2>4
<1>2. CASE StopRun \/ Finished \/ UNCHANGED vars
  BY <1>2, <1>1 DEF StopRun, Finished, vars, fileVars, Taken
<1>3. CASE ReadThread
  BY <1>3, <1>1 DEF ReadThread, ReadStart, ReadLoop, DmaDone, DmaTimeout, DmaAbort,
                    Enqueue, MarkResync, ReadStop, ReadUnchanged, fileVars, Taken
<1>4. CASE WriteStart \/ WriteLoop \/ BlockDone \/ SwitchWriteFile
  BY <1>4, <1>1, <1>a DEF WriteStart, WriteLoop, BlockDone, SwitchWriteFile, ShapeOK,
                          WriteUnchanged, fileVars, Taken
<1>5. CASE LoadResync
  BY <1>5, <1>1, <1>0 DEF LoadResync, WriteUnchanged, fileVars, Taken
<1>6. CASE Dequeue
  <2>1. CASE queue = <<>>
    BY <1>6, <2>1, <1>1 DEF Dequeue, WriteUnchanged, fileVars, Taken
  <2>2. CASE queue # <<>>
    <3>1. /\ word_arr' = queue[1] /\ wi' = 0 /\ wpc = "poll" /\ wpc' = "load"
          /\ UNCHANGED <<buildVars, writes, event_count, blocks_read>>
      BY <1>6, <1>0, <2>2 DEF Dequeue, WriteUnchanged, fileVars
    <3>2. Taken > 0 => word_arr + wi <= word_arr' + wi'
      <4>1. queue[1] \in Nat
        BY <1>0, <2>2
      <4> QED
        BY <1>0, <2>2, <3>1, <4>1 DEF BlocksOK
    <3>3. word_arr' + wi' \in Nat /\ Taken' > 0
      BY <1>0, <2>2, <3>1 DEF Taken
    <3>4. ShapeOK'
      BY <1>a, <3>1 DEF ShapeOK, buildVars
    <3>5. HeldOK'
      <4>1. \A i \in 0 .. num_words - 1 : buffer[i] < word_arr' + wi'
        <5> TAKE i \in 0 .. num_words - 1
        <5>1. buffer[i] < word_arr + wi /\ Taken > 0 /\ buffer[i] \in Nat
          BY <1>a, <1>0 DEF HeldOK
        <5> QED
          BY <5>1, <3>2, <3>3, <1>0
      <4> QED
        BY <1>a, <4>1, <3>1, <3>3 DEF HeldOK, buildVars
    <3>6. DiskOK'
      <4>1. \A k \in 1 .. Len(writes) : \A i \in 1 .. Len(writes[k]) :
              writes[k][i] < word_arr' + wi'
        <5> TAKE k \in 1 .. Len(writes)
        <5> TAKE i \in 1 .. Len(writes[k])
        <5>1. writes[k][i] < word_arr + wi /\ writes[k][i] \in Nat
          BY <1>a, <1>c, <3>1 DEF DiskOK
        <5>2. Taken > 0
          <6>1. writes # <<>>
            BY <1>0
          <6> QED
            BY <1>a, <6>1 DEF DiskOK
        <5> QED
          BY <5>1, <5>2, <3>2, <3>3, <1>0
      <4> QED
        BY <1>a, <4>1, <3>1, <3>3 DEF DiskOK, buildVars
    <3>7. DiskOrder' /\ MarkerBalance'
      BY <1>a, <3>1 DEF DiskOrder, MarkerBalance, Uncut, buildVars
    <3> QED
      BY <3>4, <3>5, <3>6, <3>7
  <2> QED
    BY <2>1, <2>2
<1>7. CASE ClearResync
  <2>1. /\ word_arr' = word_arr /\ wi' = wi /\ Taken' = Taken /\ buffer' = buffer
        /\ wpc = "clear" /\ wpc' = "words" /\ writes' = writes /\ event_words' = event_words
        /\ event_count' = event_count /\ event_begin' = event_begin
        /\ start_count' = start_count
    BY <1>7, <1>0 DEF ClearResync, WriteUnchanged, fileVars, Taken
  <2>2. /\ num_words' = event_words /\ event_words <= num_words /\ event_start' = FALSE
        /\ event_start = TRUE => dropped_partial' = dropped_partial + 1
        /\ event_start = FALSE => dropped_partial' = dropped_partial
    BY <1>7, <1>a, <1>0 DEF ClearResync, DropPartial, ShapeOK
  <2>3. ShapeOK'
    BY <2>1, <2>2 DEF ShapeOK
  <2>4. HeldOK'
    BY <1>a, <1>0, <2>1, <2>2 DEF HeldOK
  <2>5. DiskOK'
    BY <1>a, <1>0, <2>1, <2>2 DEF DiskOK
  <2>6. DiskOrder'
    BY <1>a, <2>1 DEF DiskOrder, Uncut
  <2>7. MarkerBalance'
    <3>1. CASE event_start = TRUE
      BY <1>b, <1>0, <2>1, <2>2, <3>1 DEF MarkerBalance
    <3>2. CASE event_start = FALSE
      BY <1>b, <1>0, <2>1, <2>2, <3>2 DEF MarkerBalance
    <3> QED
      BY <1>0, <3>1, <3>2
  <2> QED
    BY <2>3, <2>4, <2>5, <2>6, <2>7
<1>8. CASE StartWord
  <2>1. Overflow => event_start
    BY <1>8 DEF StartWord, WordStep, Uncut
  <2>2. PICK n : /\ n = event_words /\ n \in 0 .. num_words /\ n < BufWords /\ Store(n)
                 /\ event_begin' = n
    BY <1>8, <1>a, <1>0, <2>1 DEF StartWord, ShapeOK, Overflow
  <2>3. /\ wpc = "words" /\ wpc' = wpc /\ wi < BlockWords /\ wi' = wi + 1
        /\ event_start' = TRUE /\ start_count' = start_count + 1
        /\ UNCHANGED <<word_arr, blocks_read, writes, event_words, event_count>>
    BY <1>8 DEF StartWord, WordStep, WriteUnchanged, fileVars
  <2>4. HeldOK' /\ DiskOK'
    BY <1>a, <2>2, <2>3, StoreKeepsOrder
  <2>5. ShapeOK'
    BY <1>0, <2>2, <2>3 DEF ShapeOK, Store
  <2>6. DiskOrder'
    BY <1>a, <2>3 DEF DiskOrder, Uncut
  <2>7. /\ event_start = TRUE => dropped_partial' = dropped_partial + 1
        /\ event_start = FALSE => dropped_partial' = dropped_partial
    BY <1>8, <2>1 DEF StartWord
  <2>8. MarkerBalance'
    <3>1. CASE event_start = TRUE
      BY <1>b, <1>0, <2>3, <2>7, <3>1 DEF MarkerBalance
    <3>2. CASE event_start = FALSE
      BY <1>b, <1>0, <2>3, <2>7, <3>2 DEF MarkerBalance
    <3> QED
      BY <1>0, <3>1, <3>2
  <2> QED
    BY <2>4, <2>5, <2>6, <2>8
<1>9. CASE SkipWord
  <2>1. Overflow <=> event_start
    BY <1>9 DEF SkipWord, Building, WordStep, Uncut
  <2>2. /\ num_words' = event_words /\ event_words <= num_words /\ event_start' = FALSE
        /\ event_start = TRUE => dropped_partial' = dropped_partial + 1
        /\ event_start = FALSE => dropped_partial' = dropped_partial
    BY <1>9, <1>a, <1>0, <2>1 DEF SkipWord, ShapeOK
  <2>3. /\ wpc = "words" /\ wpc' = wpc /\ wi' = wi + 1
        /\ UNCHANGED <<word_arr, blocks_read, writes, event_words, event_count, buffer,
                       event_begin, start_count>>
    BY <1>9 DEF SkipWord, WordStep, WriteUnchanged, fileVars
  <2>4. ShapeOK'
    BY <2>2, <2>3 DEF ShapeOK
  <2>5. HeldOK'
    <3>1. \A i \in 0 .. num_words - 1 : buffer[i] \in Nat
      BY <1>0
    <3> QED
      BY <1>a, <1>0, <2>2, <2>3, <3>1 DEF HeldOK, Taken
  <2>6. DiskOK'
    <3> SUFFICES ASSUME NEW k \in 1 .. Len(writes), NEW i \in 1 .. Len(writes[k])
                 PROVE  /\ writes[k][i] < word_arr + (wi + 1)
                        /\ \A j \in 0 .. event_words - 1 : writes[k][i] < buffer[j]
      BY <1>a, <2>2, <2>3 DEF DiskOK, Taken
    <3>1. /\ writes[k][i] < word_arr + wi
          /\ \A j \in 0 .. num_words - 1 : writes[k][i] < buffer[j]
      BY <1>a, <2>3 DEF DiskOK
    <3>2. writes[k][i] \in Nat
      BY <1>c
    <3>3. writes[k][i] < word_arr + (wi + 1)
      <4>1. word_arr \in Nat /\ wi \in Nat
        BY <1>0
      <4> QED
        BY <3>1, <3>2, <4>1
    <3>4. \A j \in 0 .. event_words - 1 : j \in 0 .. num_words - 1
      BY <1>0, <2>2
    <3> QED
      BY <3>1, <3>3, <3>4
  <2>7. DiskOrder'
    BY <1>a, <2>3 DEF DiskOrder, Uncut
  <2>8. MarkerBalance'
    <3>1. CASE event_start = TRUE
      BY <1>b, <1>0, <2>2, <2>3, <3>1 DEF MarkerBalance
    <3>2. CASE event_start = FALSE
      BY <1>b, <1>0, <2>2, <2>3, <3>2 DEF MarkerBalance
    <3> QED
      BY <1>0, <3>1, <3>2
  <2> QED
    BY <2>4, <2>5, <2>6, <2>7, <2>8
<1>10. CASE EndWord
  <2>1. /\ event_start = TRUE /\ num_words < BufWords /\ wpc = "words"
        /\ wpc' \in {"words", "flush"} /\ wi < BlockWords /\ wi' = wi + 1
        /\ Store(num_words) /\ event_words' = num_words + 1 /\ event_start' = FALSE
        /\ event_count' = event_count + 1
        /\ UNCHANGED <<word_arr, blocks_read, writes, start_count, dropped_partial>>
    BY <1>10, <1>0 DEF EndWord, EventWords, Building, Overflow, WordStep,
                       WriteUnchanged, fileVars
  <2>2. HeldOK' /\ DiskOK'
    BY <1>a, <1>0, <2>1, StoreKeepsOrder
  <2>3. ShapeOK'
    BY <2>1 DEF ShapeOK, Store
  <2>4. DiskOrder'
    BY <1>a, <2>1 DEF DiskOrder, Uncut
  <2>5. MarkerBalance'
    BY <1>b, <1>0, <2>1 DEF MarkerBalance
  <2> QED
    BY <2>2, <2>3, <2>4, <2>5
<1>11. CASE DataWord
  <2>1. /\ event_start = TRUE /\ num_words < BufWords /\ wpc = "words" /\ wpc' = wpc
        /\ wi < BlockWords /\ wi' = wi + 1 /\ Store(num_words)
        /\ UNCHANGED <<word_arr, blocks_read, writes, start_count, dropped_partial,
                       event_count, event_start, event_begin, event_words>>
    BY <1>11, <1>0 DEF DataWord, Building, Overflow, WordStep, WriteUnchanged, fileVars
  <2>2. HeldOK' /\ DiskOK'
    BY <1>a, <1>0, <2>1, StoreKeepsOrder
  <2>3. ShapeOK'
    BY <1>a, <1>0, <2>1 DEF ShapeOK, Store
  <2>4. DiskOrder'
    BY <1>a, <2>1 DEF DiskOrder, Uncut
  <2>5. MarkerBalance'
    BY <1>b, <2>1 DEF MarkerBalance
  <2> QED
    BY <2>2, <2>3, <2>4, <2>5
<1>12. CASE FlushChunk
  <2>1. PICK r \in WriteResult : WriteBuffer(num_words, r)
    BY <1>12 DEF FlushChunk
  <2>2. /\ wpc = "flush" /\ wpc' \in {"switch", "words"} /\ event_start' = FALSE
        /\ num_words' = 0 /\ event_words' = 0
        /\ UNCHANGED <<event_count, word_arr, wi, dropped_partial, start_count,
                       blocks_read>>
    BY <1>12 DEF FlushChunk
  <2>3. /\ writes' # <<>> => Taken > 0
        /\ \A k \in 1 .. Len(writes') : Len(writes'[k]) > 0
        /\ \A k \in 1 .. Len(writes') : \A i \in 1 .. Len(writes'[k]) :
             writes'[k][i] < word_arr + wi
        /\ DiskOrder'
    <3>1. num_words \in 0 .. num_words /\ wpc # "done"
      BY <1>0, <2>2
    <3> QED
      BY <1>a, <2>1, <3>1, WriteKeepsOrder
  <2>4. ShapeOK' /\ HeldOK'
    BY <2>2 DEF ShapeOK, HeldOK
  <2>5. DiskOK'
    BY <2>2, <2>3 DEF DiskOK, Taken
  <2>6. MarkerBalance'
    BY <1>a, <1>b, <2>2 DEF MarkerBalance, ShapeOK
  <2> QED
    BY <2>3, <2>4, <2>5, <2>6
<1>13. CASE FinalWrite
  <2>1. PICK r \in WriteResult : WriteBuffer(event_words, r)
    BY <1>13 DEF FinalWrite
  <2>2. /\ wpc = "final" /\ wpc' = "done"
        /\ UNCHANGED <<event_count, word_arr, wi, buildVars, blocks_read>>
    BY <1>13 DEF FinalWrite
  <2>3. event_words \in 0 .. num_words
    BY <1>a, <1>0 DEF ShapeOK
  <2>4. /\ writes' # <<>> => Taken > 0
        /\ \A k \in 1 .. Len(writes') : Len(writes'[k]) > 0
        /\ DiskOrder'
    <3>1. wpc # "done"
      BY <2>2
    <3> QED
      BY <1>a, <2>1, <2>3, <3>1, WriteKeepsOrder
  <2>5. ShapeOK' /\ HeldOK'
    BY <1>a, <2>2 DEF ShapeOK, HeldOK, Taken, buildVars
  <2>6. DiskOK'
    BY <2>2, <2>4 DEF DiskOK, Taken
  <2>7. MarkerBalance'
    BY <1>b, <2>2 DEF MarkerBalance, buildVars
  <2> QED
    BY <2>4, <2>5, <2>6, <2>7
<1> QED
  BY <1>2, <1>3, <1>4, <1>5, <1>6, <1>7, <1>8, <1>9, <1>10, <1>11, <1>12, <1>13
     DEF Next, WriteThread

(* A write() without an incident saves exactly the end markers in the chunk. *)
LEMMA WriteSaves ==
  ASSUME TypeOK, NEW r \in WriteResult, WriteBuffer(event_words, r), Unharmed'
  PROVE  SavedEnds' = SavedEnds \cup HeldEnds
<1>0. /\ writes \in Seq(Seq(Nat)) /\ event_words \in 0 .. BufWords /\ BufWords \in Nat
  BY ReadoutAssumption DEF TypeOK, WriteTypes, FileTypes
<1>1. CASE event_words = 0
  <2>1. writes' = writes /\ HeldEnds = {}
    BY <1>1 DEF WriteBuffer, HeldEnds
  <2> QED
    BY <2>1 DEF SavedEnds
<1>2. CASE event_words > 0
  <2> DEFINE w == Words(event_words)
  <2>1. writes' = Append(writes, w)
    BY <1>0, <1>2 DEF WriteBuffer, Unharmed
  <2>2. w \in Seq(Nat) /\ Len(w) = event_words
    BY <1>0, WordsType
  <2>3. \A i \in 1 .. event_words : w[i] = buffer[i - 1]
    BY DEF Words
  <2> HIDE DEF w
  <2>4. /\ Len(writes) \in Nat /\ Len(writes') = Len(writes) + 1
        /\ writes'[Len(writes) + 1] = w
        /\ \A k \in 1 .. Len(writes) : writes'[k] = writes[k]
    BY <1>0, <2>1, <2>2
  <2>5. ASSUME NEW p \in SavedEnds'
        PROVE  p \in SavedEnds \cup HeldEnds
    <3>1. PICK k \in 1 .. Len(writes') : \E i \in 1 .. Len(writes'[k]) : writes'[k][i] = p
      BY <2>5 DEF SavedEnds
    <3>2. PICK i \in 1 .. Len(writes'[k]) : writes'[k][i] = p
      BY <3>1
    <3>3. p \in Ends
      BY <2>5 DEF SavedEnds
    <3>4. CASE k \in 1 .. Len(writes)
      BY <2>4, <3>2, <3>3, <3>4 DEF SavedEnds
    <3>5. CASE k = Len(writes) + 1
      <4>1. i \in 1 .. event_words /\ p = buffer[i - 1]
        BY <2>2, <2>3, <2>4, <3>2, <3>5
      <4>2. i - 1 \in 0 .. event_words - 1
        BY <1>0, <4>1
      <4> QED
        BY <3>3, <4>1, <4>2 DEF HeldEnds
    <3> QED
      BY <2>4, <3>4, <3>5
  <2>6. ASSUME NEW p \in SavedEnds
        PROVE  p \in SavedEnds'
    <3>1. PICK k \in 1 .. Len(writes) : \E i \in 1 .. Len(writes[k]) : writes[k][i] = p
      BY <2>6 DEF SavedEnds
    <3>2. k \in 1 .. Len(writes') /\ writes'[k] = writes[k] /\ p \in Ends
      BY <2>4, <2>6 DEF SavedEnds
    <3> QED
      BY <3>1, <3>2 DEF SavedEnds
  <2>7. ASSUME NEW p \in HeldEnds
        PROVE  p \in SavedEnds'
    <3>1. p \in Ends
      BY <2>7 DEF HeldEnds
    <3>2. PICK i \in 0 .. event_words - 1 : buffer[i] = p
      BY <2>7 DEF HeldEnds
    <3>3. i + 1 \in 1 .. event_words /\ (i + 1) - 1 = i
      BY <1>0, <3>2
    <3>4. w[i + 1] = p
      BY <2>3, <3>2, <3>3
    <3>5. /\ Len(writes) + 1 \in 1 .. Len(writes')
          /\ i + 1 \in 1 .. Len(writes'[Len(writes) + 1])
          /\ writes'[Len(writes) + 1][i + 1] = p
      BY <2>2, <2>4, <3>3, <3>4
    <3> QED
      BY <3>1, <3>5 DEF SavedEnds
  <2> QED
    BY <2>5, <2>6, <2>7
<1> QED
  BY <1>0, <1>1, <1>2

(* No end marker of the chunk is on disk yet. *)
LEMMA HeldUnsaved ==
  ASSUME TypeOK, DiskOK, wpc # "done", event_words <= num_words
  PROVE  SavedEnds \cap HeldEnds = {}
<1> SUFFICES ASSUME NEW p \in SavedEnds, p \in HeldEnds PROVE FALSE
  OBVIOUS
<1>1. PICK k \in 1 .. Len(writes) : \E i \in 1 .. Len(writes[k]) : writes[k][i] = p
  BY DEF SavedEnds
<1>2. PICK j \in 0 .. event_words - 1 : buffer[j] = p
  BY DEF HeldEnds
<1>3. j \in 0 .. num_words - 1
  BY <1>2, ReadoutAssumption DEF TypeOK, WriteTypes
<1>4. p < p
  BY <1>1, <1>2, <1>3 DEF DiskOK
<1>5. p \in Nat
  BY ReadoutAssumption DEF SavedEnds
<1> QED
  BY <1>4, <1>5

(* The chunk moves to disk, and its end markers with it. *)
LEMMA CountMoves ==
  ASSUME TypeOK, OrderInv, CountInv, Unharmed, wpc # "done", NEW r \in WriteResult,
         WriteBuffer(event_words, r), Unharmed'
  PROVE  IsFiniteSet(SavedEnds') /\ Cardinality(SavedEnds') = event_count
<1>1. ShapeOK /\ DiskOK
  BY DEF OrderInv, Uncut, Unharmed
<1>2. event_words <= num_words
  BY <1>1, ReadoutAssumption DEF ShapeOK, TypeOK, FlagTypes, WriteTypes
<1>3. /\ IsFiniteSet(SavedEnds) /\ IsFiniteSet(HeldEnds)
      /\ Cardinality(HeldEnds) = event_chunk
      /\ event_count = Cardinality(SavedEnds) + event_chunk
  BY DEF CountInv, EventsConserved, Unharmed
<1>4. SavedEnds' = SavedEnds \cup HeldEnds /\ SavedEnds \cap HeldEnds = {}
  BY <1>1, <1>2, WriteSaves, HeldUnsaved
<1>5. /\ IsFiniteSet(SavedEnds \cup HeldEnds)
      /\ Cardinality(SavedEnds \cup HeldEnds)
           = Cardinality(SavedEnds) + Cardinality(HeldEnds)
             - Cardinality(SavedEnds \cap HeldEnds)
  BY <1>3, FS_Union
<1>6. Cardinality(SavedEnds) \in Nat /\ Cardinality(SavedEnds \cap HeldEnds) = 0
  BY <1>3, <1>4, FS_CardinalityType, FS_EmptySet
<1>7. event_chunk \in Nat
  BY ReadoutAssumption DEF TypeOK, WriteTypes
<1> QED
  BY <1>3, <1>4, <1>5, <1>6, <1>7

(* Every step keeps the count of the events. *)
LEMMA CountStep ==
  TypeOK /\ BlocksOK /\ OrderInv /\ CountInv /\ [Next]_vars => CountInv'
<1> SUFFICES ASSUME TypeOK, BlocksOK, OrderInv, CountInv, [Next]_vars, Unharmed'
             PROVE  /\ IsFiniteSet(SavedEnds') /\ IsFiniteSet(HeldEnds')
                    /\ Cardinality(HeldEnds') = event_chunk'
                    /\ event_start' => \A i \in event_begin' .. num_words' - 1 :
                                         buffer'[i] \notin Ends
                    /\ EventsConserved'
  BY DEF CountInv
<1>a. Unharmed /\ Uncut'
  BY IncidentsGrow DEF Unharmed, Uncut
<1>b. ShapeOK /\ HeldOK
  BY <1>a DEF OrderInv, Uncut, Unharmed
<1>c. /\ IsFiniteSet(SavedEnds) /\ IsFiniteSet(HeldEnds)
      /\ Cardinality(HeldEnds) = event_chunk
      /\ event_start => \A i \in event_begin .. num_words - 1 : buffer[i] \notin Ends
      /\ event_count = Cardinality(SavedEnds) + (IF wpc = "done" THEN 0 ELSE event_chunk)
  BY <1>a DEF CountInv, EventsConserved, Unharmed
<1>0. /\ word_arr \in Nat /\ wi \in Nat /\ BufWords \in Nat /\ num_words \in 0 .. BufWords
      /\ event_begin \in 0 .. BufWords - 1 /\ event_words \in 0 .. BufWords
      /\ event_start \in BOOLEAN /\ event_count \in Nat /\ event_chunk \in Nat
      /\ buffer \in [0 .. BufWords - 1 -> Nat] /\ Cardinality(SavedEnds) \in Nat
  BY <1>c, FS_CardinalityType, ReadoutAssumption DEF TypeOK, FlagTypes, WriteTypes, Idx
(* Steps that leave the complete events and the disk alone. *)
<1>1. CASE /\ UNCHANGED <<buffer, event_words, event_chunk, event_begin, writes>>
           /\ event_count' = event_count
           /\ event_start' => event_start /\ num_words' = num_words
           /\ wpc' = "done" <=> wpc = "done"
  <2>1. SavedEnds' = SavedEnds /\ HeldEnds' = HeldEnds
    BY <1>1 DEF SavedEnds, HeldEnds
  <2>2. event_count' = Cardinality(SavedEnds') + (IF wpc' = "done" THEN 0 ELSE event_chunk')
    BY <1>1, <1>c, <2>1
  <2> QED
    BY <1>1, <1>c, <2>1, <2>2 DEF EventsConserved
<1>2. CASE StopRun \/ Finished \/ UNCHANGED vars
  BY <1>2, <1>1 DEF StopRun, Finished, vars, fileVars, buildVars
<1>3. CASE ReadThread
  BY <1>3, <1>1 DEF ReadThread, ReadStart, ReadLoop, DmaDone, DmaTimeout, DmaAbort,
                    Enqueue, MarkResync, ReadStop, ReadUnchanged, fileVars, buildVars
<1>4. CASE WriteStart \/ WriteLoop \/ BlockDone \/ SwitchWriteFile
  BY <1>4, <1>1, <1>b DEF WriteStart, WriteLoop, BlockDone, SwitchWriteFile, ShapeOK,
                          WriteUnchanged, fileVars, buildVars
<1>5. CASE LoadResync \/ Dequeue
  BY <1>5, <1>1 DEF LoadResync, Dequeue, WriteUnchanged, fileVars, buildVars
<1>6. CASE ClearResync
  BY <1>6, <1>1 DEF ClearResync, DropPartial, WriteUnchanged, fileVars
<1>7. CASE SkipWord
  BY <1>7, <1>1 DEF SkipWord, WordStep, WriteUnchanged, fileVars
(* A word stored behind the complete events leaves them alone. *)
<1>8. ASSUME NEW n \in event_words .. BufWords - 1, Store(n)
      PROVE  /\ buffer'[n] = word_arr + wi
             /\ \A i \in 0 .. BufWords - 1 : i # n => buffer'[i] = buffer[i]
             /\ \A i \in 0 .. event_words - 1 : buffer'[i] = buffer[i]
  BY <1>8, <1>0 DEF Store, Word
<1>9. CASE StartWord
  <2>1. Overflow => event_start
    BY <1>9, <1>a DEF StartWord, WordStep, Uncut
  <2>2. PICK n : n = event_words /\ n \in event_words .. BufWords - 1 /\ Store(n)
                 /\ event_begin' = n
    BY <1>9, <1>b, <1>0, <2>1 DEF StartWord, ShapeOK, Overflow
  <2>3. /\ wpc = "words" /\ wpc' = wpc /\ word_arr + wi \in Starts
        /\ UNCHANGED <<writes, event_words, event_chunk, event_count>>
    BY <1>9 DEF StartWord, Word, WordStep, WriteUnchanged, fileVars
  <2>4. SavedEnds' = SavedEnds
    BY <2>3 DEF SavedEnds
  <2>5. HeldEnds' = HeldEnds
    BY <1>8, <2>2, <2>3 DEF HeldEnds
  <2>6. \A i \in event_begin' .. num_words' - 1 : buffer'[i] \notin Ends
    <3>1. num_words' = n + 1 /\ n \in Nat
      BY <1>0, <2>2 DEF Store
    <3>2. \A i \in event_begin' .. num_words' - 1 : i = n
      BY <2>2, <3>1
    <3>3. buffer'[n] \notin Ends
      BY <1>8, <2>2, <2>3, ReadoutAssumption
    <3> QED
      BY <3>2, <3>3
  <2> QED
    BY <1>c, <2>3, <2>4, <2>5, <2>6 DEF EventsConserved
<1>10. CASE EndWord
  <2>1. /\ event_start = TRUE /\ num_words < BufWords /\ wpc = "words" /\ wpc' # "done"
        /\ word_arr + wi \in Ends /\ Store(num_words) /\ event_words' = num_words + 1
        /\ event_start' = FALSE /\ event_chunk' = event_chunk + 1
        /\ event_count' = event_count + 1 /\ writes' = writes
    BY <1>10, <1>0 DEF EndWord, EventWords, Building, Overflow, Word, WordStep,
                       WriteUnchanged, fileVars
  <2>2. event_begin = event_words /\ num_words \in event_words .. BufWords - 1
    BY <1>0, <1>b, <2>1 DEF ShapeOK
  <2>3. SavedEnds' = SavedEnds
    BY <2>1 DEF SavedEnds
  <2>4. word_arr + wi \notin HeldEnds
    <3> SUFFICES ASSUME NEW i \in 0 .. event_words - 1, buffer[i] = word_arr + wi
                 PROVE  FALSE
      BY DEF HeldEnds
    <3>1. i \in 0 .. num_words - 1
      BY <1>0, <2>2
    <3>2. buffer[i] < word_arr + wi
      BY <1>b, <3>1 DEF HeldOK
    <3> QED
      BY <1>0, <3>2
  <2>5. HeldEnds' = HeldEnds \cup {word_arr + wi}
    <3>1. ASSUME NEW i \in 0 .. num_words, buffer'[i] \in Ends
          PROVE  buffer'[i] \in HeldEnds \cup {word_arr + wi}
      <4>1. CASE i = num_words
        BY <4>1, <1>8, <2>1, <2>2
      <4>2. CASE i \in event_begin .. num_words - 1
        <5>1. buffer'[i] = buffer[i] /\ buffer[i] \notin Ends
          BY <4>2, <1>0, <1>8, <1>c, <2>1, <2>2
        <5> QED
          BY <3>1, <5>1
      <4>3. CASE i \in 0 .. event_words - 1
        BY <3>1, <4>3, <1>8, <2>1, <2>2 DEF HeldEnds
      <4> QED
        BY <1>0, <2>2, <4>1, <4>2, <4>3
    <3>2. ASSUME NEW i \in 0 .. event_words - 1
          PROVE  i \in 0 .. num_words /\ buffer'[i] = buffer[i]
      BY <1>0, <1>8, <2>1, <2>2
    <3>3. num_words \in 0 .. num_words /\ buffer'[num_words] = word_arr + wi
      BY <1>0, <1>8, <2>1, <2>2
    <3>4. HeldEnds' = {p \in Ends : \E i \in 0 .. num_words : buffer'[i] = p}
      <4>1. event_words' - 1 = num_words
        BY <1>0, <2>1
      <4> QED
        BY <4>1 DEF HeldEnds
    <3>5. HeldEnds = {p \in Ends : \E i \in 0 .. event_words - 1 : buffer[i] = p}
      BY DEF HeldEnds
    <3> QED
      BY <2>1, <3>1, <3>2, <3>3, <3>4, <3>5
  <2>6. /\ IsFiniteSet(HeldEnds')
        /\ Cardinality(HeldEnds') = Cardinality(HeldEnds) + 1
    BY <1>c, <2>4, <2>5, FS_AddElement
  <2> QED
    BY <1>0, <1>c, <2>1, <2>3, <2>6 DEF EventsConserved
<1>11. CASE DataWord
  <2>1. /\ event_start = TRUE /\ num_words < BufWords /\ wpc = "words" /\ wpc' = wpc
        /\ word_arr + wi \notin Ends /\ Store(num_words)
        /\ UNCHANGED <<event_words, event_begin, event_chunk, event_count, writes>>
    BY <1>11, <1>0 DEF DataWord, Building, Overflow, Word, WordStep, WriteUnchanged,
                       fileVars
  <2>2. event_begin = event_words /\ num_words \in event_words .. BufWords - 1
    BY <1>0, <1>b, <2>1 DEF ShapeOK
  <2>3. SavedEnds' = SavedEnds
    BY <2>1 DEF SavedEnds
  <2>4. HeldEnds' = HeldEnds
    BY <1>8, <2>1, <2>2 DEF HeldEnds
  <2>5. \A i \in event_begin' .. num_words' - 1 : buffer'[i] \notin Ends
    <3> SUFFICES ASSUME NEW i \in event_begin .. num_words PROVE buffer'[i] \notin Ends
      BY <1>0, <2>1 DEF Store
    <3>1. CASE i = num_words
      BY <3>1, <1>8, <2>1, <2>2
    <3>2. CASE i \in event_begin .. num_words - 1
      BY <3>2, <1>0, <1>8, <1>c, <2>1, <2>2
    <3> QED
      BY <1>0, <3>1, <3>2
  <2> QED
    BY <1>c, <2>1, <2>3, <2>4, <2>5 DEF EventsConserved
<1>12. CASE FlushChunk
  <2>1. PICK r \in WriteResult : WriteBuffer(num_words, r)
    BY <1>12 DEF FlushChunk
  <2>2. /\ wpc = "flush" /\ wpc' \in {"switch", "words"} /\ event_start' = FALSE
        /\ event_words' = 0 /\ event_chunk' = 0 /\ event_count' = event_count
    BY <1>12 DEF FlushChunk
  <2>3. num_words = event_words /\ wpc # "done"
    BY <1>b, <2>2 DEF ShapeOK
  <2>4. IsFiniteSet(SavedEnds') /\ Cardinality(SavedEnds') = event_count
    BY <1>a, <2>1, <2>3, CountMoves
  <2>5. HeldEnds' = {}
    BY <2>2 DEF HeldEnds
  <2>6. IsFiniteSet(HeldEnds') /\ Cardinality(HeldEnds') = 0
    BY <2>5, FS_EmptySet
  <2> QED
    BY <1>0, <2>2, <2>4, <2>6 DEF EventsConserved
<1>13. CASE FinalWrite
  <2>1. PICK r \in WriteResult : WriteBuffer(event_words, r)
    BY <1>13 DEF FinalWrite
  <2>2. /\ wpc = "final" /\ wpc' = "done" /\ event_count' = event_count
        /\ UNCHANGED <<buffer, event_words, event_chunk, event_begin, event_start,
                       num_words>>
    BY <1>13 DEF FinalWrite, buildVars
  <2>3. IsFiniteSet(SavedEnds') /\ Cardinality(SavedEnds') = event_count
    BY <1>a, <2>1, <2>2, CountMoves
  <2>4. HeldEnds' = HeldEnds
    BY <2>2 DEF HeldEnds
  <2> QED
    BY <1>0, <1>c, <2>2, <2>3, <2>4 DEF EventsConserved
<1> QED
  BY <1>2, <1>3, <1>4, <1>5, <1>6, <1>7, <1>9, <1>10, <1>11, <1>12, <1>13
     DEF Next, WriteThread

LEMMA OrderInit == Init => BlocksOK /\ OrderInv /\ CountInv
<1> SUFFICES ASSUME Init PROVE BlocksOK /\ OrderInv /\ CountInv
  OBVIOUS
<1>1. BlocksOK /\ ShapeOK /\ HeldOK /\ DiskOK /\ DiskOrder /\ MarkerBalance
  BY DEF Init, BlocksOK, Taken, ShapeOK, HeldOK, DiskOK, DiskOrder, MarkerBalance
<1>2. SavedEnds = {} /\ HeldEnds = {}
  BY DEF Init, SavedEnds, HeldEnds
<1>3. /\ IsFiniteSet(SavedEnds) /\ Cardinality(SavedEnds) = 0
      /\ IsFiniteSet(HeldEnds) /\ Cardinality(HeldEnds) = 0
  BY <1>2, FS_EmptySet
<1>4. CountInv
  BY <1>3 DEF Init, CountInv, EventsConserved
<1> QED
  BY <1>1, <1>4 DEF OrderInv

(* The blocks, the buffer, the disk and the counters stay in step with the   *)
(* stream throughout a run, also when blocks or resync marks are lost        *)
(* (data_handler.cpp:480-548, :690-713).                                     *)
THEOREM OrderInvariant == Spec => [](BlocksOK /\ OrderInv /\ CountInv)
<1>1. TypeOK /\ BlocksOK /\ OrderInv /\ CountInv /\ [Next]_vars
        => (TypeOK /\ BlocksOK /\ OrderInv /\ CountInv)'
  BY TypeStep, BlocksStep, OrderStep, CountStep
<1> QED
  BY TypeInit, OrderInit, <1>1, PTL DEF Spec

(* Words reach the disk in stream order and at most once, whatever blocks    *)
(* and marks are lost and however short a write is, unless the overflow      *)
(* check cuts a complete event (data_handler.cpp:525-547, :554).             *)
THEOREM DiskOrderHolds == Spec => []DiskOrder
<1>1. OrderInv => DiskOrder
  BY DEF OrderInv, DiskOrder, Uncut
<1> QED
  BY OrderInvariant, <1>1, PTL

(* Every start marker belongs to an event that ended, was dropped or is being *)
(* built, as the end-of-run summary has it (data_handler.cpp:482-524, :569).  *)
THEOREM MarkerBalanceHolds == Spec => []MarkerBalance
<1>1. OrderInv => MarkerBalance
  BY DEF OrderInv, MarkerBalance, Uncut
<1> QED
  BY OrderInvariant, <1>1, PTL

(* event_count_ is the number of events on disk and in the chunk, and in the *)
(* end the number on disk: the markers that move to disk are exactly those   *)
(* counted since the last write (data_handler.cpp:518-523, :554, :568).      *)
THEOREM EventsConservedHolds == Spec => []EventsConserved
<1>1. CountInv => EventsConserved
  BY DEF CountInv, EventsConserved, Unharmed
<1> QED
  BY OrderInvariant, <1>1, PTL
=============================================================================
