---------------------------- MODULE EventReadout ----------------------------
(***************************************************************************)
(* One run of the TPC readout: DataHandler::ReadoutDMARead (the read        *)
(* thread) takes DMA blocks from the hardware and enqueues them,            *)
(* DataHandler::DataWrite (the write thread) cuts the words into events and *)
(* writes whole events to disk (src/data/data_handler.cpp).                 *)
(*                                                                          *)
(* A data word is modelled by its position in the stream the front-end      *)
(* electronics sent; a DMA block by the position of its first word, so that *)
(* word_arr[i] is word_arr + i and lost words are positions that are        *)
(* skipped.  Starts and Ends are the positions that hold the event start    *)
(* (0xFFFFFFFF) and event end (0xE0000000) markers; any stream is allowed,  *)
(* with filler between events or an event that lacks its end.               *)
(*                                                                          *)
(* The queue is the bounded FIFO that SpscQueue.tla implements.  Logging    *)
(* and the telemetry flags that nothing in these threads reads are left out.*)
(***************************************************************************)
EXTENDS Integers, Sequences, FiniteSets

CONSTANTS
  Starts, Ends,   \* stream positions of the event markers
  StreamWords,    \* bound: the hardware sends the positions below this one
  BlockWords,     \* DMABUFFSIZE / 4, words in a DMA block
  BufWords,       \* EVENTBUFFSIZE, words in the event buffer
  Chunk,          \* EVENTCHUNK, events per write to disk
  FileEvents,     \* 5000, events after which the file is switched
  QueueCap,       \* usable slots of data_queue_
  NumEvents,      \* num_events_, the length of the run
  MaxTimeouts,    \* bound: DMA timeouts in a run
  MaxLost         \* bound: words lost by one DMA timeout

ASSUME ReadoutAssumption ==
  /\ Starts \subseteq Nat /\ Ends \subseteq Nat /\ Starts \cap Ends = {}
  /\ BlockWords \in Nat \ {0} /\ BufWords \in Nat \ {0} /\ Chunk \in Nat \ {0}
  /\ FileEvents \in Nat \ {0} /\ QueueCap \in Nat \ {0} /\ NumEvents \in Nat
  /\ StreamWords \in Nat /\ MaxTimeouts \in Nat /\ MaxLost \in Nat

VARIABLES
  (* shared by the two threads and the controller *)
  is_running, stop_write, disk_stop_requested,
  event_count,      \* event_count_
  resync,           \* resync_at_block_
  queue,            \* data_queue_
  (* hardware *)
  hw,               \* position of the next word the hardware will deliver
  (* read thread *)
  rpc, iv, block,   \* place in the code, DMA loop index, block being enqueued
  blocks_enqueued, dma_recoveries,
  (* write thread *)
  wpc, word_arr,    \* place in the code, block being processed
  wi,               \* words of it already processed
  buffer,           \* word_arr_write
  event_start, num_words, event_begin, event_words, event_chunk,
  blocks_read, dropped_partial, start_count,
  fd, file_count,
  (* what reached the disk, and what went wrong on the way *)
  writes,           \* the word sequences written, in order
  incidents

shared == <<is_running, stop_write, disk_stop_requested>>
readVars == <<hw, rpc, iv, block, blocks_enqueued, dma_recoveries>>
buildVars == <<buffer, event_start, num_words, event_begin, event_words,
               event_chunk, dropped_partial, start_count>>
fileVars == <<fd, file_count, writes>>
vars == <<shared, event_count, resync, queue, readVars, wpc, word_arr, wi,
          buildVars, blocks_read, fileVars, incidents>>

NoResync == -1

(* The things that can damage what is on disk; a history variable.           *)
(*   mark_lost     a resync mark was overwritten before it was acted on      *)
(*   mark_reset    a resync mark was cleared by the write thread's start     *)
(*   complete_cut  the overflow check rolled back a complete event           *)
(*   short_write   write() stored only some of the words                     *)
(*   write_failed  write() stored nothing                                    *)
(*   stray_write   write() went to a descriptor that is no longer ours       *)
Incident == {"mark_lost", "mark_reset", "complete_cut", "short_write",
             "write_failed", "stray_write"}

Idx == 0 .. BufWords - 1

Init ==
  /\ is_running = TRUE            \* StartRun: SetRun(true)
  /\ stop_write = FALSE
  /\ disk_stop_requested = FALSE
  /\ event_count = 0
  /\ resync = NoResync
  /\ queue = <<>>
  /\ hw = 0
  /\ rpc = "start" /\ iv = 0 /\ block = 0
  /\ blocks_enqueued = 0 /\ dma_recoveries = 0
  /\ wpc = "open" /\ word_arr = 0 /\ wi = BlockWords
  /\ buffer = [i \in Idx |-> 0]
  /\ event_start = FALSE
  /\ num_words = 0 /\ event_begin = 0 /\ event_words = 0 /\ event_chunk = 0
  /\ blocks_read = 0 /\ dropped_partial = 0 /\ start_count = 0
  /\ fd = "none" /\ file_count = 0
  /\ writes = <<>>
  /\ incidents = {}
-----------------------------------------------------------------------------
(* Shared helpers.                                                           *)

(* SetRun(false), from the controller's StopRun. *)
StopRun ==
  /\ is_running
  /\ is_running' = FALSE
  /\ UNCHANGED <<stop_write, disk_stop_requested, event_count, resync, queue,
                 readVars, wpc, word_arr, wi, buildVars, blocks_read, fileVars,
                 incidents>>

RequestDiskStop == /\ disk_stop_requested' = TRUE
                   /\ is_running' = FALSE
                   /\ stop_write' = TRUE

(* A store to resync_at_block_, noting a pending mark that it destroys. *)
StoreResync(m, incident) ==
  /\ resync' = m
  /\ incidents' = IF resync \in {NoResync, m} THEN incidents
                  ELSE incidents \cup {incident}
-----------------------------------------------------------------------------
(* The read thread: ReadoutDMARead.                                          *)

(* SetRecvBuffer either locks the two DMA buffers or ends the run. *)
ReadStart ==
  /\ rpc = "start"
  /\ \/ /\ rpc' = "loop"
        /\ UNCHANGED shared
     \/ /\ rpc' = "done"
        /\ is_running' = FALSE
        /\ stop_write' = TRUE
        /\ UNCHANGED disk_stop_requested
  /\ UNCHANGED <<event_count, resync, queue, hw, iv, block, blocks_enqueued,
                 dma_recoveries, wpc, word_arr, wi, buildVars, blocks_read,
                 fileVars, incidents>>

ReadUnchanged == UNCHANGED <<shared, event_count, queue, wpc, word_arr, wi,
                             buildVars, blocks_read, fileVars>>

ReadLoopUnlimited ==   \* mutant: the number of events is not looked at
  /\ rpc = "loop"
  /\ rpc' = IF is_running THEN "dma" ELSE "stop"
  /\ iv' = 0
  /\ UNCHANGED <<hw, block, blocks_enqueued, dma_recoveries, resync, incidents>>
  /\ ReadUnchanged

(* The while condition: two DMAs are armed per evaluation. *)
ReadLoop ==
  /\ rpc = "loop"
  /\ rpc' = IF is_running /\ event_count < NumEvents THEN "dma" ELSE "stop"
  /\ iv' = 0
  /\ UNCHANGED <<hw, block, blocks_enqueued, dma_recoveries, resync, incidents>>
  /\ ReadUnchanged

(* WaitForDma returns true: the block is in word_arr, ready to be enqueued. *)
DmaDone ==
  /\ rpc = "dma" /\ is_running
  /\ hw + BlockWords <= StreamWords
  /\ block' = hw
  /\ hw' = hw + BlockWords
  /\ rpc' = "enqueue"
  /\ UNCHANGED <<iv, blocks_enqueued, dma_recoveries, resync, incidents>>
  /\ ReadUnchanged

(* The DMA times out while the run goes on: the short block is discarded and *)
(* the receivers re-initialised, which loses words.  Once the stream is      *)
(* exhausted every DMA times out, and is no longer counted.                  *)
DmaTimeout ==
  /\ rpc = "dma" /\ is_running
  /\ \/ /\ dma_recoveries < MaxTimeouts
        /\ dma_recoveries' = dma_recoveries + 1
        /\ \E lost \in 0 .. MaxLost : hw' = hw + lost
     \/ /\ hw + BlockWords > StreamWords
        /\ UNCHANGED <<dma_recoveries, hw>>
  /\ rpc' = "mark"
  /\ UNCHANGED <<iv, block, blocks_enqueued, resync, incidents>>
  /\ ReadUnchanged

(* WaitForDma gives up because the run was stopped. *)
DmaAbort ==
  /\ rpc = "dma" /\ ~is_running
  /\ rpc' = "loop"
  /\ UNCHANGED <<hw, iv, block, blocks_enqueued, dma_recoveries, resync, incidents>>
  /\ ReadUnchanged

(* The end of the body of the for loop over iv. *)
NextDma == /\ iv' = iv + 1
           /\ rpc' = IF iv = 0 THEN "dma" ELSE "loop"

(* data_queue_.write(word_arr): enqueued, or refused by a full queue. *)
Enqueue ==
  /\ rpc = "enqueue"
  /\ \/ /\ Len(queue) < QueueCap
        /\ queue' = Append(queue, block)
        /\ blocks_enqueued' = blocks_enqueued + 1
        /\ NextDma
     \/ /\ Len(queue) = QueueCap
        /\ rpc' = "mark"
        /\ UNCHANGED <<queue, blocks_enqueued, iv>>
  /\ UNCHANGED <<hw, block, dma_recoveries, resync, incidents, shared,
                 event_count, wpc, word_arr, wi, buildVars, blocks_read, fileVars>>

(* After a timeout or a refused block: the write thread must drop the event  *)
(* it is building when it reaches the next block enqueued.                   *)
MarkResync ==
  /\ rpc = "mark"
  /\ StoreResync(blocks_enqueued, "mark_lost")
  /\ NextDma
  /\ UNCHANGED <<hw, block, blocks_enqueued, dma_recoveries>>
  /\ ReadUnchanged

ReadStopSilent ==      \* mutant: the write thread is not told
  /\ rpc = "stop"
  /\ rpc' = "done"
  /\ UNCHANGED <<shared, event_count, resync, queue, hw, iv, block,
                 blocks_enqueued, dma_recoveries, wpc, word_arr, wi, buildVars,
                 blocks_read, fileVars, incidents>>

(* The end of the run: triggers off, then stop_write_ for the write thread,  *)
(* then the DMA buffers are freed.                                           *)
ReadStop ==
  /\ rpc = "stop"
  /\ stop_write' = TRUE
  /\ rpc' = "done"
  /\ UNCHANGED <<is_running, disk_stop_requested, event_count, resync, queue,
                 hw, iv, block, blocks_enqueued, dma_recoveries, wpc, word_arr,
                 wi, buildVars, blocks_read, fileVars, incidents>>

ReadThread == \/ ReadStart
              \/ ReadLoop
              \/ DmaDone
              \/ DmaTimeout
              \/ DmaAbort
              \/ Enqueue
              \/ MarkResync
              \/ ReadStop
-----------------------------------------------------------------------------
(* The write thread: DataWrite.                                              *)

(* Opens the first file and clears the counters and the resync mark.  A file *)
(* that cannot be opened does not keep the thread from starting its loop.    *)
WriteStart ==
  /\ wpc = "open"
  /\ \/ fd' = "open" /\ UNCHANGED shared
     \/ fd' = "bad" /\ RequestDiskStop            \* ENOSPC
     \/ fd' = "bad" /\ UNCHANGED shared           \* any other error
  /\ event_count' = 0
  /\ StoreResync(NoResync, "mark_reset")
  /\ wpc' = "loop"
  /\ UNCHANGED <<queue, readVars, word_arr, wi, buildVars, blocks_read,
                 file_count, writes>>

WriteUnchanged == UNCHANGED <<shared, readVars, fileVars>>

(* while (!stop_write_) *)
WriteLoop ==
  /\ wpc = "loop"
  /\ wpc' = IF stop_write THEN "final" ELSE "poll"
  /\ UNCHANGED <<event_count, resync, queue, word_arr, wi, buildVars,
                 blocks_read, incidents>>
  /\ WriteUnchanged

(* while (data_queue_.read(word_arr)): stop_write_ is looked at again only   *)
(* when the queue is found empty.                                            *)
Dequeue ==
  /\ wpc = "poll"
  /\ \/ /\ queue = <<>>
        /\ wpc' = "loop"
        /\ UNCHANGED <<queue, word_arr, wi>>
     \/ /\ queue # <<>>
        /\ word_arr' = Head(queue)
        /\ wi' = 0
        /\ queue' = Tail(queue)
        /\ wpc' = "load"
  /\ UNCHANGED <<event_count, resync, buildVars, blocks_read, incidents>>
  /\ WriteUnchanged

(* Mutant of ResyncDue: a mark acted on one block late. *)
ResyncDueLate == resync # NoResync /\ blocks_read > resync
(* blocks_read >= resync_at_block_.load(); kNoResync is larger than any      *)
(* block index.                                                              *)
ResyncDue == resync # NoResync /\ blocks_read >= resync

LoadResync ==
  /\ wpc = "load"
  /\ \/ /\ ResyncDue
        /\ wpc' = "clear"
        /\ UNCHANGED blocks_read
     \/ /\ ~ResyncDue
        /\ wpc' = "words"
        /\ blocks_read' = blocks_read + 1
  /\ UNCHANGED <<event_count, resync, queue, word_arr, wi, buildVars, incidents>>
  /\ WriteUnchanged

(* Mutants of DropPartial: back to the start of the chunk; drop not counted. *)
DropPartialToZero == /\ num_words' = 0
                     /\ event_start' = FALSE
                     /\ dropped_partial' = dropped_partial + 1
DropPartialUncounted == /\ num_words' = event_begin
                        /\ event_start' = FALSE
                        /\ UNCHANGED dropped_partial

DropPartial == /\ num_words' = event_begin
               /\ event_start' = FALSE
               /\ dropped_partial' = dropped_partial + 1

(* The mark is cleared by a second access to resync_at_block_, and the event *)
(* being built, if any, is dropped.                                          *)
ClearResync ==
  /\ wpc = "clear"
  /\ resync' = NoResync
  /\ IF event_start THEN DropPartial
     ELSE UNCHANGED <<num_words, event_start, dropped_partial>>
  /\ blocks_read' = blocks_read + 1
  /\ wpc' = "words"
  /\ UNCHANGED <<event_count, queue, word_arr, wi, buffer, event_begin, event_words,
                 event_chunk, start_count, incidents>>
  /\ WriteUnchanged

(* The loop over the words of a block.  The overflow check comes first: it   *)
(* moves num_words back to event_begin and ends the event being built.       *)
Word == word_arr + wi
OverflowLate == num_words > BufWords   \* mutant: one word too late
Overflow == num_words >= BufWords
Building == event_start /\ ~Overflow

WordStep ==
  /\ wpc = "words" /\ wi < BlockWords
  /\ wi' = wi + 1
  /\ incidents' = IF Overflow /\ ~event_start THEN incidents \cup {"complete_cut"}
                  ELSE incidents
  /\ UNCHANGED <<resync, queue, word_arr, blocks_read>>
  /\ WriteUnchanged

(* event_buffer_ptr[n] = word; num_words = n + 1 *)
Store(n) == /\ buffer' = [buffer EXCEPT ![n] = Word]
            /\ num_words' = n + 1

(* An event start: an event still open, whether or not it just overflowed,   *)
(* is dropped and the new one takes its place.                               *)
StartWord ==
  /\ Word \in Starts
  /\ WordStep
  /\ LET n == IF Overflow \/ event_start THEN event_begin ELSE num_words
     IN Store(n) /\ event_begin' = n
  /\ event_start' = TRUE
  /\ start_count' = start_count + 1
  /\ dropped_partial' = IF Overflow \/ event_start THEN dropped_partial + 1
                        ELSE dropped_partial
  /\ UNCHANGED <<wpc, event_count, event_words, event_chunk>>

(* A word outside any event is skipped. *)
SkipWord ==
  /\ Word \notin Starts /\ ~Building
  /\ WordStep
  /\ num_words' = IF Overflow THEN event_begin ELSE num_words
  /\ dropped_partial' = IF Overflow THEN dropped_partial + 1 ELSE dropped_partial
  /\ event_start' = FALSE
  /\ UNCHANGED <<wpc, event_count, buffer, event_begin, event_words, event_chunk,
                 start_count>>

EventWordsShort == num_words        \* mutant: the end word is left out
EventWords == num_words + 1

(* The end of the event being built: it is counted, and a full chunk goes to *)
(* disk at once.                                                             *)
EndWord ==
  /\ Word \in Ends /\ Building
  /\ WordStep
  /\ Store(num_words)
  /\ event_words' = EventWords
  /\ event_start' = FALSE
  /\ event_chunk' = event_chunk + 1
  /\ event_count' = event_count + 1
  /\ wpc' = IF event_chunk + 1 = Chunk THEN "flush" ELSE "words"
  /\ UNCHANGED <<event_begin, dropped_partial, start_count>>

(* Any other word of the event being built. *)
DataWord ==
  /\ Word \notin Starts \cup Ends /\ Building
  /\ WordStep
  /\ Store(num_words)
  /\ UNCHANGED <<wpc, event_count, event_start, event_begin, event_words,
                 event_chunk, dropped_partial, start_count>>

BlockDone ==
  /\ wpc = "words" /\ wi = BlockWords
  /\ wpc' = "poll"
  /\ UNCHANGED <<event_count, resync, queue, word_arr, wi, buildVars,
                 blocks_read, incidents>>
  /\ WriteUnchanged
-----------------------------------------------------------------------------
(* Writing the event buffer to the data file.                                *)

Words(n) == [i \in 1 .. n |-> buffer[i - 1]]

(* The results of write(fd_, event_buffer_ptr, n).  On a descriptor that a   *)
(* failed file switch left to be closed in the background, the words reach   *)
(* the old file, fail, or land in whatever file the number now stands for.   *)
WriteResult == CASE fd = "open" -> {"all", "short", "enospc", "error"}
                 [] fd = "closing" -> {"all", "short", "enospc", "error", "stray"}
                 [] OTHER -> {"error"}

WriteBuffer(n, r) ==
  IF n = 0 THEN UNCHANGED <<writes, incidents>>
  ELSE \/ /\ r = "all"
          /\ writes' = Append(writes, Words(n))
          /\ UNCHANGED incidents
       \/ /\ r = "short"
          /\ \E k \in 1 .. n - 1 : writes' = Append(writes, Words(k))
          /\ incidents' = incidents \cup {"short_write"}
       \/ /\ r \in {"enospc", "error"}
          /\ incidents' = incidents \cup {"write_failed"}
          /\ UNCHANGED writes
       \/ /\ r = "stray"
          /\ incidents' = incidents \cup {"stray_write"}
          /\ UNCHANGED writes

(* A chunk is full: write it and empty the buffer. *)
FlushChunk ==
  /\ wpc = "flush"
  /\ \E r \in WriteResult :
       /\ WriteBuffer(num_words, r)
       /\ IF r = "enospc" THEN RequestDiskStop ELSE UNCHANGED shared
  /\ wpc' = IF event_count % FileEvents = 0 THEN "switch" ELSE "words"
  /\ event_start' = FALSE
  /\ num_words' = 0 /\ event_words' = 0 /\ event_chunk' = 0
  /\ UNCHANGED <<event_count, resync, queue, readVars, word_arr, wi, buffer,
                 event_begin, dropped_partial, start_count, blocks_read, fd,
                 file_count>>

(* SwitchWriteFile: the old descriptor is closed by a detached thread, and   *)
(* fd_ keeps its number unless a new file is opened.  A failed switch sets   *)
(* stop_write_, but only a disk stop ends the run.                           *)
SwitchWriteFile ==
  /\ wpc = "switch"
  /\ \/ /\ disk_stop_requested
        /\ fd' = "closing"
        /\ stop_write' = TRUE
        /\ UNCHANGED <<is_running, disk_stop_requested, file_count>>
     \/ /\ ~disk_stop_requested            \* MaybeSwitchDataDisk: no disk has room
        /\ fd' = "closing"
        /\ RequestDiskStop
        /\ UNCHANGED file_count
     \/ /\ ~disk_stop_requested            \* the new file is open
        /\ fd' = "open"
        /\ file_count' = file_count + 1
        /\ UNCHANGED shared
     \/ /\ ~disk_stop_requested            \* open() fails with ENOSPC
        /\ fd' = "bad"
        /\ file_count' = file_count + 1
        /\ RequestDiskStop
     \/ /\ ~disk_stop_requested            \* open() fails otherwise
        /\ fd' = "bad"
        /\ file_count' = file_count + 1
        /\ stop_write' = TRUE
        /\ UNCHANGED <<is_running, disk_stop_requested>>
  /\ wpc' = "words"
  /\ UNCHANGED <<event_count, resync, queue, readVars, word_arr, wi, buildVars,
                 blocks_read, writes, incidents>>

(* After the loop: the complete events of the last chunk are written and the *)
(* file is closed.                                                           *)
FinalWrite ==
  /\ wpc = "final"
  /\ \E r \in WriteResult : WriteBuffer(event_words, r)
  /\ fd' = "closed"
  /\ wpc' = "done"
  /\ UNCHANGED <<shared, event_count, resync, queue, readVars, word_arr, wi,
                 buildVars, blocks_read, file_count>>

WriteThread == \/ WriteStart
               \/ WriteLoop
               \/ Dequeue
               \/ LoadResync
               \/ ClearResync
               \/ StartWord
               \/ SkipWord
               \/ EndWord
               \/ DataWord
               \/ BlockDone
               \/ FlushChunk
               \/ SwitchWriteFile
               \/ FinalWrite
-----------------------------------------------------------------------------
(* Both threads have ended; CollectData joins them. *)
Finished == /\ rpc = "done" /\ wpc = "done"
            /\ UNCHANGED vars

Next == StopRun \/ ReadThread \/ WriteThread \/ Finished

Spec == Init /\ [][Next]_vars

(* Both threads are scheduled by the operating system and never wait for a   *)
(* lock; nothing obliges the operator to stop the run.                       *)
FairSpec == Spec /\ WF_vars(ReadThread) /\ WF_vars(WriteThread)
-----------------------------------------------------------------------------
FlagTypes == /\ is_running \in BOOLEAN /\ stop_write \in BOOLEAN
             /\ disk_stop_requested \in BOOLEAN /\ event_start \in BOOLEAN

ReadTypes ==
  /\ resync \in Nat \cup {NoResync}
  /\ queue \in Seq(Nat) /\ Len(queue) <= QueueCap
  /\ hw \in Nat
  /\ rpc \in {"start", "loop", "dma", "enqueue", "mark", "stop", "done"}
  /\ iv \in 0 .. 2 /\ (rpc \in {"dma", "enqueue", "mark"} => iv < 2)
  /\ block \in Nat /\ blocks_enqueued \in Nat /\ dma_recoveries \in Nat

WriteTypes ==
  /\ wpc \in {"open", "loop", "poll", "load", "clear", "words", "flush",
              "switch", "final", "done"}
  /\ event_count \in Nat
  /\ word_arr \in Nat /\ wi \in 0 .. BlockWords
  /\ buffer \in [Idx -> Nat]
  /\ num_words \in 0 .. BufWords
  /\ event_begin \in Idx
  /\ event_words \in 0 .. BufWords
  /\ event_chunk \in 0 .. Chunk /\ (wpc # "flush" => event_chunk < Chunk)
  /\ blocks_read \in Nat /\ dropped_partial \in Nat /\ start_count \in Nat

FileTypes == /\ fd \in {"none", "open", "closing", "bad", "closed"}
             /\ file_count \in Nat
             /\ writes \in Seq(Seq(Nat))
             /\ incidents \in SUBSET Incident

(* Every variable keeps its type.  The ranges of num_words, event_begin and  *)
(* event_words are what keeps DataWrite inside its event buffer: every store *)
(* goes to num_words or event_begin, after the overflow check, and every     *)
(* write() covers num_words or event_words words (data_handler.cpp:493-548). *)
TypeOK == FlagTypes /\ ReadTypes /\ WriteTypes /\ FileTypes

(* A sequence of words that is a sequence of whole events: each runs from a  *)
(* start marker to an end marker without a missing or a foreign word.        *)
Joined(a, b) == IF a \in Ends THEN b \in Starts
                ELSE b = a + 1 /\ b \notin Starts

Whole(s) == /\ s[1] \in Starts /\ s[Len(s)] \in Ends
            /\ \A i \in 1 .. Len(s) - 1 : Joined(s[i], s[i + 1])

WritesWhole == \A k \in 1 .. Len(writes) : Whole(writes[k])

(* No resync mark was lost, no complete event cut and no write cut short. *)
Clean == incidents \subseteq {"write_failed", "stray_write"}

(* Everything that is written to disk is whole events, whatever DMA timeouts *)
(* and queue overflows happen, as long as no pending resync mark is lost, the *)
(* buffer is not filled exactly by complete events, and write() is not cut   *)
(* short (data_handler.cpp:480-548, :690, :713).                             *)
WholeEvents == Clean => WritesWhole

(* The end markers that reached the disk. *)
SavedEnds == {p \in Ends : \E k \in 1 .. Len(writes) :
                            \E i \in 1 .. Len(writes[k]) : writes[k][i] = p}

(* event_count_, which ends the run and is reported as the number of events  *)
(* written, is the number of events on disk and in the chunk, and in the end *)
(* the number of events on disk (data_handler.cpp:518-523, :554, :568).      *)
EventsConserved ==
  incidents \subseteq {"mark_lost", "mark_reset"}
    => event_count = Cardinality(SavedEnds)
                     + (IF wpc = "done" THEN 0 ELSE event_chunk)

(* Words reach the disk in stream order and at most once, also across files  *)
(* and through the final write (data_handler.cpp:525-547, :554).             *)
DiskOrder ==
  "complete_cut" \notin incidents =>
    /\ \A k \in 1 .. Len(writes) : \A i \in 1 .. Len(writes[k]) - 1 :
         writes[k][i] < writes[k][i + 1]
    /\ \A k \in 1 .. Len(writes) - 1 :
         writes[k][Len(writes[k])] < writes[k + 1][1]

(* The end-of-run summary adds up: every start marker belongs to an event    *)
(* that ended, that was dropped, or that is being built                      *)
(* (data_handler.cpp:482-524, :569).                                         *)
MarkerBalance ==
  "complete_cut" \notin incidents =>
    start_count = event_count + dropped_partial + (IF event_start THEN 1 ELSE 0)

(* Once the run is stopped, by the operator, a full disk or a failure to     *)
(* lock the DMA buffers, both threads end (data_handler.cpp:476, :621, :729).*)
StopEndsThreads == ~is_running ~> (rpc = "done" /\ wpc = "done")

(* A run that has collected num_events_ events ends both threads without a   *)
(* stop command (data_handler.cpp:621, :727-729).                            *)
EventLimitEnds == (wpc # "open" /\ event_count >= NumEvents) ~>
                    (rpc = "done" /\ wpc = "done")
-----------------------------------------------------------------------------
(* The inductive invariant behind WholeEvents.                               *)

(* Blocks the write thread has taken out of the queue, which is the index of *)
(* the next one it will take.                                                *)
Taken == IF wpc \in {"load", "clear"} THEN blocks_read + 1 ELSE blocks_read

(* The buffer holds complete events up to event_words, and after that the    *)
(* event being built, without a gap, or nothing.                             *)
BufferOK ==
  /\ event_words > 0 =>
       /\ buffer[0] \in Starts /\ buffer[event_words - 1] \in Ends
       /\ \A i \in 0 .. event_words - 2 : Joined(buffer[i], buffer[i + 1])
  /\ ~event_start => num_words = event_words
  /\ event_start =>
       /\ event_begin = event_words /\ event_words < num_words
       /\ buffer[event_begin] \in Starts
       /\ \A i \in event_begin .. num_words - 1 : buffer[i] \notin Ends
       /\ \A i \in event_begin .. num_words - 2 : Joined(buffer[i], buffer[i + 1])
  /\ wpc = "flush" => ~event_start /\ event_words > 0

(* The last block that was enqueued, if any was. *)
LastBlock == IF queue = <<>> THEN word_arr ELSE queue[Len(queue)]

(* The position of the first word of the next block to be enqueued. *)
NextBlock == IF rpc = "enqueue" THEN block ELSE hw

(* Wherever a queued block does not continue its predecessor, the resync     *)
(* mark points at it; and the same for the block that will be queued next,   *)
(* unless the read thread is about to store that mark.                       *)
ChainOK ==
  /\ blocks_enqueued = Taken + Len(queue)
  /\ \A k \in 1 .. Len(queue) - 1 :
       queue[k + 1] = queue[k] + BlockWords \/ resync = Taken + k
  /\ queue # <<>> /\ Taken > 0 =>
       queue[1] = word_arr + BlockWords \/ resync = Taken
  /\ rpc # "mark" /\ blocks_enqueued > 0 =>
       NextBlock = LastBlock + BlockWords \/ resync = blocks_enqueued
  /\ rpc = "enqueue" => hw = block + BlockWords
  /\ wpc = "clear" => ResyncDue

(* The next word continues the event being built, or a resync is due that    *)
(* will drop that event.                                                     *)
BuilderOK ==
  /\ wpc \in {"open", "loop", "poll"} => wi = BlockWords
  /\ wpc \in {"load", "clear"} => wi = 0
  /\ wpc \in {"words", "flush", "switch"} => blocks_read > 0
  /\ wpc = "open" => ~event_start
  /\ event_start => Taken > 0
  /\ event_start /\ wpc = "load" =>
       buffer[num_words - 1] + 1 = word_arr \/ ResyncDue
  /\ event_start /\ wpc \notin {"load", "clear"} =>
       buffer[num_words - 1] + 1 = word_arr + wi

(* As long as nothing damaged the data, the buffer, the queue and the words  *)
(* to come fit together, so that what is written is whole events             *)
(* (data_handler.cpp:480-548, :690, :713).                                   *)
ReadoutInv ==
  Clean => BufferOK /\ ChainOK /\ BuilderOK /\ WritesWhole
-----------------------------------------------------------------------------
(* What comments of the code say; each of these is violated.                 *)

(* "the head of the event that was cut by the timeout can never be glued to  *)
(* the tail of a later one" (data_handler.h:157-160).                        *)
NeverGlued == incidents \subseteq {"mark_lost"} => WritesWhole

(* "Only the event being built can overflow; roll back to its start so the   *)
(* complete events already in the chunk survive" (data_handler.cpp:494-495). *)
CompleteEventsSurvive == event_words <= num_words
=============================================================================
