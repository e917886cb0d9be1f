---------------------------- MODULE StreamFiles -----------------------------
(***************************************************************************)
(* How the trigger records and the PPS samples of a run reach their files  *)
(* while the write thread moves the run from disk to disk                  *)
(* (data_handler.cpp: MaybeSwitchDataDisk, TriggerDMARead,                 *)
(* PollTriggerPPS).  The write thread publishes the directory under        *)
(* data_basedir_mutex_ and then, outside of it, the number of the next     *)
(* data file as the segment; a stream that sees another segment number     *)
(* than the one it has open closes its file and opens the published one.   *)
(*                                                                         *)
(* The two streams share nothing, so a behaviour follows one of them.      *)
(* Records are numbered in the order the hardware delivers them.           *)
(***************************************************************************)
EXTENDS Integers, Sequences, SequencesExt

CONSTANTS
  BufferSize,   \* TRIG_BUFFER_SIZE, PPS_BUFFER_SIZE
  MaxRecords,   \* bound: records of a run
  MaxFiles,     \* bound: file switches of a run
  MaxFailures   \* bound: opens and writes that fail

ASSUME StreamAssumption ==
  /\ BufferSize \in Nat \ {0} /\ MaxRecords \in Nat /\ MaxFiles \in Nat
  /\ MaxFailures \in Nat

VARIABLES
  is_running,
  wpc, dir, segment, file_count,  \* write thread: data_basedir_ and
                                  \* trigger_segment_file_num_
  stream,       \* "trigger" or "pps"
  pc, loaded, open_segment,
  file,         \* what the ofstream has open, and how it is
  buffer, taken,
  stored,       \* records of every file, by directory and segment
  failures,
  lost,         \* history: some record was thrown away
  open_error,   \* trigger_file_open_error_, pps_file_open_error_
  late          \* history: a failover began before the stream had followed the last

writer == <<wpc, dir, segment, file_count>>
reader == <<pc, loaded, open_segment, file, buffer, taken, stored, lost, open_error>>
vars == <<is_running, writer, stream, reader, failures, late>>

Disks == {0, 1}
Segments == 0 .. MaxFiles
Files == Disks \X Segments
Places == {"start", "loop", "flush", "reopen", "take", "done"}

TypeOK ==
  /\ is_running \in BOOLEAN
  /\ wpc \in {"idle", "segment", "count"} /\ dir \in Disks /\ segment \in Segments
  /\ file_count \in Segments
  /\ stream \in {"trigger", "pps"} /\ pc \in Places
  /\ loaded \in Segments /\ open_segment \in Segments
  /\ file \in [name : Files, is : {"open", "bad", "closed"}]
  /\ Len(buffer) <= BufferSize /\ Range(buffer) \subseteq 1 .. taken
  /\ taken \in 0 .. MaxRecords /\ DOMAIN stored = Files
  /\ failures \in 0 .. MaxFailures
  /\ lost \in BOOLEAN /\ open_error \in BOOLEAN /\ late \in BOOLEAN

Init ==
  /\ is_running = TRUE
  /\ wpc = "idle" /\ dir \in Disks /\ segment = 0 /\ file_count = 0
  /\ stream \in {"trigger", "pps"}
  /\ pc = "start" /\ loaded = 0 /\ open_segment = 0
  /\ file = [name |-> <<dir, 0>>, is |-> "closed"]
  /\ buffer = <<>> /\ taken = 0 /\ stored = [f \in Files |-> <<>>]
  /\ failures = 0 /\ lost = FALSE /\ open_error = FALSE /\ late = FALSE
-----------------------------------------------------------------------------
(* The write thread, at the end of a data file.  It may still have blocks to *)
(* write when the run has been stopped.                                      *)

Following == pc \in {"loop", "take"} /\ open_segment = segment /\ file.name[1] = dir

(* The disk has room: only the file is counted. *)
NextFile ==
  /\ wpc = "idle" /\ file_count < MaxFiles
  /\ file_count' = file_count + 1
  /\ UNCHANGED <<is_running, wpc, dir, segment, stream, reader, failures, late>>

FailoverSegmentFirst ==     \* mutant: the segment is published before the path
  /\ wpc = "idle" /\ file_count < MaxFiles
  /\ segment' = file_count + 1 /\ wpc' = "segment"
  /\ late' = (late \/ (pc # "done" /\ ~Following))
  /\ UNCHANGED <<is_running, dir, file_count, stream, reader, failures>>

FailoverDirLast ==          \* and the path after it
  /\ wpc = "segment"
  /\ dir' = 1 - dir /\ wpc' = "count"
  /\ UNCHANGED <<is_running, segment, file_count, stream, reader, failures, late>>

FailoverBackwards == FailoverSegmentFirst \/ FailoverDirLast

FailoverDir ==
  /\ wpc = "idle" /\ file_count < MaxFiles
  /\ dir' = 1 - dir /\ wpc' = "segment"
  /\ late' = (late \/ (pc # "done" /\ ~Following))
  /\ UNCHANGED <<is_running, segment, file_count, stream, reader, failures>>

FailoverSegmentIsDisk ==    \* mutant: segments are named after the disk
  /\ wpc = "segment"
  /\ segment' = dir /\ wpc' = "count"
  /\ UNCHANGED <<is_running, dir, file_count, stream, reader, failures, late>>

FailoverSegment ==
  /\ wpc = "segment"
  /\ segment' = file_count + 1 /\ wpc' = "count"
  /\ UNCHANGED <<is_running, dir, file_count, stream, reader, failures, late>>

(* MaybeSwitchDataDisk, in its two steps. *)
Failover == FailoverDir \/ FailoverSegment

FailoverCount ==
  /\ wpc = "count"
  /\ file_count' = file_count + 1 /\ wpc' = "idle"
  /\ UNCHANGED <<is_running, dir, segment, stream, reader, failures, late>>

(* The run is stopped, by the operator or a full disk. *)
Stop ==
  /\ is_running
  /\ is_running' = FALSE
  /\ UNCHANGED <<writer, stream, reader, failures, late>>
-----------------------------------------------------------------------------
(* The stream's file.  Opening appends; it may fail.  A write that fails     *)
(* leaves the ofstream bad: nothing more is written until it is opened       *)
(* again, and nobody looks.                                                  *)

Open(name) ==
  \/ /\ file' = [name |-> name, is |-> "open"]
     /\ UNCHANGED <<failures, open_error>>
  \/ /\ failures < MaxFailures /\ failures' = failures + 1
     /\ file' = [name |-> name, is |-> "closed"] /\ open_error' = TRUE

is_open == file.is # "closed"

(* Writes the records, or loses them, and leaves the buffer empty. *)
Write(records) ==
  /\ buffer' = <<>>
  /\ \/ /\ file.is = "open"
        /\ stored' = [stored EXCEPT ![file.name] = @ \o records]
        /\ UNCHANGED <<file, failures, lost>>
     \/ /\ file.is = "open" /\ failures < MaxFailures
        /\ failures' = failures + 1 /\ file' = [file EXCEPT !.is = "bad"]
        /\ lost' = TRUE /\ UNCHANGED stored
     \/ /\ file.is # "open"
        /\ lost' = TRUE /\ UNCHANGED <<file, failures, stored>>

KeepAll == UNCHANGED <<buffer, stored, file, failures, lost>>

(* The first file is opened with the directory as it is now, segment 0.  *)
FirstOpen ==
  /\ pc = "start"
  /\ Open(<<dir, 0>>)
  /\ pc' = "loop"
  /\ UNCHANGED <<is_running, writer, stream, loaded, open_segment, buffer, taken,
                 stored, lost, late>>

Loop ==
  /\ pc = "loop" /\ is_running
  /\ loaded' = segment
  /\ pc' = IF segment = open_segment THEN "take" ELSE "flush"
  /\ UNCHANGED <<is_running, writer, stream, open_segment, file, buffer, taken, stored,
                 failures, lost, open_error, late>>

FlushDiscards ==        \* mutant: the file is closed with records in the buffer
  /\ pc = "flush" /\ pc' = "reopen"
  /\ buffer' = <<>>
  /\ UNCHANGED <<is_running, writer, stream, loaded, open_segment, file, taken, stored,
                 failures, lost, open_error, late>>

(* Without an open file trigger records are dropped, PPS samples kept.  *)
Flush ==
  /\ pc = "flush" /\ pc' = "reopen"
  /\ \/ buffer # <<>> /\ (is_open \/ stream = "trigger") /\ Write(buffer)
     \/ (buffer = <<>> \/ (~is_open /\ stream = "pps")) /\ KeepAll
  /\ UNCHANGED <<is_running, writer, stream, loaded, open_segment, taken, open_error, late>>

(* Directory and segment are read again, under the mutex.  The segment may   *)
(* be newer than the one that was loaded, and the directory newer than the   *)
(* segment.                                                                  *)
Reopen ==
  /\ pc = "reopen"
  /\ Open(<<dir, segment>>)
  /\ open_segment' = loaded
  /\ pc' = "take"
  /\ UNCHANGED <<is_running, writer, stream, loaded, buffer, taken, stored, lost, late>>

TakeOverruns ==     \* mutant: the buffer is written one record too late
  /\ pc = "take" /\ pc' = "loop" /\ taken < MaxRecords
  /\ taken' = taken + 1
  /\ IF Len(buffer) = BufferSize + 1 THEN Write(Append(buffer, taken'))
     ELSE buffer' = Append(buffer, taken') /\ UNCHANGED <<stored, file, failures, lost>>
  /\ UNCHANGED <<is_running, writer, stream, loaded, open_segment, open_error, late>>

Take ==
  /\ pc = "take" /\ pc' = "loop" /\ taken < MaxRecords
  /\ taken' = taken + 1
  /\ LET records == Append(buffer, taken')
     IN \/ Len(records) >= BufferSize /\ Write(records)
        \/ /\ Len(records) < BufferSize
           /\ buffer' = records /\ UNCHANGED <<stored, file, failures, lost>>
  /\ UNCHANGED <<is_running, writer, stream, loaded, open_segment, open_error, late>>

(* No record, or none worth keeping. *)
Nothing ==
  /\ pc = "take" /\ pc' = "loop"
  /\ UNCHANGED <<is_running, writer, stream, loaded, open_segment, file, buffer, taken,
                 stored, failures, lost, open_error, late>>

Finish ==
  /\ pc = "loop" /\ ~is_running
  /\ pc' = "done"
  /\ \/ buffer # <<>> /\ Write(buffer)
     \/ buffer = <<>> /\ KeepAll
  /\ UNCHANGED <<is_running, writer, stream, loaded, open_segment, taken, open_error, late>>
-----------------------------------------------------------------------------
Writer == NextFile \/ Failover \/ FailoverCount
Reader == FirstOpen \/ Loop \/ Flush \/ Reopen \/ Take \/ Nothing \/ Finish

Next == Writer \/ Stop \/ Reader

(* Both threads are scheduled; a record need not come. *)
FairSpec == /\ Init /\ [][Next]_vars
            /\ WF_vars(Failover \/ FailoverCount) /\ WF_vars(Reader)
-----------------------------------------------------------------------------
Records(f) == Range(stored[f])

(* Whoever reads the files of a stream in the order of their segment numbers *)
(* meets every record in the order it was taken, and no segment has records  *)
(* on both disks; unless the run moved again before the stream had followed  *)
(* (data_handler.cpp:291-300, :971-979, :1177-1183).                         *)
SegmentsInOrder ==
  ~late => \A f, g \in Files : \A r \in Records(f), q \in Records(g) :
             /\ f[2] < g[2] => r < q
             /\ f[2] = g[2] => f = g

(* Records leave the memory of the stream only to a file or with an error:   *)
(* as long as no open and no write has failed, what was taken is stored or   *)
(* in the buffer, once, and at the end all of it is stored                   *)
(* (data_handler.cpp:913-939, :1017-1029, :1070-1082, :1150-1157).           *)
RecordsKept ==
  failures = 0 =>
    /\ ~lost
    /\ \A r \in 1 .. taken : r \in Range(buffer) \/ \E f \in Files : r \in Records(f)
    /\ \A f \in Files : \A r \in Records(f) :
         r \notin Range(buffer) /\ \A g \in Files \ {f} : r \notin Records(g)
    /\ pc = "done" => buffer = <<>>

(* A stream follows the run to the other disk, or ends with it               *)
(* (data_handler.cpp:972-979, :1178-1183).                                   *)
StreamsFollow == (file.name[1] # dir) ~> (file.name[1] = dir \/ pc = "done")
=============================================================================
