---------------------------- MODULE MirrorEngine ----------------------------
(***************************************************************************)
(* The data mirror daemon (daemon/mirror_engine.cpp): it copies every file  *)
(* that is closed on the data disks to a backup disk.  Three threads: main  *)
(* scans what is there already and then waits for a signal, the watcher     *)
(* turns inotify events into jobs, the worker copies.                       *)
(*                                                                          *)
(* A file is identified by the run it belongs to and by its rank in the     *)
(* order in which the files of a run are copied (what ParseFileMeta reads   *)
(* off the path).  Data files only grow: a file is modelled by its version, *)
(* which stands for its size and for its modification time.                 *)
(*                                                                          *)
(* Sections under mutex_ are single steps.  Two are not, the insertion and  *)
(* the final RequestStop of the main thread, which takes the signals: the   *)
(* signal handler locks mutex_ too.  Rate limiting and the age filter are   *)
(* left out.                                                                *)
(***************************************************************************)
EXTENDS Integers, FiniteSets, FiniteSetsExt

CONSTANTS
  Files,        \* records [run, rank]
  TofRun,       \* kTofRunId, larger than any run number
  Backlog,      \* version of each file before the first start, 0 for none
  MaxVersion,   \* bound: versions of each file
  MaxStarts     \* bound: starts of the daemon

ASSUME MirrorAssumption ==
  /\ TofRun \in Nat /\ MaxVersion \in [Files -> Nat]
  /\ MaxStarts \in Nat
  /\ Backlog \in [Files -> Nat] /\ \A f \in Files : Backlog[f] <= MaxVersion[f]
  /\ Files \subseteq [run : 0 .. TofRun, rank : Nat] /\ IsFiniteSet(Files)

VARIABLES
  src,          \* version of every file, 0 if it does not exist
  writing,      \* files some program has open for writing
  dst,          \* the backup: size and modification time
  saved,        \* the state file: version of every file recorded as copied
  mpc, toscan,  \* main thread: its place, files not yet scanned
  sig,          \* the signal handler: not called, at the lock, returned
  g_running, running,
  watching, events,     \* inotify: files in watched directories, with an event
  vpc, wpc,     \* places of the watcher and of the worker
  enq,          \* the job main and the watcher are about to insert
  pending, queued,      \* pending_ and the jobs of run_queues_
  job, start, got,      \* worker: job, version at its start, version copied
  active, tpc_bytes, tof_bytes,
  starts,
  missed        \* history: files that were given up, see below

env == <<src, writing>>
disk == <<dst, saved>>
mainVars == <<mpc, toscan, sig, g_running, running, starts>>
watchVars == <<watching, events, vpc>>
queueVars == <<pending, queued, enq>>
workVars == <<wpc, job, start, got, active, tpc_bytes, tof_bytes>>
vars == <<env, disk, mainVars, watchVars, queueVars, workVars, missed>>

Largest == Max({0} \cup {MaxVersion[f] : f \in Files})
Version == 0 .. Largest
NoRun == -1
NoJob == [file |-> [run |-> NoRun, rank |-> 0], size |-> 0]
Job == [file : Files, size : 1 .. Largest]

Init ==
  /\ src = Backlog /\ writing = {}
  /\ dst = [f \in Files |-> [size |-> 0, mtime |-> 0]]
  /\ saved = [f \in Files |-> 0]
  /\ mpc = "down" /\ toscan = {} /\ sig = "none"
  /\ g_running = TRUE /\ running = TRUE
  /\ watching = {} /\ events = {} /\ vpc = "off" /\ wpc = "off"
  /\ enq = NoJob /\ pending = {} /\ queued = {}
  /\ job = NoJob /\ start = 0 /\ got = 0
  /\ active = NoRun /\ tpc_bytes = 0 /\ tof_bytes = 0
  /\ starts = 0 /\ missed = {}
-----------------------------------------------------------------------------
(* The programs that write the data files. *)

Write(f) ==
  /\ src[f] < MaxVersion[f]
  /\ src' = [src EXCEPT ![f] = @ + 1]
  /\ writing' = writing \cup {f}
  /\ UNCHANGED <<disk, mainVars, watchVars, queueVars, workVars, missed>>

(* IN_CLOSE_WRITE, if there is a watch; when the queue of the kernel is full *)
(* the event is lost, and the overflow event, which has no name, is skipped. *)
(* A file that is closed after its scan without a watch is missed.           *)
Close(f) ==
  /\ f \in writing
  /\ writing' = writing \ {f}
  /\ \/ f \in watching /\ events' = events \cup {f} /\ UNCHANGED missed
     \/ f \in watching /\ missed' = missed \cup {f} /\ UNCHANGED events
     \/ /\ f \notin watching /\ UNCHANGED events
        /\ missed' = IF mpc \in {"scan", "insert", "loop"} /\ f \notin toscan
                     THEN missed \cup {f} ELSE missed
  /\ UNCHANGED <<src, disk, mainVars, watching, vpc, queueVars, workVars>>
-----------------------------------------------------------------------------
(* Enqueue, called by main for each file it scans and by the watcher for     *)
(* each event.  SelectBackupRootForCopy may find no backup with room.        *)

NeedsCopy(f) == /\ src[f] > 0
                /\ \/ dst[f].size # src[f]
                   \/ src[f] > dst[f].mtime

IsSynced(f) == src[f] > 0 /\ saved[f] = src[f]

(* The checks before the lock, for a file that is wanted: a job to insert,   *)
(* or nothing.                                                               *)
EnqueueCheck(f, wanted) ==
  \/ /\ wanted /\ NeedsCopy(f)
     /\ enq' = [file |-> f, size |-> src[f]]
     /\ UNCHANGED missed
  \/ /\ wanted /\ NeedsCopy(f)         \* no backup has room
     /\ enq' = NoJob
     /\ missed' = missed \cup {f}
  \/ /\ ~(wanted /\ NeedsCopy(f))
     /\ enq' = NoJob
     /\ UNCHANGED missed

(* Mutant of EnqueueInsert: the file is queued although it is pending. *)
EnqueueInsertTwice ==
  /\ pending' = pending \cup {enq.file}
  /\ queued' = queued \cup {enq}
  /\ UNCHANGED missed

(* Under mutex_.  A file that is pending is not queued again, even if the    *)
(* worker has already read the end of it.                                    *)
EnqueueInsert ==
  IF enq.file \in pending
  THEN /\ missed' = IF wpc \in {"save", "erase"} /\ job.file = enq.file
                    THEN missed \cup {enq.file} ELSE missed
       /\ UNCHANGED <<pending, queued>>
  ELSE /\ pending' = pending \cup {enq.file}
       /\ queued' = queued \cup {enq}
       /\ UNCHANGED missed
-----------------------------------------------------------------------------
(* The main thread: Run.                                                     *)

(* LoadState, then ScanBacklog over every file. *)
Start ==
  /\ mpc = "down" /\ starts < MaxStarts
  /\ starts' = starts + 1
  /\ mpc' = "scan" /\ toscan' = Files
  /\ UNCHANGED <<env, disk, sig, g_running, running, watchVars, queueVars,
                 workVars, missed>>

ScanFile(f) ==
  /\ mpc = "scan" /\ sig # "lock" /\ f \in toscan
  /\ toscan' = toscan \ {f}
  /\ EnqueueCheck(f, ~IsSynced(f))
  /\ mpc' = IF enq' = NoJob THEN "scan" ELSE "insert"
  /\ UNCHANGED <<env, disk, sig, g_running, running, starts, watchVars, pending,
                 queued, workVars>>

(* main holds mutex_ when it is at "insert". *)
ScanInsert ==
  /\ mpc = "insert" /\ sig # "lock"
  /\ EnqueueInsert
  /\ enq' = NoJob
  /\ mpc' = "scan"
  /\ UNCHANGED <<env, disk, toscan, sig, g_running, running, starts, watchVars,
                 workVars>>

StartThreads ==
  /\ mpc = "scan" /\ sig # "lock" /\ toscan = {}
  /\ mpc' = "loop"
  /\ vpc' = "arm" /\ wpc' = "pop"
  /\ UNCHANGED <<env, disk, toscan, sig, g_running, running, starts, watching,
                 events, queueVars, job, start, got, active, tpc_bytes,
                 tof_bytes, missed>>

(* main holds mutex_, or the handler waits for it on main. *)
MainLocks == mpc \in {"insert", "stop"}
Trapped == sig = "lock" /\ MainLocks

(* The signal handler, in the main thread: g_running, then RequestStop.      *)
(* Further signals find both flags as they leave them and only delay main,   *)
(* unless main holds mutex_.                                                 *)
Signal ==
  /\ mpc # "down"
  /\ sig = "none" \/ (sig = "done" /\ MainLocks)
  /\ sig' = "lock"
  /\ g_running' = FALSE
  /\ UNCHANGED <<env, disk, mpc, toscan, running, starts, watchVars, queueVars,
                 workVars, missed>>

HandlerLock ==
  /\ sig = "lock" /\ ~MainLocks
  /\ sig' = "done"
  /\ running' = FALSE
  /\ UNCHANGED <<env, disk, mpc, toscan, g_running, starts, watchVars,
                 queueVars, workVars, missed>>

(* The loop ends: RequestStop takes mutex_, and gives it back; then both     *)
(* threads are joined.                                                       *)
Shutdown ==
  /\ sig # "lock"
  /\ \/ mpc = "loop" /\ ~g_running /\ mpc' = "stop" /\ UNCHANGED running
     \/ mpc = "stop" /\ mpc' = "join" /\ running' = FALSE
  /\ UNCHANGED <<env, disk, toscan, sig, g_running, starts, watchVars,
                 queueVars, workVars, missed>>

(* The process is gone, with all that it keeps in memory. *)
Halt ==
  /\ mpc' = "down" /\ toscan' = {} /\ sig' = "none"
  /\ g_running' = TRUE /\ running' = TRUE
  /\ watching' = {} /\ events' = {} /\ vpc' = "off" /\ wpc' = "off"
  /\ enq' = NoJob /\ pending' = {} /\ queued' = {}
  /\ job' = NoJob /\ start' = 0 /\ got' = 0
  /\ active' = NoRun /\ tpc_bytes' = 0 /\ tof_bytes' = 0
  /\ UNCHANGED <<env, disk, starts, missed>>

Exit ==
  /\ mpc = "join" /\ sig # "lock" /\ vpc = "done" /\ wpc = "done"
  /\ Halt

(* Power loss, or the process is killed. *)
Crash ==
  /\ mpc # "down"
  /\ Halt
-----------------------------------------------------------------------------
(* The watcher: RunInotify. *)

(* A directory that cannot be watched is passed over; without inotify the    *)
(* watcher only waits for the end.                                           *)
Arm ==
  /\ vpc = "arm"
  /\ \/ vpc' = "watch" /\ watching' \in SUBSET Files
     \/ vpc' = "deaf" /\ UNCHANGED watching
  /\ UNCHANGED <<env, disk, mainVars, events, queueVars, workVars, missed>>

(* When there is no event the TOF directories are tried again. *)
Rewatch ==
  /\ vpc = "watch" /\ g_running /\ events = {}
  /\ \E more \in SUBSET {f \in Files : f.run = TofRun} : watching' = watching \cup more
  /\ UNCHANGED <<env, disk, mainVars, events, vpc, queueVars, workVars, missed>>

Watch(f) ==
  /\ vpc = "watch" /\ g_running /\ f \in events
  /\ events' = events \ {f}
  /\ EnqueueCheck(f, TRUE)
  /\ vpc' = IF enq' = NoJob THEN "watch" ELSE "insert"
  /\ UNCHANGED <<env, disk, mainVars, watching, pending, queued, workVars>>

WatchInsert ==
  /\ vpc = "insert" /\ ~MainLocks
  /\ EnqueueInsert
  /\ enq' = NoJob
  /\ vpc' = "watch"
  /\ UNCHANGED <<env, disk, mainVars, watching, events, workVars>>

WatchEnd ==
  /\ vpc \in {"watch", "deaf"} /\ ~g_running
  /\ vpc' = "done"
  /\ UNCHANGED <<env, disk, mainVars, watching, events, queueVars, workVars, missed>>
-----------------------------------------------------------------------------
(* The worker: RunWorker. *)

(* The order in which PopNext picks files of one run: TOF files by their     *)
(* time when they were queued, then by name.                                 *)
Better(a, b) ==
  IF a.file.run = TofRun
  THEN a.size < b.size \/ (a.size = b.size /\ a.file.rank < b.file.rank)
  ELSE a.file.rank < b.file.rank

Of(run) == {j \in queued : j.file.run = run}
Runs == {j.file.run : j \in queued}
BothPending == TofRun \in Runs /\ Runs # {TofRun}

(* Mutant of NextRun: the bytes of the two sides are not compared. *)
NextRunTofFirst == IF TofRun \in Runs THEN TofRun
                   ELSE IF active \in Runs THEN active ELSE Min(Runs)

(* The run to serve: with TOF and TPC files pending, the side that has had   *)
(* fewer bytes; otherwise, the run served last while it has files.           *)
NextRun ==
  LET Stay(runs) == IF active \in runs THEN active ELSE Min(runs)
  IN CASE BothPending /\ tof_bytes <= tpc_bytes -> TofRun
       [] BothPending /\ tof_bytes > tpc_bytes -> Stay(Runs \ {TofRun})
       [] OTHER -> Stay(Runs)

(* PopNext: the bytes are counted from the last time one side had nothing.   *)
PopNext ==
  /\ wpc = "pop" /\ ~MainLocks
  /\ tpc_bytes' = IF BothPending THEN tpc_bytes ELSE 0
  /\ tof_bytes' = IF BothPending THEN tof_bytes ELSE 0
  /\ \/ /\ queued # {}
        /\ LET best == CHOOSE j \in Of(NextRun) :
                         \A k \in Of(NextRun) \ {j} : Better(j, k)
           IN /\ job' = best
              /\ queued' = queued \ {best}
        /\ active' = NextRun
        /\ wpc' = "copy"
     \/ /\ queued = {}
        /\ active' = NoRun
        /\ wpc' = "wait"
        /\ UNCHANGED <<job, queued>>
  /\ UNCHANGED <<env, disk, mainVars, watchVars, pending, enq, start, got, missed>>

WaitForJob ==              \* mutant: the predicate does not look at running_
  /\ wpc = "wait" /\ ~MainLocks
  /\ queued # {}
  /\ wpc' = "pop"
  /\ UNCHANGED <<env, disk, mainVars, watchVars, queueVars, job, start, got,
                 active, tpc_bytes, tof_bytes, missed>>

(* cv_.wait: until there is a job or the daemon stops. *)
Wait ==
  /\ wpc = "wait" /\ ~MainLocks
  /\ ~running \/ queued # {}
  /\ wpc' = IF queued = {} THEN "done" ELSE "pop"
  /\ UNCHANGED <<env, disk, mainVars, watchVars, queueVars, job, start, got,
                 active, tpc_bytes, tof_bytes, missed>>

(* NeedsCopy, and CopyFile as far as the stat of the source. *)
CopyStart ==
  /\ wpc = "copy"
  /\ wpc' = IF NeedsCopy(job.file) THEN "read" ELSE "erase"
  /\ start' = src[job.file]
  /\ got' = 0
  /\ UNCHANGED <<env, disk, mainVars, watchVars, queueVars, job, active,
                 tpc_bytes, tof_bytes, missed>>

(* The end of the source is reached; the partial file is synced and renamed. *)
CopyRename ==
  /\ wpc = "read" /\ g_running
  /\ got' = src[job.file]
  /\ dst' = [dst EXCEPT ![job.file] = [size |-> src[job.file], mtime |-> src[job.file]]]
  /\ wpc' = "save"
  /\ UNCHANGED <<env, saved, mainVars, watchVars, queueVars, job, start, active,
                 tpc_bytes, tof_bytes, missed>>

(* An input or output error, or the daemon stops: the partial file is        *)
(* removed.                                                                  *)
CopyFail ==
  /\ wpc = "read"
  /\ wpc' = "erase"
  /\ missed' = missed \cup {job.file}
  /\ UNCHANGED <<env, disk, mainVars, watchVars, queueVars, job, start, got,
                 active, tpc_bytes, tof_bytes>>

(* utimensat gives the copy the time of the source at the start, and         *)
(* SaveStateEntry records the source as it is now.                           *)
SaveStateEntry ==
  /\ wpc = "save"
  /\ dst' = [dst EXCEPT ![job.file].mtime = start]
  /\ saved' = [saved EXCEPT ![job.file] = src[job.file]]
  /\ missed' = IF src[job.file] # got THEN missed \cup {job.file} ELSE missed
  /\ wpc' = "erase"
  /\ UNCHANGED <<env, mainVars, watchVars, queueVars, job, start, got, active,
                 tpc_bytes, tof_bytes>>

EraseForgotten ==          \* mutant: the file stays in pending_
  /\ wpc = "erase" /\ ~MainLocks
  /\ wpc' = "pop"
  /\ job' = NoJob /\ start' = 0 /\ got' = 0
  /\ UNCHANGED <<env, disk, mainVars, watchVars, queueVars, active, tpc_bytes,
                 tof_bytes, missed>>

(* Under mutex_: the bytes of a copied job are counted, and the file may be  *)
(* queued again.                                                             *)
Erase ==
  /\ wpc = "erase" /\ ~MainLocks
  /\ LET bytes == IF got > 0 THEN job.size ELSE 0
         tof == job.file.run = TofRun
     IN /\ tof_bytes' = IF tof THEN tof_bytes + bytes ELSE tof_bytes
        /\ tpc_bytes' = IF tof THEN tpc_bytes ELSE tpc_bytes + bytes
  /\ pending' = pending \ {job.file}
  /\ wpc' = "pop"
  /\ job' = NoJob /\ start' = 0 /\ got' = 0
  /\ UNCHANGED <<env, disk, mainVars, watchVars, queued, enq, active, missed>>
-----------------------------------------------------------------------------
Main == \/ \E f \in Files : ScanFile(f)
        \/ ScanInsert \/ StartThreads \/ HandlerLock \/ Shutdown \/ Exit

Watcher == Arm \/ WatchInsert \/ WatchEnd \/ \E f \in Files : Watch(f)

Worker == \/ PopNext \/ Wait \/ CopyStart \/ CopyRename \/ CopyFail
          \/ SaveStateEntry \/ Erase

Next == \/ \E f \in Files : Write(f) \/ Close(f)
        \/ Start \/ Main \/ Signal \/ Crash \/ Watcher \/ Rewatch \/ Worker

Spec == Init /\ [][Next]_vars

(* The threads are scheduled, and a program that writes a file closes it in  *)
(* the end; nothing has to crash, fail or be started.                        *)
FairSpec == /\ Spec
            /\ WF_vars(Main) /\ WF_vars(Watcher) /\ WF_vars(Worker)
            /\ \A f \in Files : WF_vars(Close(f)) /\ WF_vars(Watch(f))
-----------------------------------------------------------------------------
TypeOK ==
  /\ src \in [Files -> Version] /\ writing \subseteq Files
  /\ dst \in [Files -> [size : Version, mtime : Version]]
  /\ saved \in [Files -> Version]
  /\ mpc \in {"down", "scan", "insert", "loop", "stop", "join"}
  /\ toscan \subseteq Files
  /\ sig \in {"none", "lock", "done"}
  /\ g_running \in BOOLEAN /\ running \in BOOLEAN
  /\ watching \subseteq Files /\ events \subseteq Files /\ missed \subseteq Files
  /\ vpc \in {"off", "arm", "watch", "deaf", "insert", "done"}
  /\ wpc \in {"off", "pop", "wait", "copy", "read", "save", "erase", "done"}
  /\ enq \in Job \cup {NoJob} /\ job \in Job \cup {NoJob}
  /\ pending \subseteq Files /\ queued \subseteq Job
  /\ start \in Version /\ got \in Version
  /\ active \in {f.run : f \in Files} \cup {NoRun}
  /\ tpc_bytes \in Nat /\ tof_bytes \in Nat /\ starts \in 0 .. MaxStarts

Up == mpc # "down"
Busy == wpc \in {"copy", "read", "save", "erase"}

(* While the daemon is up, a file is in pending_ exactly as long as it has   *)
(* one job, queued or being copied: a file left behind would never be        *)
(* mirrored again, one with two jobs would be copied twice                   *)
(* (mirror_engine.cpp:453-459, :534-549, :688-692).                          *)
PendingExact ==
  Up => /\ pending = {j.file : j \in queued} \cup (IF Busy THEN {job.file} ELSE {})
        /\ \A j, k \in queued : j.file = k.file => j = k
        /\ Busy => \A j \in queued : j.file # job.file

(* The bytes copied for TOF and for the TPC, since both had files waiting,   *)
(* differ by no more than one file (mirror_engine.cpp:542-546, :723-737).    *)
ByteBalance ==
  /\ tof_bytes - tpc_bytes <= Largest
  /\ tpc_bytes - tof_bytes <= Largest

(* Once the watches are set, a file that is closed is mirrored, unless it is *)
(* written to again, the daemon stops, or the file was given up: for lack of *)
(* room, a failed copy, a close after its scan without a watch (before the   *)
(* first one, or in a directory that could not be watched), an event lost    *)
(* when the queue of the kernel was full, or growth while it was copied      *)
(* (mirror_engine.cpp:428-462, :521-551, :555-642).                          *)
Mirrored ==
  \A f \in Files :
    /\ vpc \in {"watch", "deaf", "insert"}
    /\ src[f] > 0 /\ f \notin writing /\ f \notin missed
    ~> (dst[f].size = src[f] \/ f \in writing \/ f \in missed \/ ~g_running \/ ~Up)

(* Once the signal handler has returned the daemon exits, whatever jobs are  *)
(* queued, unless another signal finds main holding mutex_                   *)
(* (mirror_engine.cpp:353, :393-398, :420-426, :523-531, :824-834).          *)
ShutdownReturns == (sig = "done") ~> (~Up \/ Trapped)
-----------------------------------------------------------------------------
(* "Blocks until SIGINT/SIGTERM. Returns 0 on graceful shutdown."            *)
(* (mirror_engine.h:13); violated.                                           *)
SignalEndsDaemon == (sig = "lock") ~> ~Up
=============================================================================
