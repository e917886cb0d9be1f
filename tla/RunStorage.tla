----------------------------- MODULE RunStorage -----------------------------
(***************************************************************************)
(* Where the data of a run goes: the run number in /run_number/run_id.txt, *)
(* the choice of the disk at Configure, the numbered data files of a run   *)
(* and the move to the other disk between two files (controller.cpp,       *)
(* data_handler.cpp).  The process may die at any step; the files survive. *)
(*                                                                         *)
(* One thread gives commands here: overlapping commands are the subject of *)
(* RunControl.  DATA_BASE_DIR names one of the two NVMe directories, which *)
(* is all that WriteDataBaseDirConf ever writes, and the configuration     *)
(* file has every entry DataHandler::Configure asks for.                   *)
(***************************************************************************)
EXTENDS DiskSelect

CONSTANTS
  MaxId,      \* bound: largest run number
  MaxIndex    \* bound: largest number of a data file

ASSUME StorageAssumption == MaxId \in Nat /\ MaxIndex \in Nat

VARIABLES
  \* on disk
  id_file,    \* run_id.txt: a number, Blank or Absent
  conf,       \* DATA_BASE_DIR in data_ssd.conf
  used,       \* run numbers that data files of earlier runs have
  mine,       \* the data files of the run that goes on: disk and number
  free,       \* what statvfs says of each disk
  \* the process
  up, state, cmd, pc,
  pick_max,   \* DATA_PICK_MAX_FREE
  run_id, data_basedir,               \* the controller's
  basedir, active, run_number,        \* the data handler's: data_basedir_,
  file_count, stop,                   \* active_nvme_index_, ...; why it stopped
  \* history
  fault,      \* the run number file was missing, or writing it went wrong
  reused      \* a data file was opened under the number of an earlier run

disk == <<id_file, conf, used, mine>>
control == <<up, state, cmd, pc, pick_max, run_id, data_basedir>>
handler == <<basedir, active, run_number, file_count, stop>>
history == <<fault, reused>>
vars == <<disk, free, control, handler, history>>

Blank == -1
Absent == -2
Names == [dir : Disks, index : 0 .. MaxIndex]

TypeOK ==
  /\ id_file \in {Absent, Blank} \cup 0 .. MaxId /\ conf \in Disks
  /\ used \subseteq 0 .. MaxId /\ mine \subseteq Names
  /\ free \in [Disks -> Levels]
  /\ up \in BOOLEAN /\ pick_max \in BOOLEAN
  /\ state \in {"idle", "configured", "running", "stopped"}
  /\ cmd \in {"none", "configure", "reset"}
  /\ pc \in {"none", "read", "open", "write", "select", "rest", "reset"}
  /\ run_id \in 0 .. MaxId /\ data_basedir \in Disks
  /\ basedir \in Disks \cup {NoDisk} /\ active \in Disks
  /\ run_number \in 0 .. MaxId /\ file_count \in 0 .. MaxIndex
  /\ stop \in {"none", "reserve", "enospc"}
  /\ fault \in BOOLEAN /\ reused \in BOOLEAN

Init ==
  /\ id_file \in {Absent, Blank, 0} /\ conf \in Disks
  /\ used = {} /\ mine = {}
  /\ free = [d \in Disks |-> MaxLevel]
  /\ up = FALSE /\ state = "idle" /\ cmd = "none" /\ pc = "none"
  /\ pick_max = FALSE /\ run_id = 0 /\ data_basedir = 0
  /\ basedir = NoDisk /\ active = 0 /\ run_number = 0 /\ file_count = 0
  /\ stop = "none"
  /\ fault = (IF id_file < 0 THEN TRUE ELSE FALSE) /\ reused = FALSE
-----------------------------------------------------------------------------
(* The world outside the process. *)

SpaceChanges ==
  /\ \E d \in Disks, l \in Levels : l # free[d] /\ free' = [free EXCEPT ![d] = l]
  /\ UNCHANGED <<disk, control, handler, history>>

(* The orchestrator chooses a disk before it starts the daemon. *)
AutoSelectDataDir ==
  /\ ~up
  /\ \E max \in BOOLEAN :
       LET pick == SelectNvmeDataDir(max, free, StartReserve)
       IN pick.ok /\ conf' = pick.path
  /\ UNCHANGED <<id_file, used, mine, free, control, handler, history>>

Boot ==
  /\ ~up
  /\ up' = TRUE /\ pick_max' \in BOOLEAN /\ data_basedir' = conf
  /\ UNCHANGED <<disk, free, state, cmd, pc, run_id, handler, history>>

(* The number of a run that has files is used up. *)
RunEnds ==
  /\ used' = IF mine # {} THEN used \cup {run_number} ELSE used
  /\ mine' = {}

Fresh ==
  /\ state' = "idle" /\ cmd' = "none" /\ pc' = "none"
  /\ pick_max' = FALSE /\ run_id' = 0 /\ data_basedir' = 0
  /\ basedir' = NoDisk /\ active' = 0 /\ run_number' = 0 /\ file_count' = 0
  /\ stop' = "none"

(* The process ends, with whatever it has done to the files.  *)
Crash ==
  /\ up
  /\ up' = FALSE /\ Fresh
  /\ RunEnds
  /\ fault' = (fault \/ pc = "write")
  /\ UNCHANGED <<id_file, conf, free, reused>>
-----------------------------------------------------------------------------
(* TPC_Configure and TPC_Reset_Run both begin with PersistRunId. *)

Command(c, s) ==
  /\ up /\ pc = "none" /\ state = s
  /\ cmd' = c /\ pc' = "read"
  /\ UNCHANGED <<disk, free, up, state, pick_max, run_id, data_basedir, handler, history>>

Configure == Command("configure", "idle")

ResetKeepsId ==      \* mutant: a reset keeps the run number
  /\ up /\ pc = "none" /\ state = "stopped"
  /\ cmd' = "reset" /\ pc' = "reset"
  /\ UNCHANGED <<disk, free, up, state, pick_max, run_id, data_basedir, handler, history>>

Reset == Command("reset", "stopped")

Persisted == IF cmd = "configure" THEN "select" ELSE "reset"

(* A number that cannot be read is 0, and a file that cannot be opened is    *)
(* not created.                                                              *)
ReadRunId ==
  /\ pc = "read"
  /\ \/ /\ id_file # Absent /\ id_file < MaxId
        /\ run_id' = IF id_file = Blank THEN 0 ELSE id_file + 1
        /\ pc' = "open"
        /\ UNCHANGED fault
     \/ run_id' = 0 /\ pc' = Persisted /\ fault' = TRUE
  /\ UNCHANGED <<disk, free, up, state, cmd, pick_max, data_basedir, handler, reused>>

(* Opening the file for writing empties it. *)
OpenRunId ==
  /\ pc = "open"
  /\ \/ id_file' = Blank /\ pc' = "write" /\ UNCHANGED <<run_id, fault>>
     \/ run_id' = 0 /\ pc' = Persisted /\ fault' = TRUE /\ UNCHANGED id_file
  /\ UNCHANGED <<conf, used, mine, free, up, state, cmd, pick_max, data_basedir,
                 handler, reused>>

(* Whether the number was stored is not checked. *)
WriteRunId ==
  /\ pc = "write"
  /\ pc' = Persisted
  /\ \/ id_file' = run_id /\ UNCHANGED fault
     \/ fault' = TRUE /\ UNCHANGED id_file
  /\ UNCHANGED <<conf, used, mine, free, up, state, cmd, pick_max, run_id, data_basedir,
                 handler, reused>>

SelectUnchecked ==      \* mutant: whether the pick has room is not looked at
  /\ pc = "select"
  /\ LET stay == ~pick_max /\ Enough(free[data_basedir], StartReserve)
         pick == SelectNvmeDataDir(pick_max, free, StartReserve)
         dir == IF stay THEN data_basedir ELSE pick.path
     IN data_basedir' = dir /\ conf' = dir
  /\ pc' = "rest"
  /\ UNCHANGED <<id_file, used, mine, free, up, state, cmd, pick_max, run_id, handler,
                 history>>

(* With DATA_PICK_MAX_FREE the better disk; without it the current one as    *)
(* long as it has room, and then disk 0 before disk 1.                       *)
SelectNvmeDataDirForRun ==
  /\ pc = "select"
  /\ LET stay == ~pick_max /\ Enough(free[data_basedir], StartReserve)
         pick == SelectNvmeDataDir(pick_max, free, StartReserve)
     IN \/ /\ stay
           /\ pc' = "rest" /\ UNCHANGED <<cmd, conf, data_basedir>>
        \/ /\ ~stay /\ pick.ok
           /\ pc' = "rest" /\ data_basedir' = pick.path /\ conf' = pick.path
           /\ UNCHANGED cmd
        \/ /\ ~stay /\ ~pick.ok
           /\ pc' = "none" /\ cmd' = "none" /\ UNCHANGED <<conf, data_basedir>>
  /\ UNCHANGED <<id_file, used, mine, free, up, state, pick_max, run_id, handler, history>>

IndexOf(dir) == IF dir \in Disks THEN dir ELSE 0

(* The rest of Configure: it may fail before it reaches the data handler, on *)
(* its arguments, the configuration file or the PCIe devices.                *)
ConfigureRest ==
  /\ pc = "rest"
  /\ pc' = "none" /\ cmd' = "none"
  /\ \/ UNCHANGED <<state, basedir, active, run_number, file_count>>
     \/ /\ state' = "configured"
        /\ basedir' = data_basedir /\ active' = IndexOf(data_basedir)
        /\ run_number' = run_id /\ file_count' = 0
  /\ UNCHANGED <<disk, free, up, pick_max, run_id, data_basedir, stop, history>>

(* DataHandler::Reset stays on the disk it was on, and nobody looks at its   *)
(* free space.                                                               *)
ResetHandler ==
  /\ pc = "reset"
  /\ pc' = "none" /\ cmd' = "none" /\ state' = "configured"
  /\ run_number' = run_id /\ file_count' = 0 /\ stop' = "none"
  /\ active' = IndexOf(basedir)
  /\ UNCHANGED <<disk, free, up, pick_max, run_id, data_basedir, basedir, history>>
-----------------------------------------------------------------------------
(* The data files.  O_TRUNC empties a file that is there already.  Opening   *)
(* fails on a disk that is gone, and may fail with ENOSPC on a full one,     *)
(* which stops the run.                                                      *)

Name(dir, index) == [dir |-> dir, index |-> index]

Opened(name, files) ==
  /\ free[name.dir] # Gone
  /\ mine' = files \cup {name}
  /\ reused' = (reused \/ run_number \in used)
  /\ UNCHANGED stop

NotOpened(name, files) ==
  /\ mine' = files /\ UNCHANGED reused
  /\ \/ free[name.dir] = Gone /\ UNCHANGED stop
     \/ free[name.dir] = 0 /\ stop' = "enospc"

Start ==
  /\ up /\ pc = "none" /\ state = "configured"
  /\ state' = "running"
  /\ LET first == Name(basedir, file_count)
     IN \/ Opened(first, {}) \/ NotOpened(first, {})
  /\ UNCHANGED <<id_file, conf, used, free, up, cmd, pc, pick_max, run_id, data_basedir,
                 basedir, active, run_number, file_count, fault>>

(* A chunk that does not fit stops the run, also when the other disk is free.*)
WriteFails ==
  /\ state = "running" /\ free[basedir] = 0
  /\ stop' = "enospc"
  /\ UNCHANGED <<disk, free, control, basedir, active, run_number, file_count, history>>

AltIndexFixed(i) == 1        \* mutant: the second disk is the alternative

AltIndex(i) == 1 - i

(* MaybeSwitchDataDisk: the current disk, the other one, or none.  A disk    *)
(* that is there but cannot be examined is taken on trust.                   *)
MaybeSwitchDataDisk ==
  LET alt == AltIndex(active)
  IN CASE Enough(free[basedir], SwitchReserve) -> basedir
       [] ~Enough(free[basedir], SwitchReserve)
          /\ (free[alt] = Unreadable \/ Enough(free[alt], SwitchReserve)) -> alt
       [] OTHER -> NoDisk

SwitchWriteFileSameName ==     \* mutant: a failover forgets to count the file
  /\ state = "running" /\ stop = "none" /\ file_count < MaxIndex
  /\ LET dir == MaybeSwitchDataDisk
         next == IF dir = basedir THEN file_count + 1 ELSE file_count
     IN \/ /\ dir = NoDisk
           /\ stop' = "reserve"
           /\ UNCHANGED <<mine, reused, basedir, active, file_count>>
        \/ /\ dir # NoDisk
           /\ basedir' = dir /\ active' = dir /\ file_count' = next
           /\ Opened(Name(dir, next), mine) \/ NotOpened(Name(dir, next), mine)
  /\ UNCHANGED <<id_file, conf, used, free, control, run_number, fault>>

(* After 5000 events.  The write thread may come here again after the run    *)
(* was stopped, as long as the queue has blocks: then nothing is opened.     *)
SwitchWriteFile ==
  /\ state = "running" /\ stop = "none" /\ file_count < MaxIndex
  /\ LET dir == MaybeSwitchDataDisk
         next == file_count + 1
     IN \/ /\ dir = NoDisk
           /\ stop' = "reserve"
           /\ UNCHANGED <<mine, reused, basedir, active, file_count>>
        \/ /\ dir # NoDisk
           /\ basedir' = dir /\ active' = dir /\ file_count' = next
           /\ Opened(Name(dir, next), mine) \/ NotOpened(Name(dir, next), mine)
  /\ UNCHANGED <<id_file, conf, used, free, control, run_number, fault>>

(* By the operator, or by the status thread after a disk stop. *)
Stop ==
  /\ up /\ pc = "none" /\ state = "running"
  /\ state' = "stopped"
  /\ RunEnds
  /\ UNCHANGED <<id_file, conf, free, up, cmd, pc, pick_max, run_id, data_basedir, handler,
                 history>>
-----------------------------------------------------------------------------
PersistRunId == ReadRunId \/ OpenRunId \/ WriteRunId

Next == \/ SpaceChanges \/ AutoSelectDataDir \/ Boot \/ Crash
        \/ Configure \/ Reset \/ PersistRunId
        \/ SelectNvmeDataDirForRun \/ ConfigureRest \/ ResetHandler
        \/ Start \/ WriteFails \/ SwitchWriteFile \/ Stop

Spec == Init /\ [][Next]_vars
-----------------------------------------------------------------------------
(* Both ways to choose a disk accept a run exactly when one disk has the     *)
(* reserve, as AllNvmeDisksBelowMinFree says, and choose a disk that has it; *)
(* the better disk is the one with most free space                           *)
(* (storage_utils.cpp:107-172).                                              *)
SelectionAgrees ==
  \A max \in BOOLEAN, min \in {SwitchReserve, StartReserve} :
    LET pick == SelectNvmeDataDir(max, free, min)
    IN /\ pick \in Pick
       /\ pick.ok <=> ~AllNvmeDisksBelowMinFree(free, min)
       /\ pick.ok => free[pick.path] >= min
       /\ max /\ pick.path # NoDisk => \A d \in Disks : free[d] <= free[pick.path]

(* Run numbers do not come back: over crashes, failed configurations and     *)
(* resets no data file is opened, and so truncated, under the number of an   *)
(* earlier run, unless the run number file was missing, could not be opened  *)
(* or written, or the process died between emptying and writing it           *)
(* (controller.cpp:123-155, data_handler.cpp:333).                           *)
RunsKeepTheirFiles == reused => fault

(* The files of a run are numbered without a repetition, over any number of  *)
(* moves from disk to disk: a number is used on one disk only, and none      *)
(* beyond file_count_ (data_handler.cpp:253-305, :331-334).                  *)
OneFilePerNumber ==
  /\ \A f, g \in mine : f.index = g.index => f = g
  /\ \A f \in mine : f.index <= file_count

(* Whenever a file is switched while some disk has the reserve, the run goes *)
(* on and the new file is on a disk that has it, whatever failovers, resets  *)
(* and restarts led to the disk in use (data_handler.cpp:253-305).           *)
SwitchUsesRoom ==
  [][/\ state = "running" /\ state' = "running"
     /\ file_count' # file_count \/ (stop = "none" /\ stop' = "reserve")
     /\ ~AllNvmeDisksBelowMinFree(free, SwitchReserve)
     => stop' # "reserve" /\ Enough(free[basedir'], SwitchReserve)]_vars
=============================================================================
