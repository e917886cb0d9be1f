-------------------------- MODULE RunStorageProofs --------------------------
(***************************************************************************)
(* Proofs about RunStorage, for any bound on run numbers and file numbers, *)
(* any levels and any reserves.                                            *)
(***************************************************************************)
EXTENDS RunStorage, TLAPS

(* Which command is under way in which state, and what a state has set up.   *)
Phases ==
  /\ ~up => pc = "none" /\ state = "idle"
  /\ pc # "none" => \/ cmd = "configure" /\ state = "idle"
                    \/ cmd = "reset" /\ state = "stopped"
  /\ pc \in {"select", "rest"} => cmd = "configure"
  /\ pc = "reset" => cmd = "reset"
  /\ state # "idle" => basedir \in Disks /\ active = basedir
  /\ mine # {} => state = "running"

(* Without a fault the run number file is at least as large as every number  *)
(* in use, and the number of the run that is coming or going on is its own.  *)
Numbers ==
  /\ id_file # Absent
  /\ pc # "write" => id_file # Blank /\ \A n \in used : n <= id_file
  /\ pc = "write" => \A n \in used : n < run_id
  /\ pc = "open" => run_id = id_file + 1
  /\ pc \in {"select", "rest", "reset"} => run_id = id_file /\ run_id \notin used
  /\ state \in {"configured", "running"} => run_number = id_file /\ run_number \notin used
  /\ ~reused

(* The inductive invariant: types, phases, the numbers without a fault, and  *)
(* the files that are open.                                                  *)
StorageInv ==
  /\ TypeOK /\ Phases
  /\ ~fault => Numbers
  /\ OneFilePerNumber
-----------------------------------------------------------------------------
(* A readable disk is there to be picked whenever there is one.              *)
LEMMA BestExists ==
  ASSUME NEW f \in [Disks -> Levels], NEW min \in Nat
  PROVE  LET pick == PickMaxFree(f, min)
             readable == {d \in Disks : HasValue(f[d])}
         IN /\ readable = {} => pick.path = NoDisk /\ ~pick.ok
            /\ readable # {} => /\ pick.path \in readable
                              /\ \A e \in readable : f[e] <= f[pick.path]
                              /\ (pick.ok <=> f[pick.path] >= min)
            /\ pick \in Pick
<1> DEFINE readable == {d \in Disks : HasValue(f[d])}
           Best(d) == \A e \in readable : f[e] < f[d] \/ (f[e] = f[d] /\ d <= e)
           best == CHOOSE d \in readable : Best(d)
<1>1. f[0] \in Int /\ f[1] \in Int /\ readable \subseteq {0, 1}
  BY ReserveAssumption DEF Disks, Levels, Gone
<1>2. ASSUME readable # {}
      PROVE  best \in readable /\ Best(best)
  <2>1. \E d \in readable : Best(d)
    <3>1. CASE 0 \in readable /\ (1 \in readable => f[1] <= f[0])
      BY <3>1, <1>1
    <3>2. CASE 1 \in readable /\ (0 \in readable => f[0] < f[1])
      BY <3>2, <1>1
    <3> QED
      BY <3>1, <3>2, <1>1, <1>2
  <2> HIDE DEF Best, readable
  <2> QED
    BY <2>1
<1>3. PickMaxFree(f, min) = IF readable = {} THEN [path |-> NoDisk, ok |-> FALSE]
                            ELSE [path |-> best, ok |-> f[best] >= min]
  BY DEF PickMaxFree
<1>4. readable # {} => \A e \in readable : f[e] <= f[best]
  BY <1>1, <1>2
<1> HIDE DEF best, Best
<1>5. CASE readable = {}
  <2>1. PickMaxFree(f, min) = [path |-> NoDisk, ok |-> FALSE]
    BY <1>3, <1>5
  <2>2. [path |-> NoDisk, ok |-> FALSE] \in Pick
    BY DEF Pick
  <2>3. PickMaxFree(f, min).path = NoDisk /\ ~PickMaxFree(f, min).ok
    BY <2>1
  <2> QED
    BY <1>5, <2>1, <2>2, <2>3
<1>6. CASE readable # {}
  <2>1. best \in Disks /\ (f[best] >= min) \in BOOLEAN
    BY <1>2, <1>6
  <2>2. PickMaxFree(f, min) = [path |-> best, ok |-> f[best] >= min]
    BY <1>3, <1>6
  <2>3. PickMaxFree(f, min) \in Pick
    BY <2>1, <2>2 DEF Pick
  <2>4. PickMaxFree(f, min).path = best
    BY <2>2
  <2>5. PickMaxFree(f, min).ok <=> f[best] >= min
    <3>1. CASE f[best] >= min
      <4>1. (f[best] >= min) = TRUE
        BY <3>1
      <4>2. PickMaxFree(f, min) = [path |-> best, ok |-> TRUE]
        BY <2>2, <4>1, Zenon
      <4> QED
        BY <3>1, <4>2
    <3>2. CASE ~(f[best] >= min)
      <4>1. (f[best] >= min) = FALSE
        BY <3>2
      <4>2. PickMaxFree(f, min) = [path |-> best, ok |-> FALSE]
        BY <2>2, <4>1, Zenon
      <4> QED
        BY <3>2, <4>2
    <3> QED
      BY <3>1, <3>2
  <2>6. best \in readable /\ \A e \in readable : f[e] <= f[best]
    BY <1>2, <1>4, <1>6
  <2> QED
    BY <1>6, <2>3, <2>4, <2>5, <2>6
<1> QED
  BY <1>5, <1>6

(* Both ways to choose accept a run exactly when a disk has the reserve, and *)
(* then choose a disk that has it (storage_utils.cpp:107-158).               *)
LEMMA Selection ==
  ASSUME NEW f \in [Disks -> Levels], NEW max \in BOOLEAN, NEW min \in Nat
  PROVE  LET pick == SelectNvmeDataDir(max, f, min)
         IN /\ pick \in Pick
            /\ pick.ok <=> ~AllNvmeDisksBelowMinFree(f, min)
            /\ pick.ok => pick.path \in Disks /\ f[pick.path] >= min
            /\ max /\ pick.path # NoDisk => \A d \in Disks : f[d] <= f[pick.path]
<1>1. f[0] \in Int /\ f[1] \in Int
  BY ReserveAssumption DEF Disks, Levels, Gone
<1>2. CASE max
  <2> DEFINE pick == PickMaxFree(f, min)
             readable == {d \in Disks : HasValue(f[d])}
  <2>1. SelectNvmeDataDir(max, f, min) = pick
    BY <1>2 DEF SelectNvmeDataDir
  <2>2. /\ readable = {} => pick.path = NoDisk /\ ~pick.ok
        /\ readable # {} => /\ pick.path \in readable
                          /\ \A e \in readable : f[e] <= f[pick.path]
                          /\ (pick.ok <=> f[pick.path] >= min)
        /\ pick \in Pick
    BY BestExists
  <2> HIDE DEF pick
  <2>3. CASE readable = {}
    <3>1. AllNvmeDisksBelowMinFree(f, min)
      BY <2>3 DEF AllNvmeDisksBelowMinFree, Enough
    <3> QED
      BY <2>1, <2>2, <2>3, <3>1 DEF Pick
  <2>4. CASE readable # {}
    <3>1. pick.path \in Disks /\ f[pick.path] \in Int /\ f[pick.path] >= 0
      BY <1>1, <2>2, <2>4 DEF HasValue, Disks
    <3>2. \A d \in Disks : f[d] <= f[pick.path]
      BY <1>1, <2>2, <2>4, <3>1 DEF HasValue, Disks
    <3>3. pick.ok <=> ~AllNvmeDisksBelowMinFree(f, min)
      BY <1>1, <2>2, <2>4, <3>1, <3>2 DEF AllNvmeDisksBelowMinFree, Enough, HasValue, Disks
    <3> QED
      BY <2>1, <2>2, <2>4, <3>1, <3>2, <3>3
  <2> QED
    BY <2>3, <2>4
<1>3. CASE ~max
  <2>1. SelectNvmeDataDir(max, f, min) = PickSsd0First(f, min)
    BY <1>3 DEF SelectNvmeDataDir
  <2>2. CASE Enough(f[0], min)
    <3>1. PickSsd0First(f, min) = [path |-> 0, ok |-> TRUE]
      BY <2>2 DEF PickSsd0First
    <3>2. /\ PickSsd0First(f, min) \in Pick /\ PickSsd0First(f, min).ok
          /\ PickSsd0First(f, min).path = 0
      BY <3>1 DEF Pick, Disks
    <3>3. ~AllNvmeDisksBelowMinFree(f, min) /\ f[0] >= min
      BY <2>2 DEF AllNvmeDisksBelowMinFree, Enough, Disks
    <3>4. PickSsd0First(f, min).ok <=> ~AllNvmeDisksBelowMinFree(f, min)
      BY <3>1, <3>3
    <3> QED
      BY <1>3, <2>1, <3>2, <3>3, <3>4 DEF Disks
  <2>3. CASE ~Enough(f[0], min) /\ Enough(f[1], min)
    <3>1. PickSsd0First(f, min) = [path |-> 1, ok |-> TRUE]
      BY <2>3 DEF PickSsd0First
    <3>2. /\ PickSsd0First(f, min) \in Pick /\ PickSsd0First(f, min).ok
          /\ PickSsd0First(f, min).path = 1
      BY <3>1 DEF Pick, Disks
    <3>3. ~AllNvmeDisksBelowMinFree(f, min) /\ f[1] >= min
      BY <2>3 DEF AllNvmeDisksBelowMinFree, Enough, Disks
    <3>4. PickSsd0First(f, min).ok <=> ~AllNvmeDisksBelowMinFree(f, min)
      BY <3>1, <3>3
    <3> QED
      BY <1>3, <2>1, <3>2, <3>3, <3>4 DEF Disks
  <2>4. CASE ~Enough(f[0], min) /\ ~Enough(f[1], min)
    <3>1. /\ PickSsd0First(f, min).ok = FALSE
          /\ PickSsd0First(f, min) \in Pick
      BY <2>4 DEF PickSsd0First, Pick, Disks
    <3> QED
      BY <1>3, <2>1, <2>4, <3>1 DEF AllNvmeDisksBelowMinFree, Disks
  <2> QED
    BY <2>2, <2>3, <2>4
<1> QED
  BY <1>2, <1>3

(* In any state the selection would be right: SelectionAgrees holds of all   *)
(* free space there can be.                                                  *)
LEMMA TypesSelect == TypeOK => SelectionAgrees
<1> SUFFICES ASSUME TypeOK,
                    NEW max \in BOOLEAN, NEW min \in {SwitchReserve, StartReserve}
             PROVE  LET pick == SelectNvmeDataDir(max, free, min)
                    IN /\ pick \in Pick
                       /\ pick.ok <=> ~AllNvmeDisksBelowMinFree(free, min)
                       /\ pick.ok => free[pick.path] >= min
                       /\ max /\ pick.path # NoDisk =>
                            \A d \in Disks : free[d] <= free[pick.path]
  BY DEF SelectionAgrees
<1>1. free \in [Disks -> Levels] /\ min \in Nat
  BY ReserveAssumption DEF TypeOK
<1> QED
  BY <1>1, Selection
-----------------------------------------------------------------------------
(* A first boot finds no run files: the invariant holds whatever the run     *)
(* number file and the free space are.                                       *)
LEMMA StorageInit == Init => StorageInv
<1> SUFFICES ASSUME Init PROVE StorageInv
  OBVIOUS
<1> USE ReserveAssumption, StorageAssumption
<1>1. TypeOK
  <2>1. fault \in BOOLEAN /\ reused \in BOOLEAN
    BY DEF Init
  <2>2. /\ run_id \in 0 .. MaxId /\ run_number \in 0 .. MaxId /\ file_count \in 0 .. MaxIndex
        /\ id_file \in {Absent, Blank} \cup 0 .. MaxId /\ free \in [Disks -> Levels]
    BY DEF Init, Levels, Gone
  <2>3. data_basedir \in Disks /\ active \in Disks /\ basedir \in Disks \cup {NoDisk}
    BY DEF Init, Disks
  <2>4. /\ conf \in Disks /\ used = {} /\ mine = {} /\ up \in BOOLEAN /\ pick_max \in BOOLEAN
        /\ state = "idle" /\ cmd = "none" /\ pc = "none" /\ stop = "none"
    BY DEF Init
  <2> QED
    BY <2>1, <2>2, <2>3, <2>4 DEF TypeOK
<1>2. Phases
  BY DEF Init, Phases
<1>3. ~fault => Numbers
  <2>1. ~fault => id_file = 0 /\ ~reused
    BY DEF Init, Absent, Blank
  <2> QED
    BY <2>1 DEF Init, Numbers, Absent, Blank
<1>4. OneFilePerNumber
  BY DEF Init, OneFilePerNumber
<1> QED
  BY <1>1, <1>2, <1>3, <1>4 DEF StorageInv

(* No step of a command, of the write thread, of the disks or of a crash     *)
(* breaks the invariant.                                                     *)
LEMMA StorageStep == StorageInv /\ [Next]_vars => StorageInv'
<1> SUFFICES ASSUME StorageInv, [Next]_vars PROVE StorageInv'
  OBVIOUS
<1> USE ReserveAssumption, StorageAssumption DEF StorageInv
<1>1. ASSUME SpaceChanges
      PROVE  StorageInv'
  <2>1. TypeOK'
    BY <1>1 DEF TypeOK, Names, Disks, Levels, Gone, Absent, Blank, NoDisk, SpaceChanges,
       disk, control, handler, history
  <2>2. Phases'
    BY <1>1 DEF TypeOK, Phases, SpaceChanges, disk, control, handler, history
  <2>3. (~fault => Numbers)'
    BY <1>1 DEF TypeOK, Phases, Numbers, Absent, Blank, SpaceChanges, disk, control,
       handler, history
  <2>4. OneFilePerNumber'
    BY <1>1 DEF TypeOK, Phases, OneFilePerNumber, SpaceChanges, disk, control, handler,
       history
  <2> QED
    BY <2>1, <2>2, <2>3, <2>4
<1>2. ASSUME AutoSelectDataDir
      PROVE  StorageInv'
  <2>1. conf' \in Disks
    BY <1>2, Selection DEF TypeOK, AutoSelectDataDir
  <2>2. TypeOK'
    BY <1>2, <2>1 DEF TypeOK, AutoSelectDataDir, control, handler, history
  <2>3. Phases'
    BY <1>2 DEF TypeOK, Phases, AutoSelectDataDir, control, handler, history
  <2>4. (~fault => Numbers)'
    BY <1>2 DEF TypeOK, Phases, Numbers, Absent, Blank, AutoSelectDataDir, control,
       handler, history
  <2>5. OneFilePerNumber'
    BY <1>2 DEF TypeOK, Phases, OneFilePerNumber, AutoSelectDataDir, control, handler,
       history
  <2> QED
    BY <2>2, <2>3, <2>4, <2>5
<1>3. ASSUME Boot
      PROVE  StorageInv'
  <2>1. TypeOK'
    BY <1>3 DEF TypeOK, Names, Disks, Levels, Gone, Absent, Blank, NoDisk, Boot, disk,
       handler, history
  <2>2. Phases'
    BY <1>3 DEF TypeOK, Phases, Boot, disk, handler, history
  <2>3. (~fault => Numbers)'
    BY <1>3 DEF TypeOK, Phases, Numbers, Absent, Blank, Boot, disk, handler, history
  <2>4. OneFilePerNumber'
    BY <1>3 DEF TypeOK, Phases, OneFilePerNumber, Boot, disk, handler, history
  <2> QED
    BY <2>1, <2>2, <2>3, <2>4
<1>4. ASSUME Crash
      PROVE  StorageInv'
  <2>1. /\ mine' = {} /\ state' = "idle" /\ pc' = "none" /\ id_file' = id_file
        /\ mine # {} => used' = used \cup {run_number}
        /\ mine = {} => used' = used
        /\ reused' = reused
    BY <1>4 DEF Crash, Fresh, RunEnds
  <2>2. TypeOK'
    <3>1. used' \subseteq 0 .. MaxId
      BY <2>1 DEF TypeOK
    <3>2. fault' \in BOOLEAN /\ reused' \in BOOLEAN
      BY <1>4 DEF TypeOK, Crash
    <3>3. /\ id_file' = id_file /\ conf' = conf /\ free' = free /\ mine' = {} /\ Fresh
          /\ up' = FALSE
      BY <1>4, <2>1 DEF Crash
    <3> QED
      <4>1. run_id' \in 0 .. MaxId /\ run_number' \in 0 .. MaxId /\ file_count' \in 0 .. MaxIndex
        BY <3>3 DEF Fresh
      <4>2. data_basedir' \in Disks /\ active' \in Disks /\ basedir' \in Disks \cup {NoDisk}
        BY <3>3 DEF Fresh, Disks
      <4>3. /\ up' \in BOOLEAN /\ pick_max' \in BOOLEAN /\ state' = "idle" /\ cmd' = "none"
            /\ pc' = "none" /\ stop' = "none"
        BY <3>3 DEF Fresh
      <4> QED
        BY <3>1, <3>2, <3>3, <4>1, <4>2, <4>3 DEF TypeOK
  <2>3. Phases'
    BY <1>4, <2>1 DEF TypeOK, Phases, Crash, Fresh
  <2>4. (~fault => Numbers)'
    <3>1. ~fault' => ~fault /\ pc # "write"
      BY <1>4 DEF Crash
    <3>2. ASSUME ~fault, pc # "write"
          PROVE  \A n \in used' : n <= id_file
      <4>1. mine # {} => run_number = id_file
        BY <3>2 DEF Phases, Numbers
      <4>2. id_file \in Int /\ \A n \in used : n <= id_file
        BY <3>2 DEF TypeOK, Numbers, Absent, Blank
      <4>3. CASE mine # {}
        BY <2>1, <4>1, <4>2, <4>3
      <4>4. CASE mine = {}
        BY <2>1, <4>2, <4>4
      <4> QED
        BY <4>3, <4>4
    <3> QED
      BY <2>1, <3>1, <3>2 DEF Numbers
  <2>5. OneFilePerNumber'
    BY <2>1 DEF OneFilePerNumber
  <2> QED
    BY <2>2, <2>3, <2>4, <2>5
<1>5. ASSUME Configure
      PROVE  StorageInv'
  <2>1. TypeOK'
    BY <1>5 DEF TypeOK, Names, Disks, Levels, Gone, Absent, Blank, NoDisk, Configure,
       Command, disk, handler, history
  <2>2. Phases'
    BY <1>5 DEF TypeOK, Phases, Configure, Command, disk, handler, history
  <2>3. (~fault => Numbers)'
    BY <1>5 DEF TypeOK, Phases, Numbers, Absent, Blank, Configure, Command, disk,
       handler, history
  <2>4. OneFilePerNumber'
    BY <1>5 DEF TypeOK, Phases, OneFilePerNumber, Configure, Command, disk, handler,
       history
  <2> QED
    BY <2>1, <2>2, <2>3, <2>4
<1>6. ASSUME Reset
      PROVE  StorageInv'
  <2>1. TypeOK'
    BY <1>6 DEF TypeOK, Names, Disks, Levels, Gone, Absent, Blank, NoDisk, Reset,
       Command, disk, handler, history
  <2>2. Phases'
    BY <1>6 DEF TypeOK, Phases, Reset, Command, disk, handler, history
  <2>3. (~fault => Numbers)'
    BY <1>6 DEF TypeOK, Phases, Numbers, Absent, Blank, Reset, Command, disk, handler,
       history
  <2>4. OneFilePerNumber'
    BY <1>6 DEF TypeOK, Phases, OneFilePerNumber, Reset, Command, disk, handler, history
  <2> QED
    BY <2>1, <2>2, <2>3, <2>4
<1>7. ASSUME ReadRunId
      PROVE  StorageInv'
  <2>1. TypeOK'
    <3>1. fault' \in BOOLEAN /\ reused' \in BOOLEAN
      BY <1>7 DEF TypeOK, ReadRunId, Persisted
    <3> QED
      BY <1>7, <3>1 DEF TypeOK, Names, Disks, Levels, Gone, Absent, Blank, NoDisk,
       ReadRunId, Persisted, disk, handler
  <2>2. Phases'
    BY <1>7 DEF TypeOK, Phases, ReadRunId, Persisted, disk, handler
  <2>3. (~fault => Numbers)'
    BY <1>7 DEF TypeOK, Phases, Numbers, Absent, Blank, ReadRunId, Persisted, disk,
       handler
  <2>4. OneFilePerNumber'
    BY <1>7 DEF TypeOK, Phases, OneFilePerNumber, ReadRunId, Persisted, disk, handler
  <2> QED
    BY <2>1, <2>2, <2>3, <2>4
<1>8. ASSUME OpenRunId
      PROVE  StorageInv'
  <2>1. TypeOK'
    <3>1. fault' \in BOOLEAN /\ reused' \in BOOLEAN
      BY <1>8 DEF TypeOK, OpenRunId, Persisted
    <3> QED
      BY <1>8, <3>1 DEF TypeOK, Names, Disks, Levels, Gone, Absent, Blank, NoDisk,
       OpenRunId, Persisted, handler
  <2>2. Phases'
    BY <1>8 DEF TypeOK, Phases, OpenRunId, Persisted, handler
  <2>3. (~fault => Numbers)'
    BY <1>8 DEF TypeOK, Phases, Numbers, Absent, Blank, OpenRunId, Persisted, handler
  <2>4. OneFilePerNumber'
    BY <1>8 DEF TypeOK, Phases, OneFilePerNumber, OpenRunId, Persisted, handler
  <2> QED
    BY <2>1, <2>2, <2>3, <2>4
<1>9. ASSUME WriteRunId
      PROVE  StorageInv'
  <2>1. TypeOK'
    <3>1. fault' \in BOOLEAN /\ reused' \in BOOLEAN
      BY <1>9 DEF TypeOK, WriteRunId, Persisted
    <3> QED
      BY <1>9, <3>1 DEF TypeOK, Names, Disks, Levels, Gone, Absent, Blank, NoDisk,
       WriteRunId, Persisted, handler
  <2>2. Phases'
    BY <1>9 DEF TypeOK, Phases, WriteRunId, Persisted, handler
  <2>3. (~fault => Numbers)'
    BY <1>9 DEF TypeOK, Phases, Numbers, Absent, Blank, WriteRunId, Persisted, handler
  <2>4. OneFilePerNumber'
    BY <1>9 DEF TypeOK, Phases, OneFilePerNumber, WriteRunId, Persisted, handler
  <2> QED
    BY <2>1, <2>2, <2>3, <2>4
<1>10. ASSUME SelectNvmeDataDirForRun
      PROVE  StorageInv'
  <2>1. conf' \in Disks /\ data_basedir' \in Disks
    BY <1>10, Selection DEF TypeOK, SelectNvmeDataDirForRun
  <2>2. TypeOK'
    BY <1>10, <2>1 DEF TypeOK, SelectNvmeDataDirForRun, handler, history
  <2>3. Phases'
    BY <1>10 DEF TypeOK, Phases, SelectNvmeDataDirForRun, handler, history
  <2>4. (~fault => Numbers)'
    BY <1>10 DEF TypeOK, Phases, Numbers, Absent, Blank, SelectNvmeDataDirForRun,
       handler, history
  <2>5. OneFilePerNumber'
    BY <1>10 DEF TypeOK, Phases, OneFilePerNumber, SelectNvmeDataDirForRun, handler,
       history
  <2> QED
    BY <2>2, <2>3, <2>4, <2>5
<1>11. ASSUME ConfigureRest
      PROVE  StorageInv'
  <2>1. TypeOK'
    BY <1>11 DEF TypeOK, Names, Disks, Levels, Gone, Absent, Blank, NoDisk,
       ConfigureRest, IndexOf, disk, history
  <2>2. Phases'
    BY <1>11 DEF TypeOK, Phases, ConfigureRest, IndexOf, disk, history, Disks
  <2>3. (~fault => Numbers)'
    BY <1>11 DEF TypeOK, Phases, Numbers, Absent, Blank, ConfigureRest, IndexOf, disk,
       history
  <2>4. OneFilePerNumber'
    BY <1>11 DEF TypeOK, Phases, OneFilePerNumber, ConfigureRest, IndexOf, disk, history
  <2> QED
    BY <2>1, <2>2, <2>3, <2>4
<1>12. ASSUME ResetHandler
      PROVE  StorageInv'
  <2>1. TypeOK'
    BY <1>12 DEF TypeOK, Names, Disks, Levels, Gone, Absent, Blank, NoDisk,
       ResetHandler, IndexOf, disk, history
  <2>2. Phases'
    BY <1>12 DEF TypeOK, Phases, ResetHandler, IndexOf, disk, history, Disks
  <2>3. (~fault => Numbers)'
    BY <1>12 DEF TypeOK, Phases, Numbers, Absent, Blank, ResetHandler, IndexOf, disk,
       history
  <2>4. OneFilePerNumber'
    BY <1>12 DEF TypeOK, Phases, OneFilePerNumber, ResetHandler, IndexOf, disk, history
  <2> QED
    BY <2>1, <2>2, <2>3, <2>4
<1>13. ASSUME Start
      PROVE  StorageInv'
  <2>1. TypeOK'
    <3>1. fault' \in BOOLEAN /\ reused' \in BOOLEAN
      BY <1>13 DEF TypeOK, Start, Opened, NotOpened, Name
    <3> QED
      BY <1>13, <3>1 DEF Phases, TypeOK, Names, Disks, Levels, Gone, Absent, Blank,
       NoDisk, Start, Opened, NotOpened, Name
  <2>2. Phases'
    BY <1>13 DEF TypeOK, Phases, Start, Opened, NotOpened, Name, Disks
  <2>3. (~fault => Numbers)'
    BY <1>13 DEF TypeOK, Phases, Numbers, Absent, Blank, Start, Opened, NotOpened, Name
  <2>4. OneFilePerNumber'
    BY <1>13 DEF TypeOK, Phases, OneFilePerNumber, Start, Opened, NotOpened, Name, Names
  <2> QED
    BY <2>1, <2>2, <2>3, <2>4
<1>14. ASSUME WriteFails
      PROVE  StorageInv'
  <2>1. TypeOK'
    BY <1>14 DEF TypeOK, Names, Disks, Levels, Gone, Absent, Blank, NoDisk, WriteFails,
       disk, control, history
  <2>2. Phases'
    BY <1>14 DEF TypeOK, Phases, WriteFails, disk, control, history
  <2>3. (~fault => Numbers)'
    BY <1>14 DEF TypeOK, Phases, Numbers, Absent, Blank, WriteFails, disk, control,
       history
  <2>4. OneFilePerNumber'
    BY <1>14 DEF TypeOK, Phases, OneFilePerNumber, WriteFails, disk, control, history
  <2> QED
    BY <2>1, <2>2, <2>3, <2>4
<1>15. ASSUME SwitchWriteFile
      PROVE  StorageInv'
  <2>1. TypeOK'
    BY <1>15 DEF Phases, TypeOK, Names, Disks, Levels, Gone, Absent, Blank, NoDisk,
       SwitchWriteFile, MaybeSwitchDataDisk, AltIndex, Opened, NotOpened, Name, control
  <2>2. Phases'
    BY <1>15 DEF TypeOK, Phases, SwitchWriteFile, MaybeSwitchDataDisk, AltIndex, Opened,
       NotOpened, Name, control, Disks, NoDisk
  <2>3. (~fault => Numbers)'
    BY <1>15 DEF TypeOK, Phases, Numbers, Absent, Blank, SwitchWriteFile,
       MaybeSwitchDataDisk, AltIndex, Opened, NotOpened, Name, control
  <2>4. OneFilePerNumber'
    BY <1>15 DEF TypeOK, Phases, OneFilePerNumber, SwitchWriteFile, MaybeSwitchDataDisk,
       AltIndex, Opened, NotOpened, Name, control, Names
  <2> QED
    BY <2>1, <2>2, <2>3, <2>4
<1>16. ASSUME Stop
      PROVE  StorageInv'
  <2>1. TypeOK'
    BY <1>16 DEF TypeOK, Names, Disks, Levels, Gone, Absent, Blank, NoDisk, Stop,
       RunEnds, handler, history
  <2>2. Phases'
    BY <1>16 DEF TypeOK, Phases, Stop, RunEnds, handler, history
  <2>3. (~fault => Numbers)'
    BY <1>16 DEF TypeOK, Phases, Numbers, Absent, Blank, Stop, RunEnds, handler, history
  <2>4. OneFilePerNumber'
    BY <1>16 DEF TypeOK, Phases, OneFilePerNumber, Stop, RunEnds, handler, history
  <2> QED
    BY <2>1, <2>2, <2>3, <2>4
<1>17. CASE UNCHANGED vars
  <2>1. TypeOK'
    BY <1>17 DEF TypeOK, vars, disk, control, handler, history
  <2>2. Phases'
    BY <1>17 DEF Phases, vars, disk, control, handler, history
  <2>3. (~fault => Numbers)'
    BY <1>17 DEF Numbers, vars, disk, control, handler, history
  <2>4. OneFilePerNumber'
    BY <1>17 DEF OneFilePerNumber, vars, disk, control, handler, history
  <2> QED
    BY <2>1, <2>2, <2>3, <2>4
<1> QED
    BY <1>1, <1>2, <1>3, <1>4, <1>5, <1>6, <1>7, <1>8, <1>9, <1>10, <1>11, <1>12, <1>13,
       <1>14, <1>15, <1>16, <1>17 DEF Next, PersistRunId

(* The invariant of the run number file, the selected disk and the open data *)
(* files holds in every state, for any bounds (controller.cpp:123-200,       *)
(* data_handler.cpp:253-352).                                                *)
THEOREM StorageInvariant == Spec => []StorageInv
BY StorageInit, StorageStep, PTL DEF Spec

(* Every variable of the storage keeps its type, for any bounds.             *)
THEOREM TypeCorrect == Spec => []TypeOK
<1>1. StorageInv => TypeOK
  BY DEF StorageInv
<1> QED
  BY <1>1, StorageInvariant, PTL

(* No data file is opened under the number of an earlier run without one of  *)
(* the named faults of the run number file (controller.cpp:123-155).         *)
THEOREM RunsKeepTheirFilesHolds == Spec => []RunsKeepTheirFiles
<1>1. StorageInv => RunsKeepTheirFiles
  BY DEF StorageInv, TypeOK, Numbers, RunsKeepTheirFiles
<1> QED
  BY <1>1, StorageInvariant, PTL

(* A file number of a run is used on one disk only, over any number of       *)
(* failovers (data_handler.cpp:253-334).                                     *)
THEOREM OneFilePerNumberHolds == Spec => []OneFilePerNumber
<1>1. StorageInv => OneFilePerNumber
  BY DEF StorageInv
<1> QED
  BY <1>1, StorageInvariant, PTL

(* Both ways to choose a disk agree on whether there is room and choose a    *)
(* disk that has it, for any levels and reserves (storage_utils.cpp:107-172).*)
THEOREM SelectionAgreesHolds == Spec => []SelectionAgrees
<1>1. StorageInv => SelectionAgrees
  BY TypesSelect DEF StorageInv
<1> QED
  BY <1>1, StorageInvariant, PTL

(* A file switch uses a disk with the reserve whenever there is one          *)
(* (data_handler.cpp:253-305).                                               *)
THEOREM SwitchUsesRoomHolds == Spec => SwitchUsesRoom
<1> DEFINE Uses ==
      /\ state = "running" /\ state' = "running"
      /\ file_count' # file_count \/ (stop = "none" /\ stop' = "reserve")
      /\ ~AllNvmeDisksBelowMinFree(free, SwitchReserve)
      => stop' # "reserve" /\ Enough(free[basedir'], SwitchReserve)
<1>1. ASSUME StorageInv, [Next]_vars
      PROVE  [Uses]_vars
  <2> SUFFICES ASSUME state = "running", state' = "running",
                      file_count' # file_count \/ (stop = "none" /\ stop' = "reserve"),
                      ~AllNvmeDisksBelowMinFree(free, SwitchReserve), Next
               PROVE  stop' # "reserve" /\ Enough(free[basedir'], SwitchReserve)
    BY <1>1
  <2>1. SwitchWriteFile
    BY <1>1 DEF StorageInv, Phases, Next, SpaceChanges, AutoSelectDataDir, Boot, Crash, Fresh,
       Configure, Reset, Command, PersistRunId, ReadRunId, OpenRunId, WriteRunId,
       SelectNvmeDataDirForRun, ConfigureRest, ResetHandler, Start, WriteFails, Stop,
       Opened, NotOpened, handler
  <2>2. basedir \in Disks /\ active = basedir /\ stop = "none"
    BY <1>1, <2>1 DEF StorageInv, Phases, SwitchWriteFile
  <2>3. \/ Enough(free[basedir], SwitchReserve)
        \/ Enough(free[AltIndex(active)], SwitchReserve)
    BY <2>2 DEF AllNvmeDisksBelowMinFree, AltIndex, Disks
  <2>4. MaybeSwitchDataDisk # NoDisk /\ Enough(free[MaybeSwitchDataDisk], SwitchReserve)
    BY <2>2, <2>3 DEF MaybeSwitchDataDisk, AltIndex, Disks, NoDisk, Enough, HasValue, Unreadable
  <2> QED
    BY <2>1, <2>2, <2>4 DEF SwitchWriteFile, Opened, NotOpened
<1> QED
  BY <1>1, StorageInvariant, PTL DEF Spec, SwitchUsesRoom
=============================================================================
