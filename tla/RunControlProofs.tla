-------------------------- MODULE RunControlProofs --------------------------
(***************************************************************************)
(* Proofs about RunControl for every set of threads that handle commands,   *)
(* every queue size and any number of runs.                                 *)
(***************************************************************************)
EXTENDS RunControl, TLAPS

LEMMA TypeInit == Init => TypeOK
<1> SUFFICES ASSUME Init PROVE TypeOK
  OBVIOUS
<1>1. CallerTypes
  BY ControlAssumption DEF Init, CallerTypes, Callers, Stopping
<1>2. RunTypes
  BY ControlAssumption DEF Init, RunTypes, DataThread
<1>3. FlagTypes
  BY DEF Init, FlagTypes
<1> QED
  BY <1>1, <1>2, <1>3 DEF TypeOK

(* Every step keeps the types. *)
LEMMA TypeStep == TypeOK /\ [Next]_vars => TypeOK'
<1> SUFFICES ASSUME TypeOK, [Next]_vars PROVE TypeOK'
  OBVIOUS
<1> USE ControlAssumption DEF TypeOK
<1>1. ASSUME NEW c \in Commanders, Configure(c)
      PROVE  TypeOK'
  <2>1. CallerTypes'
    BY <1>1 DEF Configure, Goto, Accept, CallerTypes, Callers, Stopping, runVars,
       flags
  <2>2. RunTypes'
    BY <1>1 DEF Configure, Goto, Accept, RunTypes, DataThread, runVars, flags
  <2>3. FlagTypes'
    BY <1>1 DEF Configure, Goto, Accept, FlagTypes, runVars, flags
  <2> QED
    BY <2>1, <2>2, <2>3
<1>2. ASSUME NEW c \in Commanders, ConfigureEnd(c)
      PROVE  TypeOK'
  <2>1. CallerTypes'
    BY <1>2 DEF ConfigureEnd, Goto, CallerTypes, Callers, Stopping, runVars, flags
  <2>2. RunTypes'
    BY <1>2 DEF ConfigureEnd, Goto, RunTypes, DataThread, runVars, flags
  <2>3. FlagTypes'
    BY <1>2 DEF ConfigureEnd, Goto, FlagTypes, runVars, flags
  <2> QED
    BY <2>1, <2>2, <2>3
<1>3. ASSUME NEW c \in Commanders, Start(c)
      PROVE  TypeOK'
  <2>1. CallerTypes'
    BY <1>3 DEF Start, Goto, Accept, CallerTypes, Callers, Stopping, runVars, flags
  <2>2. RunTypes'
    BY <1>3 DEF Start, Goto, Accept, RunTypes, DataThread, runVars, flags
  <2>3. FlagTypes'
    BY <1>3 DEF Start, Goto, Accept, FlagTypes, runVars, flags
  <2> QED
    BY <2>1, <2>2, <2>3
<1>3a. ASSUME NEW c \in Commanders, SetRunning(c)
      PROVE  TypeOK'
  <2>1. CallerTypes'
    BY <1>3a DEF SetRunning, Goto, CallerTypes, Callers, Stopping, runVars, flags
  <2>2. RunTypes'
    BY <1>3a DEF SetRunning, Goto, RunTypes, DataThread, runVars, flags
  <2>3. FlagTypes'
    BY <1>3a DEF SetRunning, Goto, FlagTypes, runVars, flags
  <2> QED
    BY <2>1, <2>2, <2>3
<1>4. ASSUME NEW c \in Commanders, SetRun(c)
      PROVE  TypeOK'
  <2>1. CallerTypes'
    BY <1>4 DEF SetRun, Goto, CallerTypes, Callers, Stopping, runVars, flags
  <2>2. RunTypes'
    BY <1>4 DEF SetRun, Goto, RunTypes, DataThread, runVars, flags
  <2>3. FlagTypes'
    BY <1>4 DEF SetRun, Goto, FlagTypes, runVars, flags
  <2> QED
    BY <2>1, <2>2, <2>3
<1>5. ASSUME NEW c \in Commanders, Spawn(c)
      PROVE  TypeOK'
  <2>1. CallerTypes'
    BY <1>5 DEF Spawn, Goto, CallerTypes, Callers, Stopping, runVars, flags
  <2>2. RunTypes'
    BY <1>5 DEF Spawn, Goto, RunTypes, DataThread, runVars, flags
  <2>3. FlagTypes'
    BY <1>5 DEF Spawn, Goto, FlagTypes, runVars, flags
  <2> QED
    BY <2>1, <2>2, <2>3
<1>6. ASSUME NEW c \in Commanders, Stop(c)
      PROVE  TypeOK'
  <2>1. CallerTypes'
    BY <1>6 DEF Stop, Goto, Accept, CallerTypes, Callers, Stopping, runVars, flags
  <2>2. RunTypes'
    BY <1>6 DEF Stop, Goto, Accept, RunTypes, DataThread, runVars, flags
  <2>3. FlagTypes'
    BY <1>6 DEF Stop, Goto, Accept, FlagTypes, runVars, flags
  <2> QED
    BY <2>1, <2>2, <2>3
<1>6a. ASSUME NEW c \in Commanders, SetStopped(c)
      PROVE  TypeOK'
  <2>1. CallerTypes'
    BY <1>6a DEF SetStopped, Goto, CallerTypes, Callers, Stopping, runVars, flags
  <2>2. RunTypes'
    BY <1>6a DEF SetStopped, Goto, RunTypes, DataThread, runVars, flags
  <2>3. FlagTypes'
    BY <1>6a DEF SetStopped, Goto, FlagTypes, runVars, flags
  <2> QED
    BY <2>1, <2>2, <2>3
<1>7. ASSUME NEW c \in Commanders, Reset(c)
      PROVE  TypeOK'
  <2>1. CallerTypes'
    BY <1>7 DEF Reset, Goto, Accept, CallerTypes, Callers, Stopping, runVars, flags
  <2>2. RunTypes'
    BY <1>7 DEF Reset, Goto, Accept, RunTypes, DataThread, runVars, flags
  <2>3. FlagTypes'
    BY <1>7 DEF Reset, Goto, Accept, FlagTypes, runVars, flags
  <2> QED
    BY <2>1, <2>2, <2>3
<1>8. ASSUME NEW c \in Commanders, ResetDiskFlags(c)
      PROVE  TypeOK'
  <2>1. CallerTypes'
    BY <1>8 DEF ResetDiskFlags, Goto, CallerTypes, Callers, Stopping, runVars,
       flags
  <2>2. RunTypes'
    BY <1>8 DEF ResetDiskFlags, Goto, RunTypes, DataThread, runVars, flags
  <2>3. FlagTypes'
    BY <1>8 DEF ResetDiskFlags, Goto, FlagTypes, runVars, flags
  <2> QED
    BY <2>1, <2>2, <2>3
<1>9. ASSUME NEW c \in Commanders, ResetStopWrite(c)
      PROVE  TypeOK'
  <2>1. CallerTypes'
    BY <1>9 DEF ResetStopWrite, Goto, CallerTypes, Callers, Stopping, runVars,
       flags
  <2>2. RunTypes'
    BY <1>9 DEF ResetStopWrite, Goto, RunTypes, DataThread, runVars, flags
  <2>3. FlagTypes'
    BY <1>9 DEF ResetStopWrite, Goto, FlagTypes, runVars, flags
  <2> QED
    BY <2>1, <2>2, <2>3
<1>10. ASSUME NEW c \in Commanders, Drain(c)
      PROVE  TypeOK'
  <2>1. CallerTypes'
    BY <1>10 DEF Drain, Goto, CallerTypes, Callers, Stopping, runVars, flags
  <2>2. RunTypes'
    BY <1>10 DEF Drain, Goto, RunTypes, DataThread, runVars, flags
  <2>3. FlagTypes'
    BY <1>10 DEF Drain, Goto, FlagTypes, runVars, flags
  <2> QED
    BY <2>1, <2>2, <2>3
<1>11. ASSUME NEW p \in Callers, ClearRun(p)
      PROVE  TypeOK'
  <2>1. CallerTypes'
    BY <1>11 DEF ClearRun, Goto, Returned, CallerTypes, Callers, Stopping, runVars,
       flags
  <2>2. RunTypes'
    BY <1>11 DEF ClearRun, Goto, Returned, RunTypes, DataThread, runVars, flags
  <2>3. FlagTypes'
    BY <1>11 DEF ClearRun, Goto, Returned, FlagTypes, runVars, flags
  <2> QED
    BY <2>1, <2>2, <2>3
<1>12. ASSUME NEW p \in Callers, Join(p)
      PROVE  TypeOK'
  <2>1. CallerTypes'
    BY <1>12 DEF Join, Goto, Returned, CallerTypes, Callers, Stopping, runVars,
       flags
  <2>2. RunTypes'
    BY <1>12 DEF Join, Goto, Returned, RunTypes, DataThread, runVars, flags
  <2>3. FlagTypes'
    BY <1>12 DEF Join, Goto, Returned, FlagTypes, runVars, flags
  <2> QED
    BY <2>1, <2>2, <2>3
<1>13. ASSUME NEW p \in Callers, Joined(p)
      PROVE  TypeOK'
  <2>1. CallerTypes'
    BY <1>13 DEF Joined, Goto, Returned, CallerTypes, Callers, Stopping, runVars,
       flags
  <2>2. RunTypes'
    BY <1>13 DEF Joined, Goto, Returned, RunTypes, DataThread, runVars, flags
  <2>3. FlagTypes'
    BY <1>13 DEF Joined, Goto, Returned, FlagTypes, runVars, flags
  <2> QED
    BY <2>1, <2>2, <2>3
<1>14. CASE StatusCheck
  <2>1. CallerTypes'
    BY <1>14 DEF StatusCheck, Goto, CallerTypes, Callers, Stopping, runVars, flags
  <2>2. RunTypes'
    BY <1>14 DEF StatusCheck, Goto, RunTypes, DataThread, runVars, flags
  <2>3. FlagTypes'
    BY <1>14 DEF StatusCheck, Goto, FlagTypes, runVars, flags
  <2> QED
    BY <2>1, <2>2, <2>3
<1>15. CASE Poll
  <2>1. CallerTypes'
    BY <1>15 DEF Poll, Goto, CallerTypes, Callers, Stopping, runVars, flags
  <2>2. RunTypes'
    BY <1>15 DEF Poll, Goto, RunTypes, DataThread, runVars, flags
  <2>3. FlagTypes'
    BY <1>15 DEF Poll, Goto, FlagTypes, runVars, flags
  <2> QED
    BY <2>1, <2>2, <2>3
<1>16. CASE AutoStop
  <2>1. CallerTypes'
    BY <1>16 DEF AutoStop, Goto, CallerTypes, Callers, Stopping, runVars, flags
  <2>2. RunTypes'
    BY <1>16 DEF AutoStop, Goto, RunTypes, DataThread, runVars, flags
  <2>3. FlagTypes'
    BY <1>16 DEF AutoStop, Goto, FlagTypes, runVars, flags
  <2> QED
    BY <2>1, <2>2, <2>3
<1>17. CASE ClearPendingReason
  <2>1. CallerTypes'
    BY <1>17 DEF ClearPendingReason, Goto, CallerTypes, Callers, Stopping, runVars,
       flags
  <2>2. RunTypes'
    BY <1>17 DEF ClearPendingReason, Goto, RunTypes, DataThread, runVars, flags
  <2>3. FlagTypes'
    BY <1>17 DEF ClearPendingReason, Goto, FlagTypes, runVars, flags
  <2> QED
    BY <2>1, <2>2, <2>3
<1>18. CASE ReadStart
  <2>1. CallerTypes'
    BY <1>18 DEF ReadStart, ThreadTo, DataUnchanged, CallerTypes, Callers,
       Stopping, runVars, flags
  <2>2. RunTypes'
    BY <1>18 DEF ReadStart, ThreadTo, DataUnchanged, RunTypes, DataThread, runVars,
       flags
  <2>3. FlagTypes'
    BY <1>18 DEF ReadStart, ThreadTo, DataUnchanged, FlagTypes, runVars, flags
  <2> QED
    BY <2>1, <2>2, <2>3
<1>19. CASE ReadEnqueue
  <2>1. CallerTypes'
    BY <1>19 DEF ReadEnqueue, ThreadTo, DataUnchanged, CallerTypes, Callers,
       Stopping, runVars, flags
  <2>2. RunTypes'
    BY <1>19 DEF ReadEnqueue, ThreadTo, DataUnchanged, RunTypes, DataThread,
       runVars, flags
  <2>3. FlagTypes'
    BY <1>19 DEF ReadEnqueue, ThreadTo, DataUnchanged, FlagTypes, runVars, flags
  <2> QED
    BY <2>1, <2>2, <2>3
<1>20. CASE ReadStopped
  <2>1. CallerTypes'
    BY <1>20 DEF ReadStopped, ThreadTo, DataUnchanged, CallerTypes, Callers,
       Stopping, runVars, flags
  <2>2. RunTypes'
    BY <1>20 DEF ReadStopped, ThreadTo, DataUnchanged, RunTypes, DataThread,
       runVars, flags
  <2>3. FlagTypes'
    BY <1>20 DEF ReadStopped, ThreadTo, DataUnchanged, FlagTypes, runVars, flags
  <2> QED
    BY <2>1, <2>2, <2>3
<1>21. CASE ReadLimit
  <2>1. CallerTypes'
    BY <1>21 DEF ReadLimit, ThreadTo, DataUnchanged, CallerTypes, Callers,
       Stopping, runVars, flags
  <2>2. RunTypes'
    BY <1>21 DEF ReadLimit, ThreadTo, DataUnchanged, RunTypes, DataThread, runVars,
       flags
  <2>3. FlagTypes'
    BY <1>21 DEF ReadLimit, ThreadTo, DataUnchanged, FlagTypes, runVars, flags
  <2> QED
    BY <2>1, <2>2, <2>3
<1>22. CASE ReadEnd
  <2>1. CallerTypes'
    BY <1>22 DEF ReadEnd, ThreadTo, DataUnchanged, CallerTypes, Callers, Stopping,
       runVars, flags
  <2>2. RunTypes'
    BY <1>22 DEF ReadEnd, ThreadTo, DataUnchanged, RunTypes, DataThread, runVars,
       flags
  <2>3. FlagTypes'
    BY <1>22 DEF ReadEnd, ThreadTo, DataUnchanged, FlagTypes, runVars, flags
  <2> QED
    BY <2>1, <2>2, <2>3
<1>23. CASE WriteStart
  <2>1. CallerTypes'
    BY <1>23 DEF WriteStart, ThreadTo, DataUnchanged, RequestDiskStop, CallerTypes,
       Callers, Stopping, runVars, flags
  <2>2. RunTypes'
    BY <1>23 DEF WriteStart, ThreadTo, DataUnchanged, RequestDiskStop, RunTypes,
       DataThread, runVars, flags
  <2>3. FlagTypes'
    BY <1>23 DEF WriteStart, ThreadTo, DataUnchanged, RequestDiskStop, FlagTypes,
       runVars, flags
  <2> QED
    BY <2>1, <2>2, <2>3
<1>24. CASE WriteBlock
  <2>1. CallerTypes'
    BY <1>24 DEF WriteBlock, ThreadTo, DataUnchanged, RequestDiskStop, CallerTypes,
       Callers, Stopping, runVars, flags
  <2>2. RunTypes'
    BY <1>24 DEF WriteBlock, ThreadTo, DataUnchanged, RequestDiskStop, RunTypes,
       DataThread, runVars, flags
  <2>3. FlagTypes'
    BY <1>24 DEF WriteBlock, ThreadTo, DataUnchanged, RequestDiskStop, FlagTypes,
       runVars, flags
  <2> QED
    BY <2>1, <2>2, <2>3
<1>25. CASE WriteEmpty
  <2>1. CallerTypes'
    BY <1>25 DEF WriteEmpty, ThreadTo, DataUnchanged, CallerTypes, Callers,
       Stopping, runVars, flags
  <2>2. RunTypes'
    BY <1>25 DEF WriteEmpty, ThreadTo, DataUnchanged, RunTypes, DataThread,
       runVars, flags
  <2>3. FlagTypes'
    BY <1>25 DEF WriteEmpty, ThreadTo, DataUnchanged, FlagTypes, runVars, flags
  <2> QED
    BY <2>1, <2>2, <2>3
<1>26. CASE WriteLoop
  <2>1. CallerTypes'
    BY <1>26 DEF WriteLoop, ThreadTo, DataUnchanged, CallerTypes, Callers,
       Stopping, runVars, flags
  <2>2. RunTypes'
    BY <1>26 DEF WriteLoop, ThreadTo, DataUnchanged, RunTypes, DataThread, runVars,
       flags
  <2>3. FlagTypes'
    BY <1>26 DEF WriteLoop, ThreadTo, DataUnchanged, FlagTypes, runVars, flags
  <2> QED
    BY <2>1, <2>2, <2>3
<1>27. ASSUME NEW t \in {"pps", "trigger"}, PollerEnd(t)
      PROVE  TypeOK'
  <2>1. CallerTypes'
    BY <1>27 DEF PollerEnd, ThreadTo, DataUnchanged, CallerTypes, Callers,
       Stopping, runVars, flags
  <2>2. RunTypes'
    BY <1>27 DEF PollerEnd, ThreadTo, DataUnchanged, RunTypes, DataThread, runVars,
       flags
  <2>3. FlagTypes'
    BY <1>27 DEF PollerEnd, ThreadTo, DataUnchanged, FlagTypes, runVars, flags
  <2> QED
    BY <2>1, <2>2, <2>3
<1>28. CASE CollectEnd
  <2>1. CallerTypes'
    BY <1>28 DEF CollectEnd, CallerTypes, Callers, Stopping, runVars, flags
  <2>2. RunTypes'
    BY <1>28 DEF CollectEnd, RunTypes, DataThread, runVars, flags
  <2>3. FlagTypes'
    BY <1>28 DEF CollectEnd, FlagTypes, runVars, flags
  <2> QED
    BY <2>1, <2>2, <2>3
<1>29. CASE SpaceChanges
  <2>1. CallerTypes'
    BY <1>29 DEF SpaceChanges, CallerTypes, Callers, Stopping, runVars, flags
  <2>2. RunTypes'
    BY <1>29 DEF SpaceChanges, RunTypes, DataThread, runVars, flags
  <2>3. FlagTypes'
    BY <1>29 DEF SpaceChanges, FlagTypes, runVars, flags
  <2> QED
    BY <2>1, <2>2, <2>3
<1>30. CASE UNCHANGED vars
  <2>1. CallerTypes'
    BY <1>30 DEF CallerTypes, Callers, Stopping, runVars, flags, vars
  <2>2. RunTypes'
    BY <1>30 DEF RunTypes, DataThread, runVars, flags, vars
  <2>3. FlagTypes'
    BY <1>30 DEF FlagTypes, runVars, flags, vars
  <2> QED
    BY <2>1, <2>2, <2>3
<1> QED
  BY <1>1, <1>2, <1>3, <1>3a, <1>4, <1>5, <1>6, <1>6a, <1>7, <1>8, <1>9, <1>10, <1>11, <1>12,
     <1>13, <1>14, <1>15, <1>16, <1>17, <1>18, <1>19, <1>20, <1>21, <1>22, <1>23,
     <1>24, <1>25, <1>26, <1>27, <1>28, <1>29, <1>30
     DEF Next, CommandSteps, StopSteps, StatusThread, ReadThread, WriteThread,
         Poller, Terminated, Callers

(* Every variable keeps its type. *)
THEOREM TypeCorrect == Spec => []TypeOK
  BY TypeInit, TypeStep, PTL DEF Spec

LEMMA InvInit == Init => ControlInv
  BY ControlAssumption DEF Init, ControlInv, Callers, Exclusive, ThreadsOK, StateOK,
     PlaceOK, Quiet, Fresh, Resetting, StopPhase

(* An overlap is never forgotten. *)
LEMMA OverlapStays == [Next]_vars /\ overlap => overlap'
  BY DEF Next, CommandSteps, StopSteps, StatusThread, ReadThread, WriteThread, Poller,
     Terminated, vars, Accept, Configure, ConfigureEnd, Start, SetRunning, SetRun, Spawn,
     Stop, SetStopped, Reset,
     ResetDiskFlags, ResetStopWrite, Drain, ClearRun, Join, Joined, StatusCheck, Poll,
     AutoStop, ClearPendingReason, DataUnchanged, ReadStart, ReadEnqueue, ReadStopped,
     ReadLimit, ReadEnd, WriteStart, WriteBlock, WriteEmpty, WriteLoop, PollerEnd,
     CollectEnd, SpaceChanges

(* Every step keeps the invariant. *)
LEMMA InvStep == TypeOK /\ ControlInv /\ [Next]_vars => ControlInv'
<1> SUFFICES ASSUME TypeOK, ControlInv, [Next]_vars, ~overlap'
             PROVE  ~terminated' /\ Exclusive' /\ ThreadsOK' /\ StateOK'
                    /\ \A d \in Commanders : PlaceOK(d)'
  BY DEF ControlInv
<1> USE ControlAssumption DEF TypeOK
<1>a. /\ ~terminated /\ Exclusive /\ ThreadsOK /\ StateOK
      /\ \A d \in Commanders : PlaceOK(d)
  BY OverlapStays DEF ControlInv
<1>1. ASSUME NEW c \in Commanders, Configure(c)
      PROVE  ~terminated' /\ Exclusive' /\ ThreadsOK' /\ StateOK'
             /\ \A d \in Commanders : PlaceOK(d)'
  <2>1. ~terminated'
    BY <1>1, <1>a DEF Configure, Goto, Accept, CallerTypes, RunTypes, FlagTypes,
       Callers, Stopping, DataThread, runVars, flags, PlaceOK, Quiet, Exclusive,
       StopPhase
  <2>2. Exclusive'
    BY <1>1, <1>a DEF Configure, Goto, Accept, CallerTypes, RunTypes, FlagTypes,
       Callers, Stopping, DataThread, runVars, flags, Exclusive, StopPhase
  <2>3. ThreadsOK'
    BY <1>1, <1>a DEF Configure, Goto, Accept, CallerTypes, RunTypes, FlagTypes,
       Callers, Stopping, DataThread, runVars, flags, ThreadsOK, Quiet, PlaceOK
  <2>4. StateOK'
    BY <1>1, <1>a DEF Configure, Goto, Accept, CallerTypes, RunTypes, FlagTypes,
       Callers, Stopping, DataThread, runVars, flags, StateOK, ThreadsOK, PlaceOK,
       Quiet, Fresh, StopPhase, Resetting
  <2>5. \A d \in Commanders : PlaceOK(d)'
    BY <1>1, <1>a DEF Configure, Goto, Accept, CallerTypes, RunTypes, FlagTypes,
       Callers, Stopping, DataThread, runVars, flags, Exclusive, StateOK,
       ThreadsOK, PlaceOK, Quiet, Fresh, StopPhase, Resetting
  <2> QED
    BY <2>1, <2>2, <2>3, <2>4, <2>5
<1>2. ASSUME NEW c \in Commanders, ConfigureEnd(c)
      PROVE  ~terminated' /\ Exclusive' /\ ThreadsOK' /\ StateOK'
             /\ \A d \in Commanders : PlaceOK(d)'
  <2>1. ~terminated'
    BY <1>2, <1>a DEF ConfigureEnd, Goto, CallerTypes, RunTypes, FlagTypes,
       Callers, Stopping, DataThread, runVars, flags, PlaceOK, Quiet, Exclusive,
       StopPhase
  <2>2. Exclusive'
    BY <1>2, <1>a DEF ConfigureEnd, Goto, CallerTypes, RunTypes, FlagTypes,
       Callers, Stopping, DataThread, runVars, flags, Exclusive, StopPhase
  <2>3. ThreadsOK'
    BY <1>2, <1>a DEF ConfigureEnd, Goto, CallerTypes, RunTypes, FlagTypes,
       Callers, Stopping, DataThread, runVars, flags, ThreadsOK, Quiet, PlaceOK
  <2>4. StateOK'
    BY <1>2, <1>a DEF ConfigureEnd, Goto, CallerTypes, RunTypes, FlagTypes,
       Callers, Stopping, DataThread, runVars, flags, StateOK, ThreadsOK, PlaceOK,
       Quiet, Fresh, StopPhase, Resetting
  <2>5. \A d \in Commanders : PlaceOK(d)'
    BY <1>2, <1>a DEF ConfigureEnd, Goto, CallerTypes, RunTypes, FlagTypes,
       Callers, Stopping, DataThread, runVars, flags, Exclusive, StateOK,
       ThreadsOK, PlaceOK, Quiet, Fresh, StopPhase, Resetting
  <2> QED
    BY <2>1, <2>2, <2>3, <2>4, <2>5
<1>3. ASSUME NEW c \in Commanders, Start(c)
      PROVE  ~terminated' /\ Exclusive' /\ ThreadsOK' /\ StateOK'
             /\ \A d \in Commanders : PlaceOK(d)'
  <2>1. ~terminated'
    BY <1>3, <1>a DEF Start, Goto, Accept, CallerTypes, RunTypes, FlagTypes,
       Callers, Stopping, DataThread, runVars, flags, PlaceOK, Quiet, Exclusive,
       StopPhase
  <2>2. Exclusive'
    BY <1>3, <1>a DEF Start, Goto, Accept, CallerTypes, RunTypes, FlagTypes,
       Callers, Stopping, DataThread, runVars, flags, Exclusive, StopPhase
  <2>3. ThreadsOK'
    BY <1>3, <1>a DEF Start, Goto, Accept, CallerTypes, RunTypes, FlagTypes,
       Callers, Stopping, DataThread, runVars, flags, ThreadsOK, Quiet, PlaceOK
  <2>4. StateOK'
    BY <1>3, <1>a DEF Start, Goto, Accept, CallerTypes, RunTypes, FlagTypes,
       Callers, Stopping, DataThread, runVars, flags, StateOK, ThreadsOK, PlaceOK,
       Quiet, Fresh, StopPhase, Resetting
  <2>5. \A d \in Commanders : PlaceOK(d)'
    BY <1>3, <1>a DEF Start, Goto, Accept, CallerTypes, RunTypes, FlagTypes,
       Callers, Stopping, DataThread, runVars, flags, Exclusive, StateOK,
       ThreadsOK, PlaceOK, Quiet, Fresh, StopPhase, Resetting
  <2> QED
    BY <2>1, <2>2, <2>3, <2>4, <2>5
<1>3a. ASSUME NEW c \in Commanders, SetRunning(c)
      PROVE  ~terminated' /\ Exclusive' /\ ThreadsOK' /\ StateOK'
             /\ \A d \in Commanders : PlaceOK(d)'
  <2>1. ~terminated'
    BY <1>3a, <1>a DEF SetRunning, Goto, CallerTypes, RunTypes, FlagTypes,
       Callers, Stopping, DataThread, runVars, flags, PlaceOK, Quiet, Exclusive,
       StopPhase
  <2>2. Exclusive'
    BY <1>3a, <1>a DEF SetRunning, Goto, CallerTypes, RunTypes, FlagTypes,
       Callers, Stopping, DataThread, runVars, flags, Exclusive, StopPhase
  <2>3. ThreadsOK'
    BY <1>3a, <1>a DEF SetRunning, Goto, CallerTypes, RunTypes, FlagTypes,
       Callers, Stopping, DataThread, runVars, flags, ThreadsOK, Quiet, PlaceOK
  <2>4. StateOK'
    BY <1>3a, <1>a DEF SetRunning, Goto, CallerTypes, RunTypes, FlagTypes,
       Callers, Stopping, DataThread, runVars, flags, StateOK, ThreadsOK, PlaceOK,
       Quiet, Fresh, StopPhase, Resetting
  <2>5. \A d \in Commanders : PlaceOK(d)'
    BY <1>3a, <1>a DEF SetRunning, Goto, CallerTypes, RunTypes, FlagTypes,
       Callers, Stopping, DataThread, runVars, flags, Exclusive, StateOK,
       ThreadsOK, PlaceOK, Quiet, Fresh, StopPhase, Resetting
  <2> QED
    BY <2>1, <2>2, <2>3, <2>4, <2>5
<1>4. ASSUME NEW c \in Commanders, SetRun(c)
      PROVE  ~terminated' /\ Exclusive' /\ ThreadsOK' /\ StateOK'
             /\ \A d \in Commanders : PlaceOK(d)'
  <2>1. ~terminated'
    BY <1>4, <1>a DEF SetRun, Goto, CallerTypes, RunTypes, FlagTypes, Callers,
       Stopping, DataThread, runVars, flags, PlaceOK, Quiet, Exclusive, StopPhase
  <2>2. Exclusive'
    BY <1>4, <1>a DEF SetRun, Goto, CallerTypes, RunTypes, FlagTypes, Callers,
       Stopping, DataThread, runVars, flags, Exclusive, StopPhase
  <2>3. ThreadsOK'
    BY <1>4, <1>a DEF SetRun, Goto, CallerTypes, RunTypes, FlagTypes, Callers,
       Stopping, DataThread, runVars, flags, ThreadsOK, Quiet, PlaceOK
  <2>4. StateOK'
    BY <1>4, <1>a DEF SetRun, Goto, CallerTypes, RunTypes, FlagTypes, Callers,
       Stopping, DataThread, runVars, flags, StateOK, ThreadsOK, PlaceOK, Quiet,
       Fresh, StopPhase, Resetting
  <2>5. \A d \in Commanders : PlaceOK(d)'
    BY <1>4, <1>a DEF SetRun, Goto, CallerTypes, RunTypes, FlagTypes, Callers,
       Stopping, DataThread, runVars, flags, Exclusive, StateOK, ThreadsOK,
       PlaceOK, Quiet, Fresh, StopPhase, Resetting
  <2> QED
    BY <2>1, <2>2, <2>3, <2>4, <2>5
<1>5. ASSUME NEW c \in Commanders, Spawn(c)
      PROVE  ~terminated' /\ Exclusive' /\ ThreadsOK' /\ StateOK'
             /\ \A d \in Commanders : PlaceOK(d)'
  <2>1. ~terminated'
    BY <1>5, <1>a DEF Spawn, Goto, CallerTypes, RunTypes, FlagTypes, Callers,
       Stopping, DataThread, runVars, flags, PlaceOK, Quiet, Exclusive, StopPhase
  <2>2. Exclusive'
    BY <1>5, <1>a DEF Spawn, Goto, CallerTypes, RunTypes, FlagTypes, Callers,
       Stopping, DataThread, runVars, flags, Exclusive, StopPhase
  <2>3. ThreadsOK'
    BY <1>5, <1>a DEF Spawn, Goto, CallerTypes, RunTypes, FlagTypes, Callers,
       Stopping, DataThread, runVars, flags, ThreadsOK, Quiet, PlaceOK
  <2>4. StateOK'
    BY <1>5, <1>a DEF Spawn, Goto, CallerTypes, RunTypes, FlagTypes, Callers,
       Stopping, DataThread, runVars, flags, StateOK, ThreadsOK, PlaceOK, Quiet,
       Fresh, StopPhase, Resetting
  <2>5. \A d \in Commanders : PlaceOK(d)'
    BY <1>5, <1>a DEF Spawn, Goto, CallerTypes, RunTypes, FlagTypes, Callers,
       Stopping, DataThread, runVars, flags, Exclusive, StateOK, ThreadsOK,
       PlaceOK, Quiet, Fresh, StopPhase, Resetting
  <2> QED
    BY <2>1, <2>2, <2>3, <2>4, <2>5
<1>6. ASSUME NEW c \in Commanders, Stop(c)
      PROVE  ~terminated' /\ Exclusive' /\ ThreadsOK' /\ StateOK'
             /\ \A d \in Commanders : PlaceOK(d)'
  <2>1. ~terminated'
    BY <1>6, <1>a DEF Stop, Goto, Accept, CallerTypes, RunTypes, FlagTypes,
       Callers, Stopping, DataThread, runVars, flags, PlaceOK, Quiet, Exclusive,
       StopPhase
  <2>2. Exclusive'
    BY <1>6, <1>a DEF Stop, Goto, Accept, CallerTypes, RunTypes, FlagTypes,
       Callers, Stopping, DataThread, runVars, flags, Exclusive, StopPhase
  <2>3. ThreadsOK'
    BY <1>6, <1>a DEF Stop, Goto, Accept, CallerTypes, RunTypes, FlagTypes,
       Callers, Stopping, DataThread, runVars, flags, ThreadsOK, Quiet, PlaceOK
  <2>4. StateOK'
    BY <1>6, <1>a DEF Stop, Goto, Accept, CallerTypes, RunTypes, FlagTypes,
       Callers, Stopping, DataThread, runVars, flags, StateOK, ThreadsOK, PlaceOK,
       Quiet, Fresh, StopPhase, Resetting
  <2>5. \A d \in Commanders : PlaceOK(d)'
    BY <1>6, <1>a DEF Stop, Goto, Accept, CallerTypes, RunTypes, FlagTypes,
       Callers, Stopping, DataThread, runVars, flags, Exclusive, StateOK,
       ThreadsOK, PlaceOK, Quiet, Fresh, StopPhase, Resetting
  <2> QED
    BY <2>1, <2>2, <2>3, <2>4, <2>5
<1>6a. ASSUME NEW c \in Commanders, SetStopped(c)
      PROVE  ~terminated' /\ Exclusive' /\ ThreadsOK' /\ StateOK'
             /\ \A d \in Commanders : PlaceOK(d)'
  <2>1. ~terminated'
    BY <1>6a, <1>a DEF SetStopped, Goto, CallerTypes, RunTypes, FlagTypes,
       Callers, Stopping, DataThread, runVars, flags, PlaceOK, Quiet, Exclusive,
       StopPhase
  <2>2. Exclusive'
    BY <1>6a, <1>a DEF SetStopped, Goto, CallerTypes, RunTypes, FlagTypes,
       Callers, Stopping, DataThread, runVars, flags, Exclusive, StopPhase
  <2>3. ThreadsOK'
    BY <1>6a, <1>a DEF SetStopped, Goto, CallerTypes, RunTypes, FlagTypes,
       Callers, Stopping, DataThread, runVars, flags, ThreadsOK, Quiet, PlaceOK
  <2>4. StateOK'
    BY <1>6a, <1>a DEF SetStopped, Goto, CallerTypes, RunTypes, FlagTypes,
       Callers, Stopping, DataThread, runVars, flags, StateOK, ThreadsOK, PlaceOK,
       Quiet, Fresh, StopPhase, Resetting
  <2>5. \A d \in Commanders : PlaceOK(d)'
    BY <1>6a, <1>a DEF SetStopped, Goto, CallerTypes, RunTypes, FlagTypes,
       Callers, Stopping, DataThread, runVars, flags, Exclusive, StateOK,
       ThreadsOK, PlaceOK, Quiet, Fresh, StopPhase, Resetting
  <2> QED
    BY <2>1, <2>2, <2>3, <2>4, <2>5
<1>7. ASSUME NEW c \in Commanders, Reset(c)
      PROVE  ~terminated' /\ Exclusive' /\ ThreadsOK' /\ StateOK'
             /\ \A d \in Commanders : PlaceOK(d)'
  <2>1. ~terminated'
    BY <1>7, <1>a DEF Reset, Goto, Accept, CallerTypes, RunTypes, FlagTypes,
       Callers, Stopping, DataThread, runVars, flags, PlaceOK, Quiet, Exclusive,
       StopPhase
  <2>2. Exclusive'
    BY <1>7, <1>a DEF Reset, Goto, Accept, CallerTypes, RunTypes, FlagTypes,
       Callers, Stopping, DataThread, runVars, flags, Exclusive, StopPhase
  <2>3. ThreadsOK'
    BY <1>7, <1>a DEF Reset, Goto, Accept, CallerTypes, RunTypes, FlagTypes,
       Callers, Stopping, DataThread, runVars, flags, ThreadsOK, Quiet, PlaceOK
  <2>4. StateOK'
    BY <1>7, <1>a DEF Reset, Goto, Accept, CallerTypes, RunTypes, FlagTypes,
       Callers, Stopping, DataThread, runVars, flags, StateOK, ThreadsOK, PlaceOK,
       Quiet, Fresh, StopPhase, Resetting
  <2>5. \A d \in Commanders : PlaceOK(d)'
    BY <1>7, <1>a DEF Reset, Goto, Accept, CallerTypes, RunTypes, FlagTypes,
       Callers, Stopping, DataThread, runVars, flags, Exclusive, StateOK,
       ThreadsOK, PlaceOK, Quiet, Fresh, StopPhase, Resetting
  <2> QED
    BY <2>1, <2>2, <2>3, <2>4, <2>5
<1>8. ASSUME NEW c \in Commanders, ResetDiskFlags(c)
      PROVE  ~terminated' /\ Exclusive' /\ ThreadsOK' /\ StateOK'
             /\ \A d \in Commanders : PlaceOK(d)'
  <2>1. ~terminated'
    BY <1>8, <1>a DEF ResetDiskFlags, Goto, CallerTypes, RunTypes, FlagTypes,
       Callers, Stopping, DataThread, runVars, flags, PlaceOK, Quiet, Exclusive,
       StopPhase
  <2>2. Exclusive'
    BY <1>8, <1>a DEF ResetDiskFlags, Goto, CallerTypes, RunTypes, FlagTypes,
       Callers, Stopping, DataThread, runVars, flags, Exclusive, StopPhase
  <2>3. ThreadsOK'
    BY <1>8, <1>a DEF ResetDiskFlags, Goto, CallerTypes, RunTypes, FlagTypes,
       Callers, Stopping, DataThread, runVars, flags, ThreadsOK, Quiet, PlaceOK
  <2>4. StateOK'
    BY <1>8, <1>a DEF ResetDiskFlags, Goto, CallerTypes, RunTypes, FlagTypes,
       Callers, Stopping, DataThread, runVars, flags, StateOK, ThreadsOK, PlaceOK,
       Quiet, Fresh, StopPhase, Resetting
  <2>5. \A d \in Commanders : PlaceOK(d)'
    BY <1>8, <1>a DEF ResetDiskFlags, Goto, CallerTypes, RunTypes, FlagTypes,
       Callers, Stopping, DataThread, runVars, flags, Exclusive, StateOK,
       ThreadsOK, PlaceOK, Quiet, Fresh, StopPhase, Resetting
  <2> QED
    BY <2>1, <2>2, <2>3, <2>4, <2>5
<1>9. ASSUME NEW c \in Commanders, ResetStopWrite(c)
      PROVE  ~terminated' /\ Exclusive' /\ ThreadsOK' /\ StateOK'
             /\ \A d \in Commanders : PlaceOK(d)'
  <2>1. ~terminated'
    BY <1>9, <1>a DEF ResetStopWrite, Goto, CallerTypes, RunTypes, FlagTypes,
       Callers, Stopping, DataThread, runVars, flags, PlaceOK, Quiet, Exclusive,
       StopPhase
  <2>2. Exclusive'
    BY <1>9, <1>a DEF ResetStopWrite, Goto, CallerTypes, RunTypes, FlagTypes,
       Callers, Stopping, DataThread, runVars, flags, Exclusive, StopPhase
  <2>3. ThreadsOK'
    BY <1>9, <1>a DEF ResetStopWrite, Goto, CallerTypes, RunTypes, FlagTypes,
       Callers, Stopping, DataThread, runVars, flags, ThreadsOK, Quiet, PlaceOK
  <2>4. StateOK'
    BY <1>9, <1>a DEF ResetStopWrite, Goto, CallerTypes, RunTypes, FlagTypes,
       Callers, Stopping, DataThread, runVars, flags, StateOK, ThreadsOK, PlaceOK,
       Quiet, Fresh, StopPhase, Resetting
  <2>5. \A d \in Commanders : PlaceOK(d)'
    BY <1>9, <1>a DEF ResetStopWrite, Goto, CallerTypes, RunTypes, FlagTypes,
       Callers, Stopping, DataThread, runVars, flags, Exclusive, StateOK,
       ThreadsOK, PlaceOK, Quiet, Fresh, StopPhase, Resetting
  <2> QED
    BY <2>1, <2>2, <2>3, <2>4, <2>5
<1>10. ASSUME NEW c \in Commanders, Drain(c)
      PROVE  ~terminated' /\ Exclusive' /\ ThreadsOK' /\ StateOK'
             /\ \A d \in Commanders : PlaceOK(d)'
  <2>1. ~terminated'
    BY <1>10, <1>a DEF Drain, Goto, CallerTypes, RunTypes, FlagTypes, Callers,
       Stopping, DataThread, runVars, flags, PlaceOK, Quiet, Exclusive, StopPhase
  <2>2. Exclusive'
    BY <1>10, <1>a DEF Drain, Goto, CallerTypes, RunTypes, FlagTypes, Callers,
       Stopping, DataThread, runVars, flags, Exclusive, StopPhase
  <2>3. ThreadsOK'
    BY <1>10, <1>a DEF Drain, Goto, CallerTypes, RunTypes, FlagTypes, Callers,
       Stopping, DataThread, runVars, flags, ThreadsOK, Quiet, PlaceOK
  <2>4. StateOK'
    <3>1. CASE queue > 0
      BY <1>10, <1>a, <3>1 DEF Drain, Goto, CallerTypes, Callers, StateOK, PlaceOK, Quiet,
         Resetting, StopPhase
    <3>2. CASE queue = 0
      <4>1. /\ pc[c] = "drain" /\ pc' = [pc EXCEPT ![c] = "idle"] /\ Quiet
            /\ ~stop_write /\ ~disk_stop_requested /\ current_state' = "Configured"
            /\ UNCHANGED <<data_thread, threads, queue, flags>>
        BY <1>10, <1>a, <3>2 DEF Drain, Goto, PlaceOK, Resetting
      <4>2. Quiet' /\ Fresh'
        BY <4>1, <3>2 DEF Quiet, Fresh, flags
      <4>3. pc'[Status] = pc[Status] /\ pc[Status] \notin StopPhase
        BY <4>1, <1>a DEF Exclusive, CallerTypes, Callers
      <4> QED
        BY <4>1, <4>2, <4>3 DEF StateOK
    <3> QED
      BY <3>1, <3>2 DEF RunTypes
  <2>5. \A d \in Commanders : PlaceOK(d)'
    BY <1>10, <1>a DEF Drain, Goto, CallerTypes, RunTypes, FlagTypes, Callers,
       Stopping, DataThread, runVars, flags, Exclusive, StateOK, ThreadsOK,
       PlaceOK, Quiet, Fresh, StopPhase, Resetting
  <2> QED
    BY <2>1, <2>2, <2>3, <2>4, <2>5
<1>11. ASSUME NEW p \in Callers, ClearRun(p)
      PROVE  ~terminated' /\ Exclusive' /\ ThreadsOK' /\ StateOK'
             /\ \A d \in Commanders : PlaceOK(d)'
  <2>1. ~terminated'
    BY <1>11, <1>a DEF ClearRun, Goto, Returned, CallerTypes, RunTypes, FlagTypes,
       Callers, Stopping, DataThread, runVars, flags, PlaceOK, Quiet, Exclusive,
       StopPhase
  <2>2. Exclusive'
    BY <1>11, <1>a DEF ClearRun, Goto, Returned, CallerTypes, RunTypes, FlagTypes,
       Callers, Stopping, DataThread, runVars, flags, Exclusive, StopPhase
  <2>3. ThreadsOK'
    BY <1>11, <1>a DEF ClearRun, Goto, Returned, CallerTypes, RunTypes, FlagTypes,
       Callers, Stopping, DataThread, runVars, flags, ThreadsOK, Quiet, PlaceOK
  <2>4. StateOK'
    BY <1>11, <1>a DEF ClearRun, Goto, Returned, CallerTypes, RunTypes, FlagTypes,
       Callers, Stopping, DataThread, runVars, flags, StateOK, ThreadsOK, PlaceOK,
       Quiet, Fresh, StopPhase, Resetting
  <2>5. \A d \in Commanders : PlaceOK(d)'
    BY <1>11, <1>a DEF ClearRun, Goto, Returned, CallerTypes, RunTypes, FlagTypes,
       Callers, Stopping, DataThread, runVars, flags, Exclusive, StateOK,
       ThreadsOK, PlaceOK, Quiet, Fresh, StopPhase, Resetting
  <2> QED
    BY <2>1, <2>2, <2>3, <2>4, <2>5
<1>12. ASSUME NEW p \in Callers, Join(p)
      PROVE  ~terminated' /\ Exclusive' /\ ThreadsOK' /\ StateOK'
             /\ \A d \in Commanders : PlaceOK(d)'
  <2>1. ~terminated'
    BY <1>12, <1>a DEF Join, Goto, Returned, CallerTypes, RunTypes, FlagTypes,
       Callers, Stopping, DataThread, runVars, flags, PlaceOK, Quiet, Exclusive,
       StopPhase
  <2>2. Exclusive'
    BY <1>12, <1>a DEF Join, Goto, Returned, CallerTypes, RunTypes, FlagTypes,
       Callers, Stopping, DataThread, runVars, flags, Exclusive, StopPhase
  <2>3. ThreadsOK'
    BY <1>12, <1>a DEF Join, Goto, Returned, CallerTypes, RunTypes, FlagTypes,
       Callers, Stopping, DataThread, runVars, flags, ThreadsOK, Quiet, PlaceOK
  <2>4. StateOK'
    BY <1>12, <1>a DEF Join, Goto, Returned, CallerTypes, RunTypes, FlagTypes,
       Callers, Stopping, DataThread, runVars, flags, StateOK, ThreadsOK, PlaceOK,
       Quiet, Fresh, StopPhase, Resetting
  <2>5. \A d \in Commanders : PlaceOK(d)'
    BY <1>12, <1>a DEF Join, Goto, Returned, CallerTypes, RunTypes, FlagTypes,
       Callers, Stopping, DataThread, runVars, flags, Exclusive, StateOK,
       ThreadsOK, PlaceOK, Quiet, Fresh, StopPhase, Resetting
  <2> QED
    BY <2>1, <2>2, <2>3, <2>4, <2>5
<1>13. ASSUME NEW p \in Callers, Joined(p)
      PROVE  ~terminated' /\ Exclusive' /\ ThreadsOK' /\ StateOK'
             /\ \A d \in Commanders : PlaceOK(d)'
  <2>1. ~terminated'
    BY <1>13, <1>a DEF Joined, Goto, Returned, CallerTypes, RunTypes, FlagTypes,
       Callers, Stopping, DataThread, runVars, flags, PlaceOK, Quiet, Exclusive,
       StopPhase
  <2>2. Exclusive'
    BY <1>13, <1>a DEF Joined, Goto, Returned, CallerTypes, RunTypes, FlagTypes,
       Callers, Stopping, DataThread, runVars, flags, Exclusive, StopPhase
  <2>3. ThreadsOK'
    BY <1>13, <1>a DEF Joined, Goto, Returned, CallerTypes, RunTypes, FlagTypes,
       Callers, Stopping, DataThread, runVars, flags, ThreadsOK, Quiet, PlaceOK
  <2>4. StateOK'
    BY <1>13, <1>a DEF Joined, Goto, Returned, CallerTypes, RunTypes, FlagTypes,
       Callers, Stopping, DataThread, runVars, flags, StateOK, ThreadsOK, PlaceOK,
       Quiet, Fresh, StopPhase, Resetting
  <2>5. \A d \in Commanders : PlaceOK(d)'
    BY <1>13, <1>a DEF Joined, Goto, Returned, CallerTypes, RunTypes, FlagTypes,
       Callers, Stopping, DataThread, runVars, flags, Exclusive, StateOK,
       ThreadsOK, PlaceOK, Quiet, Fresh, StopPhase, Resetting
  <2> QED
    BY <2>1, <2>2, <2>3, <2>4, <2>5
<1>14. CASE StatusCheck
  <2>1. ~terminated'
    BY <1>14, <1>a DEF StatusCheck, Goto, CallerTypes, RunTypes, FlagTypes,
       Callers, Stopping, DataThread, runVars, flags, PlaceOK, Quiet, Exclusive,
       StopPhase
  <2>2. Exclusive'
    BY <1>14, <1>a DEF StatusCheck, Goto, CallerTypes, RunTypes, FlagTypes,
       Callers, Stopping, DataThread, runVars, flags, Exclusive, StopPhase
  <2>3. ThreadsOK'
    BY <1>14, <1>a DEF StatusCheck, Goto, CallerTypes, RunTypes, FlagTypes,
       Callers, Stopping, DataThread, runVars, flags, ThreadsOK, Quiet, PlaceOK
  <2>4. StateOK'
    BY <1>14, <1>a DEF StatusCheck, Goto, CallerTypes, RunTypes, FlagTypes,
       Callers, Stopping, DataThread, runVars, flags, StateOK, ThreadsOK, PlaceOK,
       Quiet, Fresh, StopPhase, Resetting
  <2>5. \A d \in Commanders : PlaceOK(d)'
    BY <1>14, <1>a DEF StatusCheck, Goto, CallerTypes, RunTypes, FlagTypes,
       Callers, Stopping, DataThread, runVars, flags, Exclusive, StateOK,
       ThreadsOK, PlaceOK, Quiet, Fresh, StopPhase, Resetting
  <2> QED
    BY <2>1, <2>2, <2>3, <2>4, <2>5
<1>15. CASE Poll
  <2>1. ~terminated'
    BY <1>15, <1>a DEF Poll, Goto, CallerTypes, RunTypes, FlagTypes, Callers,
       Stopping, DataThread, runVars, flags, PlaceOK, Quiet, Exclusive, StopPhase
  <2>2. Exclusive'
    BY <1>15, <1>a DEF Poll, Goto, CallerTypes, RunTypes, FlagTypes, Callers,
       Stopping, DataThread, runVars, flags, Exclusive, StopPhase
  <2>3. ThreadsOK'
    BY <1>15, <1>a DEF Poll, Goto, CallerTypes, RunTypes, FlagTypes, Callers,
       Stopping, DataThread, runVars, flags, ThreadsOK, Quiet, PlaceOK
  <2>4. StateOK'
    BY <1>15, <1>a DEF Poll, Goto, CallerTypes, RunTypes, FlagTypes, Callers,
       Stopping, DataThread, runVars, flags, StateOK, ThreadsOK, PlaceOK, Quiet,
       Fresh, StopPhase, Resetting
  <2>5. \A d \in Commanders : PlaceOK(d)'
    BY <1>15, <1>a DEF Poll, Goto, CallerTypes, RunTypes, FlagTypes, Callers,
       Stopping, DataThread, runVars, flags, Exclusive, StateOK, ThreadsOK,
       PlaceOK, Quiet, Fresh, StopPhase, Resetting
  <2> QED
    BY <2>1, <2>2, <2>3, <2>4, <2>5
<1>16. CASE AutoStop
  <2>1. ~terminated'
    BY <1>16, <1>a DEF AutoStop, Goto, CallerTypes, RunTypes, FlagTypes, Callers,
       Stopping, DataThread, runVars, flags, PlaceOK, Quiet, Exclusive, StopPhase
  <2>2. Exclusive'
    BY <1>16, <1>a DEF AutoStop, Goto, CallerTypes, RunTypes, FlagTypes, Callers,
       Stopping, DataThread, runVars, flags, Exclusive, StopPhase
  <2>3. ThreadsOK'
    BY <1>16, <1>a DEF AutoStop, Goto, CallerTypes, RunTypes, FlagTypes, Callers,
       Stopping, DataThread, runVars, flags, ThreadsOK, Quiet, PlaceOK
  <2>4. StateOK'
    BY <1>16, <1>a DEF AutoStop, Goto, CallerTypes, RunTypes, FlagTypes, Callers,
       Stopping, DataThread, runVars, flags, StateOK, ThreadsOK, PlaceOK, Quiet,
       Fresh, StopPhase, Resetting
  <2>5. \A d \in Commanders : PlaceOK(d)'
    BY <1>16, <1>a DEF AutoStop, Goto, CallerTypes, RunTypes, FlagTypes, Callers,
       Stopping, DataThread, runVars, flags, Exclusive, StateOK, ThreadsOK,
       PlaceOK, Quiet, Fresh, StopPhase, Resetting
  <2> QED
    BY <2>1, <2>2, <2>3, <2>4, <2>5
<1>17. CASE ClearPendingReason
  <2>1. ~terminated'
    BY <1>17, <1>a DEF ClearPendingReason, Goto, CallerTypes, RunTypes, FlagTypes,
       Callers, Stopping, DataThread, runVars, flags, PlaceOK, Quiet, Exclusive,
       StopPhase
  <2>2. Exclusive'
    BY <1>17, <1>a DEF ClearPendingReason, Goto, CallerTypes, RunTypes, FlagTypes,
       Callers, Stopping, DataThread, runVars, flags, Exclusive, StopPhase
  <2>3. ThreadsOK'
    BY <1>17, <1>a DEF ClearPendingReason, Goto, CallerTypes, RunTypes, FlagTypes,
       Callers, Stopping, DataThread, runVars, flags, ThreadsOK, Quiet, PlaceOK
  <2>4. StateOK'
    BY <1>17, <1>a DEF ClearPendingReason, Goto, CallerTypes, RunTypes, FlagTypes,
       Callers, Stopping, DataThread, runVars, flags, StateOK, ThreadsOK, PlaceOK,
       Quiet, Fresh, StopPhase, Resetting
  <2>5. \A d \in Commanders : PlaceOK(d)'
    BY <1>17, <1>a DEF ClearPendingReason, Goto, CallerTypes, RunTypes, FlagTypes,
       Callers, Stopping, DataThread, runVars, flags, Exclusive, StateOK,
       ThreadsOK, PlaceOK, Quiet, Fresh, StopPhase, Resetting
  <2> QED
    BY <2>1, <2>2, <2>3, <2>4, <2>5
<1>18. CASE ReadStart
  <2>1. ~terminated'
    BY <1>18, <1>a DEF ReadStart, ThreadTo, DataUnchanged, CallerTypes, RunTypes,
       FlagTypes, Callers, Stopping, DataThread, runVars, flags, PlaceOK, Quiet,
       Exclusive, StopPhase
  <2>2. Exclusive'
    BY <1>18, <1>a DEF ReadStart, ThreadTo, DataUnchanged, CallerTypes, RunTypes,
       FlagTypes, Callers, Stopping, DataThread, runVars, flags, Exclusive,
       StopPhase
  <2>3. ThreadsOK'
    BY <1>18, <1>a DEF ReadStart, ThreadTo, DataUnchanged, CallerTypes, RunTypes,
       FlagTypes, Callers, Stopping, DataThread, runVars, flags, ThreadsOK, Quiet,
       PlaceOK
  <2>4. StateOK'
    BY <1>18, <1>a DEF ReadStart, ThreadTo, DataUnchanged, CallerTypes, RunTypes,
       FlagTypes, Callers, Stopping, DataThread, runVars, flags, StateOK,
       ThreadsOK, PlaceOK, Quiet, Fresh, StopPhase, Resetting
  <2>5. \A d \in Commanders : PlaceOK(d)'
    BY <1>18, <1>a DEF ReadStart, ThreadTo, DataUnchanged, CallerTypes, RunTypes,
       FlagTypes, Callers, Stopping, DataThread, runVars, flags, Exclusive,
       StateOK, ThreadsOK, PlaceOK, Quiet, Fresh, StopPhase, Resetting
  <2> QED
    BY <2>1, <2>2, <2>3, <2>4, <2>5
<1>19. CASE ReadEnqueue
  <2>1. ~terminated'
    BY <1>19, <1>a DEF ReadEnqueue, ThreadTo, DataUnchanged, CallerTypes, RunTypes,
       FlagTypes, Callers, Stopping, DataThread, runVars, flags, PlaceOK, Quiet,
       Exclusive, StopPhase
  <2>2. Exclusive'
    BY <1>19, <1>a DEF ReadEnqueue, ThreadTo, DataUnchanged, CallerTypes, RunTypes,
       FlagTypes, Callers, Stopping, DataThread, runVars, flags, Exclusive,
       StopPhase
  <2>3. ThreadsOK'
    BY <1>19, <1>a DEF ReadEnqueue, ThreadTo, DataUnchanged, CallerTypes, RunTypes,
       FlagTypes, Callers, Stopping, DataThread, runVars, flags, ThreadsOK, Quiet,
       PlaceOK
  <2>4. StateOK'
    BY <1>19, <1>a DEF ReadEnqueue, ThreadTo, DataUnchanged, CallerTypes, RunTypes,
       FlagTypes, Callers, Stopping, DataThread, runVars, flags, StateOK,
       ThreadsOK, PlaceOK, Quiet, Fresh, StopPhase, Resetting
  <2>5. \A d \in Commanders : PlaceOK(d)'
    BY <1>19, <1>a DEF ReadEnqueue, ThreadTo, DataUnchanged, CallerTypes, RunTypes,
       FlagTypes, Callers, Stopping, DataThread, runVars, flags, Exclusive,
       StateOK, ThreadsOK, PlaceOK, Quiet, Fresh, StopPhase, Resetting
  <2> QED
    BY <2>1, <2>2, <2>3, <2>4, <2>5
<1>20. CASE ReadStopped
  <2>1. ~terminated'
    BY <1>20, <1>a DEF ReadStopped, ThreadTo, DataUnchanged, CallerTypes, RunTypes,
       FlagTypes, Callers, Stopping, DataThread, runVars, flags, PlaceOK, Quiet,
       Exclusive, StopPhase
  <2>2. Exclusive'
    BY <1>20, <1>a DEF ReadStopped, ThreadTo, DataUnchanged, CallerTypes, RunTypes,
       FlagTypes, Callers, Stopping, DataThread, runVars, flags, Exclusive,
       StopPhase
  <2>3. ThreadsOK'
    BY <1>20, <1>a DEF ReadStopped, ThreadTo, DataUnchanged, CallerTypes, RunTypes,
       FlagTypes, Callers, Stopping, DataThread, runVars, flags, ThreadsOK, Quiet,
       PlaceOK
  <2>4. StateOK'
    BY <1>20, <1>a DEF ReadStopped, ThreadTo, DataUnchanged, CallerTypes, RunTypes,
       FlagTypes, Callers, Stopping, DataThread, runVars, flags, StateOK,
       ThreadsOK, PlaceOK, Quiet, Fresh, StopPhase, Resetting
  <2>5. \A d \in Commanders : PlaceOK(d)'
    BY <1>20, <1>a DEF ReadStopped, ThreadTo, DataUnchanged, CallerTypes, RunTypes,
       FlagTypes, Callers, Stopping, DataThread, runVars, flags, Exclusive,
       StateOK, ThreadsOK, PlaceOK, Quiet, Fresh, StopPhase, Resetting
  <2> QED
    BY <2>1, <2>2, <2>3, <2>4, <2>5
<1>21. CASE ReadLimit
  <2>1. ~terminated'
    BY <1>21, <1>a DEF ReadLimit, ThreadTo, DataUnchanged, CallerTypes, RunTypes,
       FlagTypes, Callers, Stopping, DataThread, runVars, flags, PlaceOK, Quiet,
       Exclusive, StopPhase
  <2>2. Exclusive'
    BY <1>21, <1>a DEF ReadLimit, ThreadTo, DataUnchanged, CallerTypes, RunTypes,
       FlagTypes, Callers, Stopping, DataThread, runVars, flags, Exclusive,
       StopPhase
  <2>3. ThreadsOK'
    BY <1>21, <1>a DEF ReadLimit, ThreadTo, DataUnchanged, CallerTypes, RunTypes,
       FlagTypes, Callers, Stopping, DataThread, runVars, flags, ThreadsOK, Quiet,
       PlaceOK
  <2>4. StateOK'
    BY <1>21, <1>a DEF ReadLimit, ThreadTo, DataUnchanged, CallerTypes, RunTypes,
       FlagTypes, Callers, Stopping, DataThread, runVars, flags, StateOK,
       ThreadsOK, PlaceOK, Quiet, Fresh, StopPhase, Resetting
  <2>5. \A d \in Commanders : PlaceOK(d)'
    BY <1>21, <1>a DEF ReadLimit, ThreadTo, DataUnchanged, CallerTypes, RunTypes,
       FlagTypes, Callers, Stopping, DataThread, runVars, flags, Exclusive,
       StateOK, ThreadsOK, PlaceOK, Quiet, Fresh, StopPhase, Resetting
  <2> QED
    BY <2>1, <2>2, <2>3, <2>4, <2>5
<1>22. CASE ReadEnd
  <2>1. ~terminated'
    BY <1>22, <1>a DEF ReadEnd, ThreadTo, DataUnchanged, CallerTypes, RunTypes,
       FlagTypes, Callers, Stopping, DataThread, runVars, flags, PlaceOK, Quiet,
       Exclusive, StopPhase
  <2>2. Exclusive'
    BY <1>22, <1>a DEF ReadEnd, ThreadTo, DataUnchanged, CallerTypes, RunTypes,
       FlagTypes, Callers, Stopping, DataThread, runVars, flags, Exclusive,
       StopPhase
  <2>3. ThreadsOK'
    BY <1>22, <1>a DEF ReadEnd, ThreadTo, DataUnchanged, CallerTypes, RunTypes,
       FlagTypes, Callers, Stopping, DataThread, runVars, flags, ThreadsOK, Quiet,
       PlaceOK
  <2>4. StateOK'
    BY <1>22, <1>a DEF ReadEnd, ThreadTo, DataUnchanged, CallerTypes, RunTypes,
       FlagTypes, Callers, Stopping, DataThread, runVars, flags, StateOK,
       ThreadsOK, PlaceOK, Quiet, Fresh, StopPhase, Resetting
  <2>5. \A d \in Commanders : PlaceOK(d)'
    BY <1>22, <1>a DEF ReadEnd, ThreadTo, DataUnchanged, CallerTypes, RunTypes,
       FlagTypes, Callers, Stopping, DataThread, runVars, flags, Exclusive,
       StateOK, ThreadsOK, PlaceOK, Quiet, Fresh, StopPhase, Resetting
  <2> QED
    BY <2>1, <2>2, <2>3, <2>4, <2>5
<1>23. CASE WriteStart
  <2>1. ~terminated'
    BY <1>23, <1>a DEF WriteStart, ThreadTo, DataUnchanged, RequestDiskStop,
       CallerTypes, RunTypes, FlagTypes, Callers, Stopping, DataThread, runVars,
       flags, PlaceOK, Quiet, Exclusive, StopPhase
  <2>2. Exclusive'
    BY <1>23, <1>a DEF WriteStart, ThreadTo, DataUnchanged, RequestDiskStop,
       CallerTypes, RunTypes, FlagTypes, Callers, Stopping, DataThread, runVars,
       flags, Exclusive, StopPhase
  <2>3. ThreadsOK'
    BY <1>23, <1>a DEF WriteStart, ThreadTo, DataUnchanged, RequestDiskStop,
       CallerTypes, RunTypes, FlagTypes, Callers, Stopping, DataThread, runVars,
       flags, ThreadsOK, Quiet, PlaceOK
  <2>4. StateOK'
    BY <1>23, <1>a DEF WriteStart, ThreadTo, DataUnchanged, RequestDiskStop,
       CallerTypes, RunTypes, FlagTypes, Callers, Stopping, DataThread, runVars,
       flags, StateOK, ThreadsOK, PlaceOK, Quiet, Fresh, StopPhase, Resetting
  <2>5. \A d \in Commanders : PlaceOK(d)'
    BY <1>23, <1>a DEF WriteStart, ThreadTo, DataUnchanged, RequestDiskStop,
       CallerTypes, RunTypes, FlagTypes, Callers, Stopping, DataThread, runVars,
       flags, Exclusive, StateOK, ThreadsOK, PlaceOK, Quiet, Fresh, StopPhase,
       Resetting
  <2> QED
    BY <2>1, <2>2, <2>3, <2>4, <2>5
<1>24. CASE WriteBlock
  <2>1. ~terminated'
    BY <1>24, <1>a DEF WriteBlock, ThreadTo, DataUnchanged, RequestDiskStop,
       CallerTypes, RunTypes, FlagTypes, Callers, Stopping, DataThread, runVars,
       flags, PlaceOK, Quiet, Exclusive, StopPhase
  <2>2. Exclusive'
    BY <1>24, <1>a DEF WriteBlock, ThreadTo, DataUnchanged, RequestDiskStop,
       CallerTypes, RunTypes, FlagTypes, Callers, Stopping, DataThread, runVars,
       flags, Exclusive, StopPhase
  <2>3. ThreadsOK'
    BY <1>24, <1>a DEF WriteBlock, ThreadTo, DataUnchanged, RequestDiskStop,
       CallerTypes, RunTypes, FlagTypes, Callers, Stopping, DataThread, runVars,
       flags, ThreadsOK, Quiet, PlaceOK
  <2>4. StateOK'
    BY <1>24, <1>a DEF WriteBlock, ThreadTo, DataUnchanged, RequestDiskStop,
       CallerTypes, RunTypes, FlagTypes, Callers, Stopping, DataThread, runVars,
       flags, StateOK, ThreadsOK, PlaceOK, Quiet, Fresh, StopPhase, Resetting
  <2>5. \A d \in Commanders : PlaceOK(d)'
    BY <1>24, <1>a DEF WriteBlock, ThreadTo, DataUnchanged, RequestDiskStop,
       CallerTypes, RunTypes, FlagTypes, Callers, Stopping, DataThread, runVars,
       flags, Exclusive, StateOK, ThreadsOK, PlaceOK, Quiet, Fresh, StopPhase,
       Resetting
  <2> QED
    BY <2>1, <2>2, <2>3, <2>4, <2>5
<1>25. CASE WriteEmpty
  <2>1. ~terminated'
    BY <1>25, <1>a DEF WriteEmpty, ThreadTo, DataUnchanged, CallerTypes, RunTypes,
       FlagTypes, Callers, Stopping, DataThread, runVars, flags, PlaceOK, Quiet,
       Exclusive, StopPhase
  <2>2. Exclusive'
    BY <1>25, <1>a DEF WriteEmpty, ThreadTo, DataUnchanged, CallerTypes, RunTypes,
       FlagTypes, Callers, Stopping, DataThread, runVars, flags, Exclusive,
       StopPhase
  <2>3. ThreadsOK'
    BY <1>25, <1>a DEF WriteEmpty, ThreadTo, DataUnchanged, CallerTypes, RunTypes,
       FlagTypes, Callers, Stopping, DataThread, runVars, flags, ThreadsOK, Quiet,
       PlaceOK
  <2>4. StateOK'
    BY <1>25, <1>a DEF WriteEmpty, ThreadTo, DataUnchanged, CallerTypes, RunTypes,
       FlagTypes, Callers, Stopping, DataThread, runVars, flags, StateOK,
       ThreadsOK, PlaceOK, Quiet, Fresh, StopPhase, Resetting
  <2>5. \A d \in Commanders : PlaceOK(d)'
    BY <1>25, <1>a DEF WriteEmpty, ThreadTo, DataUnchanged, CallerTypes, RunTypes,
       FlagTypes, Callers, Stopping, DataThread, runVars, flags, Exclusive,
       StateOK, ThreadsOK, PlaceOK, Quiet, Fresh, StopPhase, Resetting
  <2> QED
    BY <2>1, <2>2, <2>3, <2>4, <2>5
<1>26. CASE WriteLoop
  <2>1. ~terminated'
    BY <1>26, <1>a DEF WriteLoop, ThreadTo, DataUnchanged, CallerTypes, RunTypes,
       FlagTypes, Callers, Stopping, DataThread, runVars, flags, PlaceOK, Quiet,
       Exclusive, StopPhase
  <2>2. Exclusive'
    BY <1>26, <1>a DEF WriteLoop, ThreadTo, DataUnchanged, CallerTypes, RunTypes,
       FlagTypes, Callers, Stopping, DataThread, runVars, flags, Exclusive,
       StopPhase
  <2>3. ThreadsOK'
    BY <1>26, <1>a DEF WriteLoop, ThreadTo, DataUnchanged, CallerTypes, RunTypes,
       FlagTypes, Callers, Stopping, DataThread, runVars, flags, ThreadsOK, Quiet,
       PlaceOK
  <2>4. StateOK'
    BY <1>26, <1>a DEF WriteLoop, ThreadTo, DataUnchanged, CallerTypes, RunTypes,
       FlagTypes, Callers, Stopping, DataThread, runVars, flags, StateOK,
       ThreadsOK, PlaceOK, Quiet, Fresh, StopPhase, Resetting
  <2>5. \A d \in Commanders : PlaceOK(d)'
    BY <1>26, <1>a DEF WriteLoop, ThreadTo, DataUnchanged, CallerTypes, RunTypes,
       FlagTypes, Callers, Stopping, DataThread, runVars, flags, Exclusive,
       StateOK, ThreadsOK, PlaceOK, Quiet, Fresh, StopPhase, Resetting
  <2> QED
    BY <2>1, <2>2, <2>3, <2>4, <2>5
<1>27. ASSUME NEW t \in {"pps", "trigger"}, PollerEnd(t)
      PROVE  ~terminated' /\ Exclusive' /\ ThreadsOK' /\ StateOK'
             /\ \A d \in Commanders : PlaceOK(d)'
  <2>1. ~terminated'
    BY <1>27, <1>a DEF PollerEnd, ThreadTo, DataUnchanged, CallerTypes, RunTypes,
       FlagTypes, Callers, Stopping, DataThread, runVars, flags, PlaceOK, Quiet,
       Exclusive, StopPhase
  <2>2. Exclusive'
    BY <1>27, <1>a DEF PollerEnd, ThreadTo, DataUnchanged, CallerTypes, RunTypes,
       FlagTypes, Callers, Stopping, DataThread, runVars, flags, Exclusive,
       StopPhase
  <2>3. ThreadsOK'
    BY <1>27, <1>a DEF PollerEnd, ThreadTo, DataUnchanged, CallerTypes, RunTypes,
       FlagTypes, Callers, Stopping, DataThread, runVars, flags, ThreadsOK, Quiet,
       PlaceOK
  <2>4. StateOK'
    BY <1>27, <1>a DEF PollerEnd, ThreadTo, DataUnchanged, CallerTypes, RunTypes,
       FlagTypes, Callers, Stopping, DataThread, runVars, flags, StateOK,
       ThreadsOK, PlaceOK, Quiet, Fresh, StopPhase, Resetting
  <2>5. \A d \in Commanders : PlaceOK(d)'
    BY <1>27, <1>a DEF PollerEnd, ThreadTo, DataUnchanged, CallerTypes, RunTypes,
       FlagTypes, Callers, Stopping, DataThread, runVars, flags, Exclusive,
       StateOK, ThreadsOK, PlaceOK, Quiet, Fresh, StopPhase, Resetting
  <2> QED
    BY <2>1, <2>2, <2>3, <2>4, <2>5
<1>28. CASE CollectEnd
  <2>1. ~terminated'
    BY <1>28, <1>a DEF CollectEnd, CallerTypes, RunTypes, FlagTypes, Callers,
       Stopping, DataThread, runVars, flags, PlaceOK, Quiet, Exclusive, StopPhase
  <2>2. Exclusive'
    BY <1>28, <1>a DEF CollectEnd, CallerTypes, RunTypes, FlagTypes, Callers,
       Stopping, DataThread, runVars, flags, Exclusive, StopPhase
  <2>3. ThreadsOK'
    BY <1>28, <1>a DEF CollectEnd, CallerTypes, RunTypes, FlagTypes, Callers,
       Stopping, DataThread, runVars, flags, ThreadsOK, Quiet, PlaceOK
  <2>4. StateOK'
    BY <1>28, <1>a DEF CollectEnd, CallerTypes, RunTypes, FlagTypes, Callers,
       Stopping, DataThread, runVars, flags, StateOK, ThreadsOK, PlaceOK, Quiet,
       Fresh, StopPhase, Resetting
  <2>5. \A d \in Commanders : PlaceOK(d)'
    BY <1>28, <1>a DEF CollectEnd, CallerTypes, RunTypes, FlagTypes, Callers,
       Stopping, DataThread, runVars, flags, Exclusive, StateOK, ThreadsOK,
       PlaceOK, Quiet, Fresh, StopPhase, Resetting
  <2> QED
    BY <2>1, <2>2, <2>3, <2>4, <2>5
<1>29. CASE SpaceChanges
  <2>1. ~terminated'
    BY <1>29, <1>a DEF SpaceChanges, CallerTypes, RunTypes, FlagTypes, Callers,
       Stopping, DataThread, runVars, flags, PlaceOK, Quiet, Exclusive, StopPhase
  <2>2. Exclusive'
    BY <1>29, <1>a DEF SpaceChanges, CallerTypes, RunTypes, FlagTypes, Callers,
       Stopping, DataThread, runVars, flags, Exclusive, StopPhase
  <2>3. ThreadsOK'
    BY <1>29, <1>a DEF SpaceChanges, CallerTypes, RunTypes, FlagTypes, Callers,
       Stopping, DataThread, runVars, flags, ThreadsOK, Quiet, PlaceOK
  <2>4. StateOK'
    BY <1>29, <1>a DEF SpaceChanges, CallerTypes, RunTypes, FlagTypes, Callers,
       Stopping, DataThread, runVars, flags, StateOK, ThreadsOK, PlaceOK, Quiet,
       Fresh, StopPhase, Resetting
  <2>5. \A d \in Commanders : PlaceOK(d)'
    BY <1>29, <1>a DEF SpaceChanges, CallerTypes, RunTypes, FlagTypes, Callers,
       Stopping, DataThread, runVars, flags, Exclusive, StateOK, ThreadsOK,
       PlaceOK, Quiet, Fresh, StopPhase, Resetting
  <2> QED
    BY <2>1, <2>2, <2>3, <2>4, <2>5
<1>30. CASE UNCHANGED vars
  <2>1. ~terminated'
    BY <1>30, <1>a DEF CallerTypes, RunTypes, FlagTypes, Callers, Stopping,
       DataThread, runVars, flags, PlaceOK, Quiet, Exclusive, StopPhase, vars
  <2>2. Exclusive'
    BY <1>30, <1>a DEF CallerTypes, RunTypes, FlagTypes, Callers, Stopping,
       DataThread, runVars, flags, Exclusive, StopPhase, vars
  <2>3. ThreadsOK'
    BY <1>30, <1>a DEF CallerTypes, RunTypes, FlagTypes, Callers, Stopping,
       DataThread, runVars, flags, ThreadsOK, Quiet, PlaceOK, vars
  <2>4. StateOK'
    BY <1>30, <1>a DEF CallerTypes, RunTypes, FlagTypes, Callers, Stopping,
       DataThread, runVars, flags, StateOK, ThreadsOK, PlaceOK, Quiet, Fresh,
       StopPhase, Resetting, vars
  <2>5. \A d \in Commanders : PlaceOK(d)'
    BY <1>30, <1>a DEF CallerTypes, RunTypes, FlagTypes, Callers, Stopping,
       DataThread, runVars, flags, Exclusive, StateOK, ThreadsOK, PlaceOK, Quiet,
       Fresh, StopPhase, Resetting, vars
  <2> QED
    BY <2>1, <2>2, <2>3, <2>4, <2>5
<1> QED
  BY <1>1, <1>2, <1>3, <1>3a, <1>4, <1>5, <1>6, <1>6a, <1>7, <1>8, <1>9, <1>10, <1>11, <1>12,
     <1>13, <1>14, <1>15, <1>16, <1>17, <1>18, <1>19, <1>20, <1>21, <1>22, <1>23,
     <1>24, <1>25, <1>26, <1>27, <1>28, <1>29, <1>30
     DEF Next, CommandSteps, StopSteps, StatusThread, ReadThread, WriteThread,
         Poller, Terminated, Callers

LEMMA Invariance == Spec => [](TypeOK /\ ControlInv)
<1>1. TypeOK /\ ControlInv /\ [Next]_vars => (TypeOK /\ ControlInv)'
  BY TypeStep, InvStep
<1> QED
  BY TypeInit, InvInit, <1>1, PTL DEF Spec

(* The data handler is reset only when the threads of the last run are gone, *)
(* as long as no command overlaps with a stop of another thread              *)
(* (controller.cpp:534-552).                                                 *)
THEOREM QuietResetHolds == Spec => []QuietReset
<1>1. ControlInv => QuietReset
  BY DEF ControlInv, QuietReset, PlaceOK
<1> QED
  BY Invariance, <1>1, PTL

(* Every run starts with fresh flags and an empty queue, under the same      *)
(* condition (controller.cpp:516-521, data_handler.cpp:1254-1269).           *)
THEOREM RunStartsCleanHolds == Spec => []RunStartsClean
<1>1. ControlInv => RunStartsClean
  BY DEF ControlInv, RunStartsClean, PlaceOK, Fresh
<1> QED
  BY Invariance, <1>1, PTL

(* The data thread is neither joined twice nor overwritten while joinable,   *)
(* under the same condition (controller.cpp:521, :537).                      *)
THEOREM NeverTerminatesHolds == Spec => []NeverTerminates
<1>1. ControlInv => NeverTerminates
  BY DEF ControlInv, NeverTerminates
<1> QED
  BY Invariance, <1>1, PTL

(* A run that goes on is Running or being stopped, under the same condition  *)
(* (controller.cpp:502-513, :601-615).                                       *)
THEOREM RunIsOwnedHolds == Spec => []RunIsOwned
<1>1. TypeOK /\ ControlInv => RunIsOwned
  BY DEF TypeOK, CallerTypes, ControlInv, RunIsOwned, StateOK
<1> QED
  BY Invariance, <1>1, PTL
=============================================================================
