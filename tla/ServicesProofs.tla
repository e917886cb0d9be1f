--------------------------- MODULE ServicesProofs ---------------------------
(***************************************************************************)
(* Proofs about Services.  Of both processes: main does not sleep through  *)
(* its end.  Of the orchestrator: its status thread does what the last     *)
(* status command asked for, and it leaves no DAQ unit behind.  For every  *)
(* set of units and every number of starts and faults, with the bound      *)
(* Apart or without.                                                       *)
(***************************************************************************)
EXTENDS Services, TLAPS

(* Outside the wait for the status thread, the thread object, the flag and   *)
(* the last command agree, and the thread has ended only for want of a bus.  *)
(* In the wait the flag is clear; the wait that goes back to the commands is *)
(* the one of Stop.                                                          *)
StatusInv ==
  /\ orc.cmd \in {"none", "loop", "read", "end"} =>
       /\ orc.joinable = orc.asked /\ orc.g_status_running = orc.asked
       /\ orc.asked => (orc.status = "done") = orc.unopened
  /\ orc.cmd \in Waits => ~orc.g_status_running /\ (orc.next = "loop" => ~orc.asked)
  /\ orc.status # "done" => orc.joinable

(* The last wait is the one after the units were stopped.                    *)
EndInv ==
  /\ orc_gate.main = "start" => orc.cmd = "none"
  /\ orc.next = "done" => orc.cmd \in Waits \cup {"done"}
  /\ orc.next = "done" => orc.refused \/ wanted \cap Daq = {}
  /\ orc.cmd = "done" => orc.next = "done" \/ orc.unfit
  /\ orc.proc = "clean" => orc.next = "done" \/ orc.unfit

OrcInv == orc \in Orc /\ StatusInv /\ EndInv

ServicesInv == TG!GateInv /\ OG!GateInv /\ OrcInv
-----------------------------------------------------------------------------
(* The gate of the TPC daemon: what main, the signal handler and the I/O     *)
(* threads do there keeps its invariant.                                     *)
LEMMA TGSteps ==
  ASSUME TG!GateInv,
         \/ TG!GateMain \/ TG!GateHandler \/ TG!IoNotify \/ TG!IoFails
         \/ \E main_thread \in BOOLEAN : TG!Signal(main_thread)
  PROVE  TG!GateInv' /\ (tpc_gate'.main = "start" => tpc_gate.main = "start")
<1>1. CASE TG!MainCheck
  BY <1>1 DEF TG!MainCheck, TG!GateInv, TG!Gate
<1>2. CASE TG!MainLock
  BY <1>2 DEF TG!MainLock, TG!GateInv, TG!Gate
<1>3. CASE TG!MainTest
  BY <1>3 DEF TG!MainTest, TG!GateInv, TG!Gate
<1>4. CASE TG!MainSleep
  BY <1>4 DEF TG!MainSleep, TG!GateInv, TG!Gate
<1>5. CASE TG!MainLeave
  BY <1>5 DEF TG!MainLeave, TG!GateInv, TG!Gate
<1>6. CASE TG!HandlerLock
  BY <1>6 DEF TG!HandlerLock, TG!GateInv, TG!Gate
<1>7. CASE TG!HandlerNotify
  BY <1>7 DEF TG!HandlerNotify, TG!GateInv, TG!Gate, TG!Notified
<1>8. CASE TG!IoNotify
  BY <1>8, ZenonT(40) DEF TG!IoNotify, TG!GateInv, TG!Gate, TG!Notified
<1>9. CASE TG!IoFails
  BY <1>9 DEF TG!IoFails, TG!GateInv, TG!Gate
<1>10. ASSUME NEW main_thread \in BOOLEAN, TG!Signal(main_thread)
       PROVE  TG!GateInv' /\ (tpc_gate'.main = "start" => tpc_gate.main = "start")
  BY <1>10 DEF TG!Signal, TG!GateInv, TG!Gate
<1> QED
  BY <1>1, <1>2, <1>3, <1>4, <1>5, <1>6, <1>7, <1>8, <1>9, <1>10 DEF TG!GateMain, TG!GateHandler

(* The same for the gate of the orchestrator.                                *)
LEMMA OGSteps ==
  ASSUME OG!GateInv,
         \/ OG!GateMain \/ OG!GateHandler \/ OG!IoNotify \/ OG!IoFails
         \/ \E main_thread \in BOOLEAN : OG!Signal(main_thread)
  PROVE  OG!GateInv' /\ (orc_gate'.main = "start" => orc_gate.main = "start")
<1>1. CASE OG!MainCheck
  BY <1>1 DEF OG!MainCheck, OG!GateInv, OG!Gate
<1>2. CASE OG!MainLock
  BY <1>2 DEF OG!MainLock, OG!GateInv, OG!Gate
<1>3. CASE OG!MainTest
  BY <1>3 DEF OG!MainTest, OG!GateInv, OG!Gate
<1>4. CASE OG!MainSleep
  BY <1>4 DEF OG!MainSleep, OG!GateInv, OG!Gate
<1>5. CASE OG!MainLeave
  BY <1>5 DEF OG!MainLeave, OG!GateInv, OG!Gate
<1>6. CASE OG!HandlerLock
  BY <1>6 DEF OG!HandlerLock, OG!GateInv, OG!Gate
<1>7. CASE OG!HandlerNotify
  BY <1>7 DEF OG!HandlerNotify, OG!GateInv, OG!Gate, OG!Notified
<1>8. CASE OG!IoNotify
  BY <1>8, ZenonT(40) DEF OG!IoNotify, OG!GateInv, OG!Gate, OG!Notified
<1>9. CASE OG!IoFails
  BY <1>9 DEF OG!IoFails, OG!GateInv, OG!Gate
<1>10. ASSUME NEW main_thread \in BOOLEAN, OG!Signal(main_thread)
       PROVE  OG!GateInv' /\ (orc_gate'.main = "start" => orc_gate.main = "start")
  BY <1>10 DEF OG!Signal, OG!GateInv, OG!Gate
<1> QED
  BY <1>1, <1>2, <1>3, <1>4, <1>5, <1>6, <1>7, <1>8, <1>9, <1>10 DEF OG!GateMain, OG!GateHandler

(* systemd and the daemon leave the gate of the daemon closed, as it is, or  *)
(* as one of its steps leaves it.                                            *)
LEMMA DaemonKeeps ==
  ASSUME TG!GateInv,
         \/ Systemd \/ TpcMain \/ TpcDaq \/ TpcHandler \/ TpcIo \/ DaqCommand
         \/ TpcSignal(FALSE) \/ TpcIoFails
  PROVE  TG!GateInv'
<1>1. CASE tpc_gate' = TG!Closed
  BY <1>1 DEF TG!GateInv, TG!Gate, TG!Closed
<1>2. CASE UNCHANGED tpc_gate
  BY <1>2 DEF TG!GateInv
<1>3. CASE \/ TG!GateMain \/ TG!GateHandler \/ TG!IoNotify \/ TG!IoFails
           \/ \E main_thread \in BOOLEAN : TG!Signal(main_thread)
  BY <1>3, TGSteps
<1>4. CASE TpcMainStart
  BY <1>4 DEF TpcMainStart, TG!GateInv, TG!Gate, TG!MainFree
<1>5. CASE TpcMainPtr \/ TpcMainSetRunning \/ TpcMainJoin
  BY <1>5 DEF TpcMainPtr, TpcMainSetRunning, TpcMainJoin, TG!GateInv, TG!Gate
<1>6. CASE Systemd
  BY <1>1, <1>2, <1>3, <1>6
     DEF Systemd, SystemdStart, SystemdTerm, SystemdKill, SystemdReap, TpcSignal
<1>7. CASE TpcMain \/ TpcHandler \/ TpcIo \/ TpcSignal(FALSE) \/ TpcIoFails
  BY <1>3, <1>4, <1>5, <1>7 DEF TpcMain, TpcHandler, TpcIo, Tpc, TpcSignal, TpcIoFails
<1>8. CASE TpcDaq \/ DaqCommand
  BY <1>2, <1>8 DEF TpcDaq, Tpc, DaqConstruct, DaqRun, DaqLoop, DaqReadStopped, DaqDestroy,
                       DaqCommand
<1> QED
  BY <1>6, <1>7, <1>8
-----------------------------------------------------------------------------
(* A step that changes none of what the invariant of the orchestrator is     *)
(* about, and that adds no unit to the wanted ones.                          *)
LEMMA QuietKeeps ==
  ASSUME OrcInv, orc' \in Orc, wanted' \subseteq wanted,
         orc_gate'.main = "start" => orc_gate.main = "start",
         orc'.proc = orc.proc, orc'.cmd = orc.cmd, orc'.next = orc.next,
         orc'.status = orc.status, orc'.joinable = orc.joinable,
         orc'.g_status_running = orc.g_status_running, orc'.asked = orc.asked,
         orc'.unopened = orc.unopened, orc'.unfit = orc.unfit, orc'.refused = orc.refused
  PROVE  OrcInv'
<1>1. StatusInv'
  BY DEF OrcInv, StatusInv
<1>2. EndInv'
  BY DEF OrcInv, EndInv
<1> QED
  BY <1>1, <1>2 DEF OrcInv

(* The process fails: nothing is left of its threads.                        *)
LEMMA FailedKeeps ==
  ASSUME OrcInv,
         orc' = Failed \/ \E refused \in BOOLEAN : orc' = [Failed EXCEPT !.refused = refused]
  PROVE  OrcInv'
<1>1. /\ orc' \in Orc /\ orc'.proc = "failed" /\ orc'.cmd = "none" /\ orc'.next = "loop"
      /\ orc'.status = "done" /\ orc'.joinable = FALSE /\ orc'.g_status_running = FALSE
      /\ orc'.asked = FALSE
  BY ZenonT(40) DEF Failed, OrcStarting, Orc
<1>2. StatusInv' /\ EndInv'
  BY <1>1 DEF StatusInv, EndInv, Waits
<1> QED
  BY <1>1, <1>2 DEF OrcInv

(* The steps of the status thread, of the thread that joins it and of the    *)
(* command thread that leave the gate and the units alone.                   *)
LEMMA ThreadsKeep ==
  ASSUME OrcInv,
         \/ StatusOpen \/ StatusLoop \/ StatusSend \/ JoinThread
         \/ CmdLoop \/ CmdReadStopped \/ WaitReturns \/ WaitExpires
  PROVE  OrcInv'
<1>0. orc \in Orc /\ StatusInv /\ EndInv /\ UNCHANGED <<orc_gate, wanted>>
  BY DEF OrcInv, StatusOpen, StatusLoop, StatusSend, JoinThread, CmdLoop, CmdReadStopped,
         WaitReturns, WaitExpires
<1>1. CASE StatusOpen
  <2>1. /\ orc' \in Orc /\ orc'.status \in {"loop", "done"}
        /\ orc'.unopened = IF orc'.status = "done" THEN TRUE ELSE orc.unopened
        /\ orc'.proc = orc.proc /\ orc'.cmd = orc.cmd /\ orc'.next = orc.next
        /\ orc'.joinable = orc.joinable
        /\ orc'.g_status_running = orc.g_status_running /\ orc'.asked = orc.asked
        /\ orc'.unfit = orc.unfit /\ orc'.refused = orc.refused
    BY <1>0, <1>1 DEF StatusOpen, Orc
  <2>2. StatusInv'
    BY <1>0, <1>1, <2>1 DEF StatusOpen, StatusInv, Waits, Orc
  <2>3. EndInv'
    BY <1>0, <1>1, <2>1 DEF StatusOpen, EndInv, Waits, Orc
  <2> QED
    BY <2>1, <2>2, <2>3 DEF OrcInv
<1>2. CASE StatusLoop
  <2>1. /\ orc' \in Orc /\ orc'.status = IF orc.g_status_running THEN "send" ELSE "done"
        /\ orc'.proc = orc.proc /\ orc'.cmd = orc.cmd /\ orc'.next = orc.next
        /\ orc'.joinable = orc.joinable
        /\ orc'.g_status_running = orc.g_status_running /\ orc'.asked = orc.asked
        /\ orc'.unopened = orc.unopened /\ orc'.unfit = orc.unfit
        /\ orc'.refused = orc.refused
    BY <1>0, <1>2 DEF StatusLoop, Orc
  <2>2. StatusInv'
    BY <1>0, <1>2, <2>1 DEF StatusLoop, StatusInv, Waits, Orc
  <2>3. EndInv'
    BY <1>0, <1>2, <2>1 DEF StatusLoop, EndInv, Waits, Orc
  <2> QED
    BY <2>1, <2>2, <2>3 DEF OrcInv
<1>3. CASE StatusSend
  <2>1. /\ orc' \in Orc /\ orc'.status = "loop"
        /\ orc'.proc = orc.proc /\ orc'.cmd = orc.cmd /\ orc'.next = orc.next
        /\ orc'.joinable = orc.joinable
        /\ orc'.g_status_running = orc.g_status_running /\ orc'.asked = orc.asked
        /\ orc'.unopened = orc.unopened /\ orc'.unfit = orc.unfit
        /\ orc'.refused = orc.refused
    BY <1>0, <1>3 DEF StatusSend, Orc
  <2>2. StatusInv'
    BY <1>0, <1>3, <2>1 DEF StatusSend, StatusInv, Waits, Orc
  <2>3. EndInv'
    BY <1>0, <1>3, <2>1 DEF StatusSend, EndInv, Waits, Orc
  <2> QED
    BY <2>1, <2>2, <2>3 DEF OrcInv
<1>4. CASE JoinThread
  <2>1. /\ orc' \in Orc /\ orc'.joinable = FALSE
        /\ orc'.proc = orc.proc /\ orc'.cmd = orc.cmd /\ orc'.next = orc.next
        /\ orc'.status = orc.status
        /\ orc'.g_status_running = orc.g_status_running /\ orc'.asked = orc.asked
        /\ orc'.unopened = orc.unopened /\ orc'.unfit = orc.unfit
        /\ orc'.refused = orc.refused
    BY <1>0, <1>4 DEF JoinThread, Orc
  <2>2. StatusInv'
    BY <1>0, <1>4, <2>1 DEF JoinThread, StatusInv, Waits, Orc
  <2>3. EndInv'
    BY <1>0, <1>4, <2>1 DEF JoinThread, EndInv, Waits, Orc
  <2> QED
    BY <2>1, <2>2, <2>3 DEF OrcInv
<1>5. CASE CmdLoop
  <2>1. /\ orc' \in Orc /\ orc'.cmd \in {"read", "end"}
        /\ orc'.proc = orc.proc /\ orc'.next = orc.next
        /\ orc'.status = orc.status /\ orc'.joinable = orc.joinable
        /\ orc'.g_status_running = orc.g_status_running /\ orc'.asked = orc.asked
        /\ orc'.unopened = orc.unopened /\ orc'.unfit = orc.unfit
        /\ orc'.refused = orc.refused
    BY <1>0, <1>5 DEF CmdLoop, Orc
  <2>2. StatusInv'
    BY <1>0, <1>5, <2>1 DEF CmdLoop, StatusInv, Waits, Orc
  <2>3. EndInv'
    BY <1>0, <1>5, <2>1 DEF CmdLoop, EndInv, Waits, Orc
  <2> QED
    BY <2>1, <2>2, <2>3 DEF OrcInv
<1>6. CASE CmdReadStopped
  <2>1. /\ orc' \in Orc /\ orc'.cmd = "loop"
        /\ orc'.proc = orc.proc /\ orc'.next = orc.next
        /\ orc'.status = orc.status /\ orc'.joinable = orc.joinable
        /\ orc'.g_status_running = orc.g_status_running /\ orc'.asked = orc.asked
        /\ orc'.unopened = orc.unopened /\ orc'.unfit = orc.unfit
        /\ orc'.refused = orc.refused
    BY <1>0, <1>6 DEF CmdReadStopped, Orc
  <2>2. StatusInv'
    BY <1>0, <1>6, <2>1 DEF CmdReadStopped, StatusInv, Waits, Orc
  <2>3. EndInv'
    BY <1>0, <1>6, <2>1 DEF CmdReadStopped, EndInv, Waits, Orc
  <2> QED
    BY <2>1, <2>2, <2>3 DEF OrcInv
<1>7. CASE WaitReturns
  <2>1. /\ orc' \in Orc /\ orc'.cmd = orc.next
        /\ orc'.proc = orc.proc /\ orc'.next = orc.next
        /\ orc'.status = orc.status /\ orc'.joinable = orc.joinable
        /\ orc'.g_status_running = orc.g_status_running /\ orc'.asked = orc.asked
        /\ orc'.unopened = orc.unopened /\ orc'.unfit = orc.unfit
        /\ orc'.refused = orc.refused
    BY <1>0, <1>7 DEF WaitReturns, Orc
  <2>2. StatusInv'
    BY <1>0, <1>7, <2>1 DEF WaitReturns, StatusInv, Waits, Orc
  <2>3. EndInv'
    BY <1>0, <1>7, <2>1 DEF WaitReturns, EndInv, Waits, Orc
  <2> QED
    BY <2>1, <2>2, <2>3 DEF OrcInv
<1>8. CASE WaitExpires
  <2>0. PICK to \in {"cancel", "term", "kill"} : orc' = [orc EXCEPT !.cmd = to]
    BY <1>8 DEF WaitExpires
  <2>1. /\ orc' \in Orc /\ orc'.cmd \in {"cancel", "term", "kill"}
        /\ orc'.proc = orc.proc /\ orc'.next = orc.next
        /\ orc'.status = orc.status /\ orc'.joinable = orc.joinable
        /\ orc'.g_status_running = orc.g_status_running /\ orc'.asked = orc.asked
        /\ orc'.unopened = orc.unopened /\ orc'.unfit = orc.unfit
        /\ orc'.refused = orc.refused
    BY <1>0, <2>0 DEF Orc, Waits
  <2>2. StatusInv'
    BY <1>0, <1>8, <2>1 DEF WaitExpires, StatusInv, Waits, Orc
  <2>3. EndInv'
    BY <1>0, <1>8, <2>1 DEF WaitExpires, EndInv, Waits, Orc
  <2> QED
    BY <2>1, <2>2, <2>3 DEF OrcInv
<1> QED
  BY <1>1, <1>2, <1>3, <1>4, <1>5, <1>6, <1>7, <1>8

(* The calls that end a slow status thread.                                  *)
LEMMA EndStatusKeeps ==
  ASSUME OrcInv, OG!GateInv, CancelStatus \/ TermStatus \/ KillStatus
  PROVE  OrcInv' /\ OG!GateInv'
<1>0. orc \in Orc /\ StatusInv /\ EndInv /\ wanted' = wanted /\ orc.cmd \in Waits
  BY DEF OrcInv, CancelStatus, TermStatus, KillStatus, Gone, Waits
<1>1. OG!GateInv' /\ (orc_gate'.main = "start" => orc_gate.main = "start")
  <2>1. OG!Signal(FALSE) \/ orc_gate' = orc_gate
    BY DEF CancelStatus, TermStatus, KillStatus, Gone
  <2>2. CASE OG!Signal(FALSE)
    BY <2>2, OGSteps
  <2>3. CASE orc_gate' = orc_gate
    BY <2>3 DEF OG!GateInv
  <2> QED
    BY <2>1, <2>2, <2>3
<1>2. CASE orc' = Failed
  BY <1>1, <1>2, FailedKeeps
<1>3. CASE orc' # Failed
  <2>1. PICK on \in {"wait2", "wait3"}, to \in {orc.status, "done"} :
          \/ orc' = [orc EXCEPT !.cmd = on]
          \/ orc' = [orc EXCEPT !.cmd = on, !.status = to]
    BY <1>3 DEF CancelStatus, TermStatus, KillStatus, Gone
  <2>2. /\ orc' \in Orc /\ orc'.cmd \in Waits /\ orc'.status \in {orc.status, "done"}
        /\ orc'.proc = orc.proc /\ orc'.next = orc.next
        /\ orc'.joinable = orc.joinable
        /\ orc'.g_status_running = orc.g_status_running /\ orc'.asked = orc.asked
        /\ orc'.unopened = orc.unopened /\ orc'.unfit = orc.unfit
        /\ orc'.refused = orc.refused
    BY <1>0, <2>1, ZenonT(40) DEF Orc, Waits
  <2>3. StatusInv'
    BY <1>0, <2>2 DEF StatusInv, Waits
  <2>4. EndInv'
    BY <1>0, <1>1, <2>2 DEF EndInv, Waits
  <2> QED
    BY <1>1, <2>2, <2>3, <2>4 DEF OrcInv
<1> QED
  BY <1>2, <1>3

(* Commands, and what the command thread does after its loop.                *)
LEMMA CommandsKeep ==
  ASSUME OrcInv, OrcCommand \/ CmdEnd
  PROVE  OrcInv'
<1>0. orc \in Orc /\ StatusInv /\ EndInv /\ orc_gate' = orc_gate /\ orc.cmd \in {"read", "end"}
  BY DEF OrcInv, OrcCommand, StartStatus, StopStatus, Boot, Shutdown, Receive, CmdEnd
<1>1. /\ orc.next # "done" /\ orc_gate.main # "start"
      /\ orc.joinable = orc.asked /\ orc.g_status_running = orc.asked
      /\ orc.asked => (orc.status = "done") = orc.unopened
      /\ orc.status # "done" => orc.joinable
  BY <1>0 DEF StatusInv, EndInv, Waits
<1>2. CASE orc' = Failed
  BY <1>2, FailedKeeps
<1>3. CASE StartStatus /\ orc' # Failed
  <2>1. /\ orc' \in Orc /\ orc'.cmd = "loop" /\ orc'.asked = TRUE
        /\ orc'.joinable = TRUE /\ orc'.g_status_running = TRUE
        /\ (orc'.status = "done") = orc'.unopened
        /\ orc'.proc = orc.proc /\ orc'.next = orc.next /\ orc'.unfit = orc.unfit
        /\ orc'.refused = orc.refused
        /\ wanted' = wanted
    <3>1. CASE orc.joinable
      BY <1>0, <1>1, <1>3, <3>1, ZenonT(40) DEF StartStatus, Handled, Orc
    <3>2. CASE ~orc.joinable
      BY <1>0, <1>1, <1>3, <3>2, ZenonT(40) DEF StartStatus, Handled, Orc
    <3> QED
      BY <3>1, <3>2
  <2>2. StatusInv'
    BY <2>1 DEF StatusInv, Waits
  <2>3. EndInv'
    BY <1>0, <1>1, <2>1 DEF EndInv
  <2> QED
    BY <2>1, <2>2, <2>3 DEF OrcInv
<1>4. CASE StopStatus /\ orc' # Failed
  <2>1. /\ orc' \in Orc /\ orc'.cmd = "wait1" /\ orc'.next = "loop" /\ orc'.asked = FALSE
        /\ orc'.g_status_running = FALSE
        /\ orc'.proc = orc.proc /\ orc'.status = orc.status
        /\ orc'.joinable = orc.joinable /\ orc'.unfit = orc.unfit
        /\ orc'.refused = orc.refused
        /\ orc.proc = "up" /\ wanted' = wanted
    BY <1>0, <1>4, ZenonT(40) DEF StopStatus, Receive, EndStatus, Handled, Orc, Waits
  <2>2. StatusInv'
    BY <1>1, <2>1 DEF StatusInv, Waits
  <2>3. EndInv'
    BY <1>0, <1>1, <2>1 DEF EndInv
  <2> QED
    BY <2>1, <2>2, <2>3 DEF OrcInv
<1>5. ASSUME NEW units, Boot(units) \/ Shutdown(units)
      PROVE  OrcInv'
  <2>1. /\ orc' \in Orc /\ orc'.cmd = "loop"
        /\ orc'.proc = orc.proc /\ orc'.next = orc.next
        /\ orc'.status = orc.status /\ orc'.joinable = orc.joinable
        /\ orc'.g_status_running = orc.g_status_running /\ orc'.asked = orc.asked
        /\ orc'.unopened = orc.unopened /\ orc'.unfit = orc.unfit
        /\ orc.proc = "up"
    <3>1. Handled("units") \in Orc
      BY <1>0 DEF Handled, Orc
    <3>2. CASE Boot(units)
      BY <1>0, <3>2 DEF Boot, Receive, Handled, Orc
    <3>3. CASE Shutdown(units)
      <4>1. PICK refused \in BOOLEAN : orc' = [Handled("units") EXCEPT !.refused = refused]
        BY <3>1, <3>3 DEF Shutdown, StopUnits
      <4> QED
        BY <1>0, <3>3, <4>1 DEF Shutdown, Receive, Handled, Orc
    <3> QED
      BY <1>5, <3>2, <3>3
  <2>2. StatusInv'
    BY <1>1, <2>1 DEF StatusInv, Waits
  <2>3. EndInv'
    BY <1>0, <1>1, <2>1 DEF EndInv
  <2> QED
    BY <2>1, <2>2, <2>3 DEF OrcInv
<1>6. CASE CmdEnd
  <2>1. PICK record \in EndStatus(orc, "done") : StopUnits(Daq, record)
    BY <1>6 DEF CmdEnd
  <2>2. PICK failed \in SUBSET Daq :
          /\ wanted' = wanted \ (Daq \ failed)
          /\ orc' = [record EXCEPT !.refused = @ \/ failed # {}]
    BY <2>1 DEF StopUnits
  <2>3. record \in Orc /\ record.refused \in BOOLEAN
    BY <1>0, ZenonT(40) DEF EndStatus, Failed, OrcStarting, Orc, Waits
  <2>4. PICK refused \in BOOLEAN :
          orc' = [record EXCEPT !.refused = refused] /\ (failed # {} => refused)
    BY <2>2, <2>3
  <2>5. CASE record = Failed
    BY <2>4, <2>5, FailedKeeps
  <2>6. CASE record # Failed
    <3>1. /\ orc' \in Orc /\ orc'.cmd = "wait1" /\ orc'.next = "done" /\ orc'.refused = refused
          /\ orc'.g_status_running = FALSE
          /\ orc'.proc = orc.proc /\ orc'.status = orc.status
          /\ orc'.joinable = orc.joinable /\ orc'.unfit = orc.unfit
      BY <1>0, <2>4, <2>6 DEF EndStatus, Orc, Waits
    <3>2. orc'.refused \/ wanted' \cap Daq = {}
      BY <2>2, <2>4, <3>1
    <3>3. StatusInv'
      BY <1>1, <3>1 DEF StatusInv, Waits
    <3>4. EndInv'
      BY <1>0, <1>1, <3>1, <3>2 DEF EndInv, Waits
    <3> QED
      BY <3>1, <3>3, <3>4 DEF OrcInv
  <2> QED
    BY <2>5, <2>6
<1> QED
  BY <1>2, <1>3, <1>4, <1>5, <1>6 DEF OrcCommand

(* The steps of main, the signal handler and the I/O threads.                *)
LEMMA MainKeeps ==
  ASSUME OrcInv, OG!GateInv, OrcMain \/ OrcHandler \/ OrcIo
  PROVE  OrcInv' /\ OG!GateInv'
<1>0. orc \in Orc /\ StatusInv /\ EndInv /\ wanted' = wanted
  BY DEF OrcInv, OrcMain, OrcHandler, OrcIo, Up, Gated, OrcMainStart, OrcMainAd3,
         OrcMainStopRead, OrcMainJoin
<1>1. CASE OrcMainStart
  <2>1. OG!GateInv' /\ orc_gate.main = "start" /\ orc_gate'.main = "ad3"
    BY <1>1 DEF OrcMainStart, OG!GateInv, OG!Gate
  <2>2. PICK cmd \in {"loop", "done"}, unfit \in BOOLEAN :
          /\ orc' = [orc EXCEPT !.cmd = cmd, !.unfit = unfit]
          /\ cmd = "done" => unfit
    <3>1. /\ orc.unfit \in BOOLEAN
          /\ [orc EXCEPT !.cmd = "loop"] = [orc EXCEPT !.cmd = "loop", !.unfit = orc.unfit]
      BY <1>0 DEF Orc
    <3> QED
      BY <1>1, <3>1 DEF OrcMainStart
  <2>3. /\ orc' \in Orc /\ orc'.cmd = cmd /\ orc'.unfit = unfit
        /\ orc'.proc = orc.proc /\ orc'.next = orc.next
        /\ orc'.status = orc.status /\ orc'.joinable = orc.joinable
        /\ orc'.g_status_running = orc.g_status_running /\ orc'.asked = orc.asked
        /\ orc'.unopened = orc.unopened /\ orc'.refused = orc.refused
    BY <1>0, <2>2 DEF Orc
  <2>4. orc.cmd = "none" /\ orc.next # "done" /\ (orc.proc = "clean" => orc.unfit)
    BY <1>0, <2>1 DEF EndInv, Waits
  <2>5. StatusInv'
    BY <1>0, <2>3, <2>4 DEF StatusInv, Waits
  <2>6. EndInv'
    <3>1. orc.proc = "up"
      BY <1>1 DEF OrcMainStart, OrcMain, OrcHandler, OrcIo, Up
    <3> QED
      BY <2>1, <2>2, <2>3, <2>4, <3>1 DEF EndInv
  <2> QED
    BY <2>1, <2>3, <2>5, <2>6 DEF OrcInv
<1>2. CASE OrcMainAd3
  <2>1. OG!GateInv' /\ orc_gate'.main = "check" /\ orc' = orc
    BY <1>2 DEF OrcMainAd3, OG!GateInv, OG!Gate
  <2> QED
    BY <1>0, <2>1, QuietKeeps
<1>3. CASE OrcMainStopRead
  <2>1. OG!GateInv' /\ orc_gate'.main = "leave"
    BY <1>3 DEF OrcMainStopRead, OG!GateInv, OG!Gate
  <2>2. /\ orc' \in Orc
        /\ orc'.proc = orc.proc /\ orc'.cmd = orc.cmd /\ orc'.next = orc.next
        /\ orc'.status = orc.status /\ orc'.joinable = orc.joinable
        /\ orc'.g_status_running = orc.g_status_running /\ orc'.asked = orc.asked
        /\ orc'.unopened = orc.unopened /\ orc'.unfit = orc.unfit
        /\ orc'.refused = orc.refused
    BY <1>0, <1>3 DEF OrcMainStopRead, Orc
  <2> QED
    BY <1>0, <2>1, <2>2, QuietKeeps
<1>4. CASE OrcMainJoin
  <2>1. OG!GateInv' /\ orc_gate'.main = "exit"
    BY <1>4 DEF OrcMainJoin, OG!GateInv, OG!Gate, OG!Closed
  <2>2. /\ orc' \in Orc /\ orc'.proc = "clean" /\ orc.cmd = "done"
        /\ orc'.cmd = orc.cmd /\ orc'.next = orc.next /\ orc'.status = orc.status
        /\ orc'.joinable = orc.joinable
        /\ orc'.g_status_running = orc.g_status_running /\ orc'.asked = orc.asked
        /\ orc'.unopened = orc.unopened /\ orc'.unfit = orc.unfit
        /\ orc'.refused = orc.refused
    BY <1>0, <1>4 DEF OrcMainJoin, Orc
  <2>3. StatusInv'
    BY <1>0, <2>2 DEF StatusInv
  <2>4. EndInv'
    BY <1>0, <2>1, <2>2 DEF EndInv
  <2> QED
    BY <2>1, <2>2, <2>3, <2>4 DEF OrcInv
<1>5. CASE Gated(OG!GateMain) \/ Gated(OG!GateHandler) \/ Gated(OG!IoNotify)
  <2>1. orc' = orc /\ (OG!GateMain \/ OG!GateHandler \/ OG!IoNotify)
    BY <1>5 DEF Gated
  <2>2. OG!GateInv' /\ (orc_gate'.main = "start" => orc_gate.main = "start")
    BY <2>1, OGSteps
  <2> QED
    BY <1>0, <2>1, <2>2, QuietKeeps
<1> QED
  BY <1>1, <1>2, <1>3, <1>4, <1>5 DEF OrcMain, OrcHandler, OrcIo, Up

(* The orchestrator is told to end from outside.                             *)
LEMMA ToldKeeps ==
  ASSUME OrcInv, OG!GateInv, OrcSignal \/ OrcIoFails
  PROVE  OrcInv' /\ OG!GateInv'
<1>0. orc \in Orc /\ wanted' = wanted
  BY DEF OrcInv, OrcSignal, OrcIoFails
<1>1. PICK early \in BOOLEAN : orc' = [orc EXCEPT !.early = early, !.told = TRUE]
  <2>1. orc.early \in BOOLEAN
    BY <1>0 DEF Orc
  <2>2. BeforeWait \in BOOLEAN
    BY <2>1 DEF BeforeWait
  <2> QED
    BY <2>2 DEF OrcSignal, OrcIoFails
<1>2. /\ orc' \in Orc
      /\ orc'.proc = orc.proc /\ orc'.cmd = orc.cmd /\ orc'.next = orc.next
      /\ orc'.status = orc.status /\ orc'.joinable = orc.joinable
      /\ orc'.g_status_running = orc.g_status_running /\ orc'.asked = orc.asked
      /\ orc'.unopened = orc.unopened /\ orc'.unfit = orc.unfit
      /\ orc'.refused = orc.refused
  BY <1>0, <1>1 DEF Orc
<1>3. OG!GateInv' /\ (orc_gate'.main = "start" => orc_gate.main = "start")
  <2>1. OG!IoFails \/ \E main_thread \in BOOLEAN : OG!Signal(main_thread)
    BY DEF OrcSignal, OrcIoFails
  <2> QED
    BY <2>1, OGSteps
<1> QED
  BY <1>0, <1>2, <1>3, QuietKeeps

(* systemd and the daemon do not touch the orchestrator, and systemd drops a *)
(* unit from the wanted ones but adds none.                                  *)
LEMMA OthersKeep ==
  ASSUME OrcInv, OG!GateInv, UNCHANGED orc_vars, wanted' \subseteq wanted
  PROVE  OrcInv' /\ OG!GateInv'
<1>1. orc' = orc /\ orc_gate' = orc_gate
  BY DEF orc_vars
<1>2. OG!GateInv'
  BY <1>1 DEF OG!GateInv
<1> QED
  BY <1>1, <1>2, QuietKeeps DEF OrcInv
-----------------------------------------------------------------------------
(* The invariant holds when the orchestrator is started.                     *)
LEMMA ServicesInitially == Init => ServicesInv
<1> SUFFICES ASSUME Init PROVE ServicesInv
  OBVIOUS
<1>1. TG!GateInv /\ OG!GateInv
  BY DEF Init, OrcInit, TG!GateInv, TG!Gate, TG!Closed, OG!GateInv, OG!Gate, OG!Closed
<1>2. PICK kind \in {"any", "units"} : orc = [OrcStarting EXCEPT !.kind = kind]
  BY DEF Init, OrcInit
<1>3. /\ orc \in Orc /\ orc.proc = "up" /\ orc.cmd = "none" /\ orc.next = "loop"
      /\ orc.status = "done" /\ orc.joinable = FALSE /\ orc.g_status_running = FALSE
      /\ orc.asked = FALSE
  BY <1>2 DEF OrcStarting, Orc
<1>4. StatusInv /\ EndInv
  BY <1>3 DEF StatusInv, EndInv, Waits
<1> QED
  BY <1>1, <1>3, <1>4 DEF ServicesInv, OrcInv

(* Every step keeps the invariant.                                           *)
LEMMA ServicesStep == ServicesInv /\ [Next]_vars => ServicesInv'
<1> SUFFICES ASSUME TG!GateInv, OG!GateInv, OrcInv, [Next]_vars PROVE ServicesInv'
  BY DEF ServicesInv
<1>0. CASE UNCHANGED tpc_vars /\ OrcInv' /\ OG!GateInv'
  BY <1>0 DEF tpc_vars, TG!GateInv, ServicesInv
<1>1. CASE Systemd
  <2>1. OrcInv' /\ OG!GateInv'
    BY <1>1, OthersKeep DEF Systemd, SystemdStart, SystemdTerm, SystemdKill, SystemdReap
  <2> QED
    BY <1>1, <2>1, DaemonKeeps DEF ServicesInv
<1>2. CASE Fault
  <2>1. CASE (TpcSignal(FALSE) \/ TpcIoFails) /\ UNCHANGED <<orc_vars, wanted>>
    BY <2>1, OthersKeep, DaemonKeeps DEF ServicesInv
  <2>2. CASE (OrcSignal \/ OrcIoFails) /\ UNCHANGED tpc_vars
    BY <1>0, <2>2, ToldKeeps
  <2> QED
    BY <1>2, <2>1, <2>2 DEF Fault
<1>3. CASE Tpc_(TpcMain \/ TpcDaq \/ TpcHandler \/ TpcIo \/ DaqCommand)
  BY <1>3, OthersKeep, DaemonKeeps DEF Tpc_, ServicesInv
<1>4. CASE Orc_(\/ OrcMain \/ OrcHandler \/ OrcIo \/ OrcStatus \/ OrcJoin \/ OrcCmd
                \/ Up(WaitExpires) \/ OrcCommand)
  <2>1. OrcInv' /\ OG!GateInv'
    <3>1. CASE OrcMain \/ OrcHandler \/ OrcIo
      BY <3>1, MainKeeps
    <3>2. CASE CancelStatus \/ TermStatus \/ KillStatus
      BY <3>2, EndStatusKeeps
    <3>3. CASE \/ StatusOpen \/ StatusLoop \/ StatusSend \/ JoinThread
               \/ CmdLoop \/ CmdReadStopped \/ WaitReturns \/ WaitExpires
      <4>1. orc_gate' = orc_gate
        BY <3>3 DEF StatusOpen, StatusLoop, StatusSend, JoinThread, CmdLoop, CmdReadStopped,
                    WaitReturns, WaitExpires
      <4> QED
        BY <3>3, <4>1, ThreadsKeep DEF OG!GateInv
    <3>4. CASE OrcCommand \/ CmdEnd
      <4>1. orc_gate' = orc_gate
        BY <3>4 DEF OrcCommand, StartStatus, StopStatus, Boot, Shutdown, Receive, CmdEnd
      <4> QED
        BY <3>4, <4>1, CommandsKeep DEF OG!GateInv
    <3> QED
      BY <1>4, <3>1, <3>2, <3>3, <3>4 DEF Orc_, OrcStatus, OrcJoin, OrcCmd, Up
  <2> QED
    BY <1>0, <1>4, <2>1 DEF Orc_
<1>5. CASE UNCHANGED vars
  <2>1. UNCHANGED tpc_vars /\ UNCHANGED orc_vars /\ wanted' = wanted
    BY <1>5 DEF vars
  <2> QED
    BY <1>0, <2>1, OthersKeep
<1> QED
  BY <1>1, <1>2, <1>3, <1>4, <1>5 DEF Next

(* The inductive invariant holds in every state of every behaviour.          *)
THEOREM ServicesInvariant == FairSpec => []ServicesInv
  BY ServicesInitially, ServicesStep, PTL DEF FairSpec

(* Told to end, neither the TPC daemon nor the orchestrator sleeps through   *)
(* it, except in the window that the unlocked notification leaves            *)
(* (tpc_daq.cpp:58-66, 229-230, orchestrator.cpp:94-102, 835-836).           *)
THEOREM SleepersWokenHolds == FairSpec => []SleepersWoken
<1>1. ServicesInv => SleepersWoken
  BY DEF ServicesInv, TG!GateInv, OG!GateInv, TG!Heard, OG!Heard, SleepersWoken
<1> QED
  BY <1>1, ServicesInvariant, PTL

(* When the next command is awaited the status is sent exactly if the last   *)
(* status command was Start and the thread could reach the system bus        *)
(* (orchestrator.cpp:415-424, 451-472, 592-599, 641-645).                    *)
THEOREM StatusAsAskedHolds == FairSpec => []StatusAsAsked
<1>1. ServicesInv => StatusAsAsked
  BY DEF ServicesInv, OrcInv, Orc, StatusInv, StatusAsAsked
<1> QED
  BY <1>1, ServicesInvariant, PTL

(* When the orchestrator has ended no DAQ unit is wanted any more, unless    *)
(* systemd refused or the orchestrator had failed to initialise              *)
(* (orchestrator.cpp:586, 746-751, 812-818).                                 *)
THEOREM UnitsEndHolds == FairSpec => []UnitsEnd
<1>1. ServicesInv => UnitsEnd
  BY DEF ServicesInv, OrcInv, EndInv, UnitsEnd
<1> QED
  BY <1>1, ServicesInvariant, PTL
=============================================================================
