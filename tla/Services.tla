------------------------------ MODULE Services ------------------------------
(***************************************************************************)
(* The orchestrator and the TPC daemon under systemd, which starts the     *)
(* daemon when the orchestrator asks, sends it SIGTERM when it is to stop, *)
(* kills it if it does not, and starts it again when it has failed         *)
(* (tpc_daq.service).  systemd is external.                                *)
(***************************************************************************)
EXTENDS TpcDaemon, Orchestrator

CONSTANTS
  MaxStarts,   \* bound: starts of the daemon
  MaxFaults    \* bound: signals from outside and failures of the I/O threads

ASSUME ServicesAssumption == MaxStarts \in Nat /\ MaxFaults \in Nat

VARIABLES starts, faults

tpc_vars == <<tpc_gate, tpc>>
orc_vars == <<orc_gate, orc>>
vars == <<tpc_vars, orc_vars, wanted, starts, faults>>

TypeOK ==
  /\ tpc_gate \in TG!Gate /\ tpc \in Daemon
  /\ orc_gate \in OG!Gate /\ orc \in Orc /\ wanted \subseteq Units
  /\ starts \in 0 .. MaxStarts /\ faults \in 0 .. MaxFaults

Init ==
  /\ OrcInit
  /\ tpc_gate = TG!Closed /\ tpc = TpcOff
  /\ starts = 0 /\ faults = 0
-----------------------------------------------------------------------------
(* systemd. *)

SystemdStart ==
  /\ tpc.proc = "off" /\ "tpc" \in wanted /\ starts < MaxStarts
  /\ tpc_gate' = TG!Closed /\ tpc' = [TpcOff EXCEPT !.proc = "up"]
  /\ starts' = starts + 1
  /\ UNCHANGED <<orc_vars, wanted, faults>>

(* A signal that is being handled absorbs it. *)
SystemdTerm ==
  /\ tpc.proc = "up" /\ "tpc" \notin wanted /\ ~tpc.stopping
  /\ \/ TpcSignal(TRUE)
     \/ /\ tpc_gate.handler # "none" /\ UNCHANGED tpc_gate
        /\ tpc' = [tpc EXCEPT !.stopping = TRUE]
  /\ UNCHANGED <<orc_vars, wanted, starts, faults>>

(* The daemon will not end by itself. *)
Stuck == tpc.early \/ TG!Trapped \/ tpc_gate.lost

SystemdKill ==
  /\ tpc.proc = "up" /\ tpc.stopping /\ Stuck
  /\ tpc' = [tpc EXCEPT !.proc = "failed"]
  /\ UNCHANGED <<tpc_gate, orc_vars, wanted, starts, faults>>

(* A unit that ends cleanly by itself stays down, one that fails is started  *)
(* again, unless it is no longer wanted.                                     *)
SystemdReap ==
  /\ tpc.proc \in {"clean", "failed"}
  /\ tpc_gate' = TG!Closed /\ tpc' = TpcOff
  /\ wanted' = IF tpc.proc = "clean" /\ ~tpc.stopping THEN wanted \ {"tpc"} ELSE wanted
  /\ UNCHANGED <<orc_vars, starts, faults>>

Systemd == SystemdStart \/ SystemdTerm \/ SystemdKill \/ SystemdReap
-----------------------------------------------------------------------------
(* Signals from outside and failures of the I/O threads. *)
Fault ==
  /\ faults < MaxFaults /\ faults' = faults + 1
  /\ \/ (TpcSignal(FALSE) \/ TpcIoFails) /\ UNCHANGED <<orc_vars, wanted>>
     \/ (OrcSignal \/ OrcIoFails) /\ UNCHANGED tpc_vars
  /\ UNCHANGED starts

Tpc_(step) == step /\ UNCHANGED <<orc_vars, wanted, starts, faults>>
Orc_(step) == step /\ UNCHANGED <<tpc_vars, starts, faults>>

Next ==
  \/ Systemd \/ Fault
  \/ Tpc_(TpcMain \/ TpcDaq \/ TpcHandler \/ TpcIo \/ DaqCommand)
  \/ Orc_(\/ OrcMain \/ OrcHandler \/ OrcIo \/ OrcStatus \/ OrcJoin \/ OrcCmd
          \/ Up(WaitExpires) \/ OrcCommand)

(* Every thread runs; systemd acts.  Nothing is owed by the operator or by   *)
(* the clock.  Threads that end by themselves share a condition.             *)
FairSpec ==
  /\ Init /\ [][Next]_vars
  /\ WF_vars(Systemd)
  /\ WF_vars(Tpc_(TpcMain \/ TpcHandler \/ TpcIo)) /\ WF_vars(Tpc_(TpcDaq))
  /\ WF_vars(Orc_(OrcMain \/ OrcHandler \/ OrcIo \/ OrcJoin \/ OrcCmd))
  /\ WF_vars(Orc_(OrcStatus))
-----------------------------------------------------------------------------
(* Told to end, by a signal or by a failure of the I/O threads, the TPC      *)
(* daemon ends cleanly.  The exceptions: it was told while starting, where   *)
(* Run undoes SetRunning or nobody calls it; the handler caught              *)
(* main holding the mutex; the unlocked notification came just before the    *)
(* sleep; a run was active; the Controller had already been given up, for    *)
(* want of its initialisation or by an exception in its command loop         *)
(* (tpc_daq.cpp:52-75, 137-156, 225-276, controller.cpp:75-96, 554-567).     *)
DaemonEnds ==
  (tpc.proc = "up" /\ ~tpc_gate.g_running) ~>
     \/ tpc.proc = "clean" \/ Stuck
     \/ tpc.proc = "failed" /\ (tpc.run \/ tpc.quit)

(* When the TPC unit is no longer wanted its daemon comes to an end, or it   *)
(* is wanted again (orchestrator.cpp:536-578, 613-631).                      *)
StopReachesDaemon == "tpc" \notin wanted ~> (tpc.proc # "up" \/ "tpc" \in wanted)

(* Told to end, the orchestrator ends, unless it was told before main waits, *)
(* where the command thread is left in its read, or the handler or the       *)
(* notification hit the same two windows (orchestrator.cpp:88-111, 810-859). *)
OrchestratorEnds ==
  ~orc_gate.g_running ~> (orc.proc # "up" \/ orc.early \/ OG!Trapped \/ orc_gate.lost)

(* Told to end, neither process sleeps through it: while main waits for the  *)
(* end, somebody still has to notify it, except in the window that the       *)
(* unlocked notification of the I/O threads leaves.  This is what the empty  *)
(* critical section of the handlers is for                                   *)
(* (tpc_daq.cpp:58-66, 229-230, orchestrator.cpp:94-102, 835-836).           *)
SleepersWoken == TG!Heard /\ OG!Heard

(* Whatever order Start and Stop come in, and however slowly the status      *)
(* thread ends, when the next command is awaited the status is sent exactly  *)
(* if the last command was Start, unless the thread could not reach the      *)
(* system bus: then it has ended, and is not started again before a Stop     *)
(* (orchestrator.cpp:415-424, 451-472, 592-599, 641-645).                    *)
StatusAsAsked ==
  orc.proc = "up" /\ orc.cmd = "read" =>
    /\ orc.joinable = orc.asked
    /\ (orc.status # "done") = (orc.asked /\ ~orc.unopened)

(* When the orchestrator has ended no DAQ unit is wanted any more, unless    *)
(* systemd refused, or the orchestrator had failed to initialise and did not *)
(* get to stop what it found running (orchestrator.cpp:586, 746-751,         *)
(* 812-818).                                                                 *)
UnitsEnd ==
  orc.proc = "clean" => orc.refused \/ orc.unfit \/ wanted \cap Daq = {}
=============================================================================
