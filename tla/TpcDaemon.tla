----------------------------- MODULE TpcDaemon ------------------------------
(***************************************************************************)
(* The process of daemon/tpc_daq.cpp: main, and the thread that builds the *)
(* Controller, runs its command loop and destroys it.  What a command does *)
(* is RunControl; here it matters only whether a run is active when the    *)
(* Controller is destroyed.                                                *)
(***************************************************************************)
EXTENDS Integers

VARIABLES tpc_gate, tpc

TG == INSTANCE ShutdownGate WITH gate <- tpc_gate

Daemon == [
  proc       : {"off", "up", "clean", "failed"},    \* of the process
  daq        : {"none", "construct", "run", "loop", "read", "destroy", "done"},
  ptr        : BOOLEAN,      \* tpc_daq is not null
  is_running : BOOLEAN,      \* of the Controller
  stop_read  : BOOLEAN,      \* setStopCmdRead was called
  run        : BOOLEAN,      \* the data thread runs
  quit       : BOOLEAN,      \* history: the Controller was given up, untold
  early      : BOOLEAN,      \* history: told to end while starting
  stopping   : BOOLEAN ]     \* systemd has sent SIGTERM

TpcOff ==
  [proc |-> "off", daq |-> "none", ptr |-> FALSE, is_running |-> TRUE, stop_read |-> FALSE,
   run |-> FALSE, quit |-> FALSE, early |-> FALSE, stopping |-> FALSE]

Starting ==
  tpc.early \/ tpc.daq \in {"none", "construct", "run"} \/ tpc_gate.main \in {"start", "check"}

(* A signal, from outside or from systemd, and a failure of the I/O threads. *)

TpcSignal(by_systemd) ==
  /\ tpc.proc = "up" /\ \E main_thread \in BOOLEAN : TG!Signal(main_thread)
  /\ tpc' = [tpc EXCEPT !.early = Starting, !.stopping = @ \/ by_systemd]

TpcIoFails ==
  /\ tpc.proc = "up" /\ TG!IoFails
  /\ tpc' = [tpc EXCEPT !.early = Starting]
-----------------------------------------------------------------------------
(* main. *)

(* The threads; if one of them cannot be created there is none that builds a *)
(* Controller, and the flag is cleared.                                      *)
TpcMainStart ==
  /\ tpc_gate.main = "start" /\ TG!MainFree
  /\ \/ /\ tpc_gate' = [tpc_gate EXCEPT !.main = "check"]
        /\ tpc' = [tpc EXCEPT !.daq = "construct"]
     \/ /\ tpc_gate' = [tpc_gate EXCEPT !.main = "check", !.g_running = FALSE]
        /\ tpc' = [tpc EXCEPT !.daq = "done"]

TpcMainPtr ==
  /\ tpc_gate.main = "woken" /\ TG!MainFree
  /\ tpc_gate' = [tpc_gate EXCEPT !.main = IF tpc.ptr THEN "call" ELSE "leave"]
  /\ UNCHANGED tpc

SetRunningFlagOnly ==    \* mutant: the read of the next command is not ended
  /\ tpc_gate.main = "call" /\ TG!MainFree
  /\ tpc_gate' = [tpc_gate EXCEPT !.main = "leave"]
  /\ tpc' = [tpc EXCEPT !.is_running = FALSE]

(* SetRunning(false).  If the Controller was destroyed since main looked,    *)
(* the call is undefined: it goes unnoticed or ends the process.             *)
TpcMainSetRunning ==
  /\ tpc_gate.main = "call" /\ TG!MainFree
  /\ tpc_gate' = [tpc_gate EXCEPT !.main = "leave"]
  /\ \/ tpc.ptr /\ tpc' = [tpc EXCEPT !.is_running = FALSE, !.stop_read = TRUE]
     \/ ~tpc.ptr /\ tpc' \in {tpc, [tpc EXCEPT !.proc = "failed"]}

(* Join the threads and return. *)
TpcMainJoin ==
  /\ tpc_gate.main = "join" /\ TG!MainFree /\ tpc.daq = "done"
  /\ tpc_gate' = [tpc_gate EXCEPT !.main = "exit"]
  /\ tpc' = [tpc EXCEPT !.proc = "clean"]
-----------------------------------------------------------------------------
(* TpcRunController. *)

(* The constructor may throw: the thread ends without a Controller.  When    *)
(* Init fails, the Controller is destroyed at once.                          *)
DaqConstruct ==
  /\ tpc.daq = "construct"
  /\ \/ tpc' = [tpc EXCEPT !.daq = "run", !.ptr = TRUE]
     \/ tpc' = [tpc EXCEPT !.daq = "done"]
     \/ tpc' = [tpc EXCEPT !.daq = "destroy", !.ptr = TRUE, !.quit = TRUE]
  /\ UNCHANGED tpc_gate

(* Run stores true. *)
DaqRun ==
  /\ tpc.daq = "run"
  /\ tpc' = [tpc EXCEPT !.daq = "loop", !.is_running = TRUE]
  /\ UNCHANGED tpc_gate

DaqLoopAlways ==         \* mutant: the loop does not look at the flag
  /\ tpc.daq = "loop"
  /\ tpc' = [tpc EXCEPT !.daq = "read"]
  /\ UNCHANGED tpc_gate

DaqLoop ==
  /\ tpc.daq = "loop"
  /\ tpc' = [tpc EXCEPT !.daq = IF tpc.is_running THEN "read" ELSE "destroy"]
  /\ UNCHANGED tpc_gate

(* ReadRecvBuffer returns with nothing once setStopCmdRead was called. *)
DaqReadStopped ==
  /\ tpc.daq = "read" /\ tpc.stop_read
  /\ tpc' = [tpc EXCEPT !.daq = "loop"]
  /\ UNCHANGED tpc_gate

(* A command is read and handled: it may start or end a run, or throw. *)
DaqCommand ==
  /\ tpc.proc = "up" /\ tpc.daq = "read" /\ tpc_gate.main \notin {"join", "exit"}
  /\ \/ \E run \in BOOLEAN : tpc' = [tpc EXCEPT !.daq = "loop", !.run = run]
     \/ tpc' = [tpc EXCEPT !.daq = "destroy", !.quit = TRUE]
  /\ UNCHANGED tpc_gate

(* The destructor: with a run active the thread object of the run is still   *)
(* joinable, which ends the process.                                         *)
DaqDestroy ==
  /\ tpc.daq = "destroy"
  /\ tpc' = IF tpc.run THEN [tpc EXCEPT !.ptr = FALSE, !.proc = "failed"]
                       ELSE [tpc EXCEPT !.ptr = FALSE, !.daq = "done"]
  /\ UNCHANGED tpc_gate
-----------------------------------------------------------------------------
Tpc(step) == tpc.proc = "up" /\ step

TpcMain == Tpc(\/ TpcMainStart \/ TpcMainPtr \/ TpcMainSetRunning \/ TpcMainJoin
               \/ TG!GateMain /\ UNCHANGED tpc)
TpcDaq == Tpc(DaqConstruct \/ DaqRun \/ DaqLoop \/ DaqReadStopped \/ DaqDestroy)
TpcHandler == Tpc(TG!GateHandler /\ UNCHANGED tpc)
TpcIo == Tpc(TG!IoNotify /\ UNCHANGED tpc)
=============================================================================
