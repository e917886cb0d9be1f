---------------------------- MODULE Orchestrator ----------------------------
(***************************************************************************)
(* The process of daemon/orchestrator.cpp: main, the command thread        *)
(* (DAQHandler) and the status thread (SendStatus).  The commands that     *)
(* leave all of these alone (the pulser, the driver script, the errors,    *)
(* the choice of the disk, see RunStorage) are left out; a restart of the  *)
(* orchestrator or of the computer comes back as a signal.                 *)
(***************************************************************************)
EXTENDS Integers

CONSTANTS
  Units,         \* the units it controls
  Apart          \* bound: a behaviour exercises the status thread and the end of
                 \*   the process in every window, or the units, not both

VARIABLES
  orc_gate, orc,
  wanted       \* units systemd was asked to run

OG == INSTANCE ShutdownGate WITH gate <- orc_gate

ASSUME UnitsAssumption == Units \subseteq {"tpc", "tof", "monitor", "mirror"}

Daq == Units \ {"mirror"}
Waits == {"wait1", "cancel", "wait2", "term", "wait3", "kill"}

Orc == [
  proc             : {"up", "clean", "failed"},
  cmd              : {"none", "loop", "read", "end", "done"} \cup Waits,
  next             : {"loop", "done"},     \* where WaitForThreadJoin returns to
  stop_read        : BOOLEAN,              \* setStopCmdRead was called
  status           : {"open", "loop", "send", "done"},
  joinable         : BOOLEAN,              \* of status_thread
  g_status_running : BOOLEAN,
  kind             : {"any", "status", "units"},   \* of the commands so far
  told             : BOOLEAN,    \* told to end from outside, at most once
  asked            : BOOLEAN,    \* history: the last status command was Start
  unopened         : BOOLEAN,    \* history: the status thread had no system bus
  unfit            : BOOLEAN,    \* history: the initialisation failed
  early            : BOOLEAN,    \* history: told to end before main waited
  refused          : BOOLEAN ]   \* history: systemd refused to stop a unit

OrcStarting ==
  [proc |-> "up", cmd |-> "none", next |-> "loop", stop_read |-> FALSE, status |-> "done",
   joinable |-> FALSE, g_status_running |-> FALSE, kind |-> "any", told |-> FALSE,
   asked |-> FALSE, unopened |-> FALSE, unfit |-> FALSE, early |-> FALSE,
   refused |-> FALSE]

(* The process has failed, and all that it kept in memory is gone. *)
Failed == [OrcStarting EXCEPT !.proc = "failed"]

BeforeWait == orc.early \/ orc_gate.main \in {"start", "ad3", "check"}

Plain == Apart /\ orc.kind = "units"

OrcSignal ==
  /\ orc.proc = "up" /\ ~orc.told
  /\ \E main_thread \in IF Plain THEN {FALSE} ELSE BOOLEAN : OG!Signal(main_thread)
  /\ orc' = [orc EXCEPT !.early = BeforeWait, !.told = TRUE]
  /\ UNCHANGED wanted

OrcIoFails ==
  /\ orc.proc = "up" /\ ~orc.told /\ ~Plain /\ OG!IoFails
  /\ orc' = [orc EXCEPT !.early = BeforeWait, !.told = TRUE]
  /\ UNCHANGED wanted
-----------------------------------------------------------------------------
(* main. *)

(* The connections and the threads; if one of them fails there is no command *)
(* thread, and the flag is cleared.                                          *)
OrcMainStart ==
  /\ orc_gate.main = "start" /\ OG!MainFree
  /\ \/ /\ orc_gate' = [orc_gate EXCEPT !.main = "ad3"]
        /\ orc' = [orc EXCEPT !.cmd = "loop"]
     \/ /\ orc_gate' = [orc_gate EXCEPT !.main = "ad3", !.g_running = FALSE]
        /\ orc' = [orc EXCEPT !.cmd = "done", !.unfit = TRUE]
  /\ UNCHANGED wanted

(* The pulser: two programs are run, a second apart. *)
OrcMainAd3 ==
  /\ orc_gate.main = "ad3" /\ OG!MainFree
  /\ orc_gate' = [orc_gate EXCEPT !.main = "check"]
  /\ UNCHANGED <<orc, wanted>>

OrcMainForgets ==        \* mutant: the command thread is left in its read
  /\ orc_gate.main = "woken" /\ OG!MainFree
  /\ orc_gate' = [orc_gate EXCEPT !.main = "leave"]
  /\ UNCHANGED <<orc, wanted>>

OrcMainStopRead ==
  /\ orc_gate.main = "woken" /\ OG!MainFree
  /\ orc_gate' = [orc_gate EXCEPT !.main = "leave"]
  /\ orc' = [orc EXCEPT !.stop_read = TRUE]
  /\ UNCHANGED wanted

OrcMainJoin ==
  /\ orc_gate.main = "join" /\ OG!MainFree /\ orc.cmd = "done"
  /\ orc_gate' = [OG!Closed EXCEPT !.main = "exit", !.g_running = FALSE]
  /\ orc' = [orc EXCEPT !.proc = "clean"]
  /\ UNCHANGED wanted
-----------------------------------------------------------------------------
(* The status thread.  It ends at once if it cannot reach the system bus. *)

StatusOpen ==
  /\ orc.status = "open"
  /\ \/ orc' = [orc EXCEPT !.status = "loop"]
     \/ orc' = [orc EXCEPT !.status = "done", !.unopened = TRUE]
  /\ UNCHANGED <<orc_gate, wanted>>

StatusLoop ==
  /\ orc.status = "loop"
  /\ orc' = [orc EXCEPT !.status = IF orc.g_status_running THEN "send" ELSE "done"]
  /\ UNCHANGED <<orc_gate, wanted>>

(* A second's sleep, then poll the units and the computer and send. *)
StatusSend ==
  /\ orc.status = "send"
  /\ orc' = [orc EXCEPT !.status = "loop"]
  /\ UNCHANGED <<orc_gate, wanted>>
-----------------------------------------------------------------------------
(* ControlService: systemd takes the order, or the call fails. *)

StartUnits(units) == \E failed \in SUBSET units : wanted' = wanted \cup (units \ failed)

StopUnits(units, record) ==
  \E failed \in IF orc.refused THEN {{}} ELSE SUBSET units :
    /\ wanted' = wanted \ (units \ failed)
    /\ orc' = [record EXCEPT !.refused = @ \/ failed # {}]
-----------------------------------------------------------------------------
(* DAQHandler. *)

CmdLoop ==
  /\ orc.cmd = "loop"
  /\ orc' = [orc EXCEPT !.cmd = IF orc_gate.g_running THEN "read" ELSE "end"]
  /\ UNCHANGED <<orc_gate, wanted>>

CmdReadStopped ==
  /\ orc.cmd = "read" /\ orc.stop_read
  /\ orc' = [orc EXCEPT !.cmd = "loop"]
  /\ UNCHANGED <<orc_gate, wanted>>

Receive(kind) ==
  /\ orc.proc = "up" /\ orc.cmd = "read" /\ orc_gate.main \notin {"join", "exit"}
  /\ Apart => orc.kind \in {"any", kind} /\ (kind = "units" => orc_gate.main = "asleep")
  /\ UNCHANGED orc_gate

Handled(kind) == [orc EXCEPT !.cmd = "loop", !.kind = kind]

(* A thread that cannot be created ends the process. *)
StartStatus ==
  /\ Receive("status") /\ UNCHANGED wanted
  /\ LET asked == [Handled("status") EXCEPT !.asked = TRUE]
         started == [asked EXCEPT !.g_status_running = TRUE, !.joinable = TRUE,
                                  !.status = "open", !.unopened = FALSE]
     IN \/ orc.joinable /\ orc' = asked
        \/ ~orc.joinable /\ orc' \in {started, Failed}

StopStatusNoWait ==      \* mutant: the thread is told to end and not waited for
  /\ Receive("status") /\ UNCHANGED wanted
  /\ orc' = [Handled("status") EXCEPT !.asked = FALSE, !.g_status_running = FALSE]

(* The status thread is told to end and waited for, by a thread that may not *)
(* be there to be had: that ends the process.                                *)
EndStatus(record, next) ==
  {[record EXCEPT !.g_status_running = FALSE, !.cmd = "wait1", !.next = next], Failed}

StopStatus ==
  /\ Receive("status") /\ UNCHANGED wanted
  /\ orc' \in EndStatus([Handled("status") EXCEPT !.asked = FALSE], "loop")

(* The TPC and, when all are booted, its monitor need a disk with room. *)
Boot(units) ==
  /\ Receive("units") /\ orc' = Handled("units")
  /\ \E room \in BOOLEAN :
       StartUnits(IF room \/ "tpc" \notin units THEN units ELSE units \cap {"tof"})

Shutdown(units) == Receive("units") /\ StopUnits(units, Handled("units"))

CmdEndKeepsTpc ==        \* mutant: the TPC readout is left running
  /\ orc.cmd = "end" /\ UNCHANGED orc_gate
  /\ \E record \in EndStatus(orc, "done") : StopUnits({"tof", "monitor"}, record)

(* After the loop. *)
CmdEnd ==
  /\ orc.cmd = "end" /\ UNCHANGED orc_gate
  /\ \E record \in EndStatus(orc, "done") : StopUnits(Daq, record)
-----------------------------------------------------------------------------
(* WaitForThreadJoin: another thread joins the status thread, while this one *)
(* waits for it, five seconds at a time, and after each cancels the status   *)
(* thread, sends it SIGTERM, which runs the signal handler of the process,   *)
(* and sends it SIGKILL, which ends the process.                             *)

JoinThread ==
  /\ orc.cmd \in Waits /\ orc.joinable /\ orc.status = "done"
  /\ orc' = [orc EXCEPT !.joinable = FALSE]
  /\ UNCHANGED <<orc_gate, wanted>>

WaitReturns ==
  /\ orc.cmd \in {"wait1", "wait2", "wait3"} /\ ~orc.joinable
  /\ orc' = [orc EXCEPT !.cmd = orc.next]
  /\ UNCHANGED <<orc_gate, wanted>>

WaitExpires ==
  /\ orc.cmd \in {"wait1", "wait2", "wait3"} /\ orc.joinable
  /\ orc' = [orc EXCEPT !.cmd = CASE orc.cmd = "wait1" -> "cancel"
                                  [] orc.cmd = "wait2" -> "term"
                                  [] orc.cmd = "wait3" -> "kill"]
  /\ UNCHANGED <<orc_gate, wanted>>

(* The thread was joined just before it is cancelled or signalled: there is  *)
(* no thread behind the handle and the call is undefined.                    *)
Gone(on) ==
  /\ ~orc.joinable
  /\ orc' \in {[orc EXCEPT !.cmd = on], Failed}
  /\ UNCHANGED <<orc_gate, wanted>>

(* A thread that hangs in a system call does not notice the cancellation. *)
CancelStatus ==
  /\ orc.cmd = "cancel"
  /\ \/ Gone("wait2")
     \/ /\ orc.joinable
        /\ \E to \in {orc.status, "done"} :
             orc' = [orc EXCEPT !.cmd = "wait2", !.status = to]
        /\ UNCHANGED <<orc_gate, wanted>>

(* A signal that is being handled absorbs it. *)
TermStatus ==
  /\ orc.cmd = "term"
  /\ \/ Gone("wait3")
     \/ /\ orc.joinable
        /\ OG!Signal(FALSE) \/ (orc_gate.handler # "none" /\ UNCHANGED orc_gate)
        /\ orc' = [orc EXCEPT !.cmd = "wait3"]
        /\ UNCHANGED wanted

KillStatus ==
  /\ orc.cmd = "kill"
  /\ \/ Gone("wait3")
     \/ /\ orc.joinable /\ orc' = Failed
        /\ UNCHANGED <<orc_gate, wanted>>
-----------------------------------------------------------------------------
(* Units may be running that an earlier orchestrator left behind. *)
OrcInit ==
  /\ wanted \in SUBSET Units
  /\ orc_gate = OG!Closed
  /\ orc = [OrcStarting EXCEPT !.kind = IF Apart /\ wanted # {} THEN "units" ELSE "any"]

Up(step) == orc.proc = "up" /\ step

Gated(step) == step /\ UNCHANGED <<orc, wanted>>

OrcMain == Up(\/ OrcMainStart \/ OrcMainAd3 \/ OrcMainStopRead \/ OrcMainJoin
              \/ Gated(OG!GateMain))
OrcHandler == Up(Gated(OG!GateHandler))
OrcIo == Up(Gated(OG!IoNotify))
OrcStatus == Up(StatusOpen \/ StatusLoop \/ StatusSend)
OrcJoin == Up(JoinThread)
OrcCmd == Up(\/ CmdLoop \/ CmdReadStopped \/ CmdEnd
             \/ WaitReturns \/ CancelStatus \/ TermStatus \/ KillStatus)
OrcCommand ==
  \/ StartStatus \/ StopStatus
  \/ \E units \in {{u} : u \in Units} \cup {Daq} : Boot(units) \/ Shutdown(units)
=============================================================================
