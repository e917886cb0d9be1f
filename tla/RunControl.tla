----------------------------- MODULE RunControl -----------------------------
(***************************************************************************)
(* The life of a run: Controller::HandleCommand in every thread that calls  *)
(* it, the status thread with its automatic stop, and the threads of        *)
(* DataHandler::CollectData that a run consists of                          *)
(* (src/control/controller.cpp, src/control/run_stop_coordinator.cpp,       *)
(* src/data/data_handler.cpp).                                              *)
(*                                                                          *)
(* None of these threads holds a lock.  What the data threads do with the   *)
(* data is the subject of EventReadout.tla; here they are reduced to when   *)
(* they end and which flags they store on the way.                          *)
(***************************************************************************)
EXTENDS Naturals, FiniteSets

CONSTANTS
  Commanders,   \* threads that call HandleCommand: the network receiver, and
                \* in main.cpp also the command line
  Status,       \* the status thread
  QueueCap,     \* usable slots of data_queue_
  MaxRuns       \* bound: runs that are started

ASSUME ControlAssumption == /\ Status \notin Commanders
                            /\ QueueCap \in Nat \ {0}
                            /\ MaxRuns \in Nat

VARIABLES
  current_state, is_configured,
  pc,                   \* place of every commander and of the status thread
  pending_reason,       \* RunStopCoordinator: a disk stop is pending
  data_thread,          \* data_thread_: not joinable, running, or returned
  threads,              \* place of the four threads of CollectData
  is_running, stop_write, disk_stop_requested,   \* of the DataHandler
  queue,                \* number of blocks in data_queue_
  space,                \* some data disk has the free space a run needs
  runs,                 \* history: runs started
  terminated,           \* std::terminate, or an exception that ends the caller
  overlap               \* history: a command and another stop ran together

flags == <<is_running, stop_write, disk_stop_requested>>
runVars == <<data_thread, threads, queue>>
vars == <<current_state, is_configured, pc, pending_reason, runVars, flags,
          space, runs, terminated, overlap>>

Callers == Commanders \cup {Status}
DataThread == {"write", "read", "pps", "trigger"}
Stopping == {"mark", "stop", "join", "joining", "clear"}

Init ==
  /\ current_state = "Idle" /\ is_configured = FALSE
  /\ pc = [p \in Callers |-> "idle"]
  /\ pending_reason = FALSE
  /\ data_thread = "none" /\ threads = [t \in DataThread |-> "off"] /\ queue = 0
  /\ is_running = FALSE /\ stop_write = FALSE /\ disk_stop_requested = FALSE
  /\ space \in BOOLEAN
  /\ runs = 0 /\ terminated = FALSE /\ overlap = FALSE

Goto(p, from, to) == /\ ~terminated
                     /\ pc[p] = from
                     /\ pc' = [pc EXCEPT ![p] = to]
-----------------------------------------------------------------------------
(* HandleCommand.  A command that does not fit the state, and a status query *)
(* change nothing here.                                                      *)

(* The command is accepted; what it does to the state comes later, if only   *)
(* by one step, and another thread may come in between.  It overlaps with a stop the status thread has   *)
(* decided on, or with a command of another thread.                          *)
Accept(c, state, to) ==
  /\ current_state = state
  /\ Goto(c, "idle", to)
  /\ overlap' = (overlap \/ pc[Status] \in Stopping
                         \/ \E d \in Commanders \ {c} : pc[d] # "idle")

Configure(c) ==
  /\ Accept(c, "Idle", "configure")
  /\ UNCHANGED <<current_state, is_configured, pending_reason, runVars, flags,
                 space, runs, terminated>>

(* Some data disk has the room a run needs; which one is chosen is not       *)
(* modelled here.                                                            *)
SelectNvmeDataDirForRun == space

(* Controller::Configure checks the free space; any other failure of it also *)
(* leaves the state as it is.                                                *)
ConfigureEnd(c) ==
  /\ Goto(c, "configure", "idle")
  /\ \/ /\ is_configured \/ SelectNvmeDataDirForRun
        /\ is_configured' = TRUE
        /\ current_state' = "Configured"
     \/ /\ ~is_configured
        /\ UNCHANGED <<current_state, is_configured>>
  /\ UNCHANGED <<pending_reason, runVars, flags, space, runs, terminated, overlap>>

Start(c) ==
  /\ runs < MaxRuns
  /\ Accept(c, "Configured", "start")
  /\ UNCHANGED <<current_state, is_configured, pending_reason, runVars, flags,
                 space, runs, terminated>>

SetRunning(c) ==
  /\ Goto(c, "start", "set_run")
  /\ current_state' = "Running"
  /\ UNCHANGED <<is_configured, pending_reason, runVars, flags, space, runs,
                 terminated, overlap>>

(* StartRun: SetRun(true) ... *)
SetRun(c) ==
  /\ Goto(c, "set_run", "spawn")
  /\ is_running' = TRUE
  /\ UNCHANGED <<current_state, is_configured, pending_reason, runVars,
                 stop_write, disk_stop_requested, space, runs,
                 terminated, overlap>>

(* ... and the data thread.  Assigning to a std::thread that is joinable     *)
(* terminates the process; a thread that cannot be created is an exception,  *)
(* after which the state remains Running.                                    *)
Spawn(c) ==
  /\ Goto(c, "spawn", "idle")
  /\ \/ /\ data_thread = "none"
        /\ data_thread' = "live"
        /\ threads' = [t \in DataThread |-> IF t \in {"write", "read"} THEN "start" ELSE "on"]
        /\ runs' = runs + 1
        /\ UNCHANGED <<is_running, terminated>>
     \/ /\ data_thread # "none"
        /\ terminated' = TRUE
        /\ UNCHANGED <<is_running, data_thread, threads, runs>>
     \/ /\ is_running' = FALSE
        /\ UNCHANGED <<data_thread, threads, runs, terminated>>
  /\ UNCHANGED <<current_state, is_configured, pending_reason, queue,
                 stop_write, disk_stop_requested, space, overlap>>

Stop(c) ==
  /\ Accept(c, "Running", "halt")
  /\ UNCHANGED <<current_state, is_configured, pending_reason, runVars, flags,
                 space, runs, terminated>>

(* The state is Stopped before the run is. *)
SetStopped(c) ==
  /\ Goto(c, "halt", "stop")
  /\ current_state' = "Stopped"
  /\ UNCHANGED <<is_configured, pending_reason, runVars, flags, space, runs,
                 terminated, overlap>>

Reset(c) ==
  /\ Accept(c, "Stopped", "reset")
  /\ UNCHANGED <<current_state, is_configured, pending_reason, runVars, flags,
                 space, runs, terminated>>

(* DataHandler::Reset: the disk flags, stop_write_, then the queue. *)
ResetDiskFlags(c) ==
  /\ Goto(c, "reset", "reset_write")
  /\ disk_stop_requested' = FALSE
  /\ UNCHANGED <<current_state, is_configured, pending_reason, runVars,
                 is_running, stop_write, space, runs, terminated, overlap>>

ResetStopWriteSkipped(c) ==       \* mutant: stop_write_ is not reset
  /\ Goto(c, "reset_write", "drain")
  /\ UNCHANGED <<current_state, is_configured, pending_reason, runVars, flags,
                 space, runs, terminated, overlap>>

ResetStopWrite(c) ==
  /\ Goto(c, "reset_write", "drain")
  /\ stop_write' = FALSE
  /\ UNCHANGED <<current_state, is_configured, pending_reason, runVars,
                 is_running, disk_stop_requested, space, runs,
                 terminated, overlap>>

Drain(c) ==
  /\ \/ /\ queue > 0
        /\ Goto(c, "drain", "drain")
        /\ queue' = queue - 1
        /\ UNCHANGED current_state
     \/ /\ queue = 0
        /\ Goto(c, "drain", "idle")
        /\ current_state' = "Configured"
        /\ UNCHANGED queue
  /\ UNCHANGED <<is_configured, pending_reason, data_thread, threads, flags,
                 space, runs, terminated, overlap>>
-----------------------------------------------------------------------------
(* StopRun, called by a commander and by the status thread.                  *)

Returned(p) == IF p = Status THEN "clear" ELSE "idle"

ClearRun(p) ==
  /\ Goto(p, "stop", "join")
  /\ is_running' = FALSE
  /\ UNCHANGED <<current_state, is_configured, pending_reason, runVars,
                 stop_write, disk_stop_requested, space, runs,
                 terminated, overlap>>

JoinSkipped(p) ==                 \* mutant: StopRun does not wait
  /\ Goto(p, "join", Returned(p))
  /\ UNCHANGED <<current_state, is_configured, pending_reason, runVars, flags,
                 space, runs, terminated, overlap>>

(* if (data_thread_.joinable()) data_thread_.join(): a second join of the    *)
(* same thread throws out of the thread that calls it.                       *)
Join(p) ==
  /\ \/ /\ data_thread = "none"
        /\ Goto(p, "join", Returned(p))
        /\ UNCHANGED terminated
     \/ /\ data_thread # "none"
        /\ Goto(p, "join", "joining")
        /\ \A q \in Callers : pc[q] # "joining"
        /\ UNCHANGED terminated
     \/ /\ data_thread # "none"
        /\ Goto(p, "join", "joining")
        /\ \E q \in Callers : pc[q] = "joining"
        /\ terminated' = TRUE
  /\ UNCHANGED <<current_state, is_configured, pending_reason, runVars, flags,
                 space, runs, overlap>>

Joined(p) ==
  /\ data_thread = "over"
  /\ Goto(p, "joining", Returned(p))
  /\ data_thread' = "none"
  /\ UNCHANGED <<current_state, is_configured, pending_reason, threads, queue,
                 flags, space, runs, terminated, overlap>>
-----------------------------------------------------------------------------
(* The status thread: ApplyPendingRunStop, every two seconds.                *)

StatusCheck ==
  /\ Goto(Status, "idle", IF current_state = "Running" THEN "poll" ELSE "idle")
  /\ UNCHANGED <<current_state, is_configured, pending_reason, runVars, flags,
                 space, runs, terminated, overlap>>

PollNothing ==                    \* mutant: the disk stop is not looked at
  /\ Goto(Status, "poll", "idle")
  /\ UNCHANGED <<current_state, is_configured, pending_reason, runVars, flags,
                 space, runs, terminated, overlap>>

Poll ==
  /\ pending_reason' = (pending_reason \/ disk_stop_requested)
  /\ Goto(Status, "poll", IF pending_reason' THEN "mark" ELSE "idle")
  /\ UNCHANGED <<current_state, is_configured, runVars, flags, space, runs, terminated, overlap>>

AutoStopInName ==                 \* mutant: the state changes, the run goes on
  /\ Goto(Status, "mark", "clear")
  /\ current_state' = "Stopped"
  /\ overlap' = (overlap \/ \E c \in Commanders : pc[c] # "idle")
  /\ UNCHANGED <<is_configured, pending_reason, runVars, flags, space, runs, terminated>>

(* The state may have changed since StatusCheck. *)
AutoStop ==
  /\ Goto(Status, "mark", "stop")
  /\ current_state' = "Stopped"
  /\ overlap' = (overlap \/ \E c \in Commanders : pc[c] # "idle")
  /\ UNCHANGED <<is_configured, pending_reason, runVars, flags, space, runs, terminated>>

ClearPendingReason ==
  /\ Goto(Status, "clear", "idle")
  /\ pending_reason' = FALSE
  /\ UNCHANGED <<current_state, is_configured, runVars, flags, space, runs, terminated, overlap>>
-----------------------------------------------------------------------------
(* The threads of a run.                                                     *)

ThreadTo(t, from, to) == /\ ~terminated
                         /\ threads[t] = from
                         /\ threads' = [threads EXCEPT ![t] = to]

DataUnchanged == UNCHANGED <<current_state, is_configured, pc, pending_reason,
                             data_thread, space, runs, terminated, overlap>>

(* ReadoutDMARead: the DMA buffers are locked, or the run is over. *)
ReadStart ==
  /\ \/ ThreadTo("read", "start", "on") /\ UNCHANGED flags
     \/ /\ ThreadTo("read", "start", "off")
        /\ is_running' = FALSE
        /\ stop_write' = TRUE
        /\ UNCHANGED disk_stop_requested
  /\ UNCHANGED queue
  /\ DataUnchanged

ReadEnqueueUnbounded ==           \* mutant: a full queue takes one more
  /\ ThreadTo("read", "on", "on")
  /\ is_running
  /\ queue' = queue + 1
  /\ UNCHANGED flags
  /\ DataUnchanged

ReadEnqueue ==
  /\ ThreadTo("read", "on", "on")
  /\ is_running /\ queue < QueueCap
  /\ queue' = queue + 1
  /\ UNCHANGED flags
  /\ DataUnchanged

(* The run was stopped. *)
ReadStopped ==
  /\ ThreadTo("read", "on", "ending")
  /\ ~is_running
  /\ UNCHANGED <<flags, queue>>
  /\ DataUnchanged

(* num_events_ events were written. *)
ReadLimit ==
  /\ ThreadTo("read", "on", "ending")
  /\ is_running
  /\ UNCHANGED <<flags, queue>>
  /\ DataUnchanged

ReadEndSilent ==                  \* mutant: the write thread is not told
  /\ ThreadTo("read", "ending", "off")
  /\ UNCHANGED <<flags, queue>>
  /\ DataUnchanged

ReadEnd ==
  /\ ThreadTo("read", "ending", "off")
  /\ stop_write' = TRUE
  /\ UNCHANGED <<is_running, disk_stop_requested, queue>>
  /\ DataUnchanged

(* DataWrite: the first file is open, or there is no room for it. *)
RequestDiskStop == /\ disk_stop_requested' = TRUE
                   /\ is_running' = FALSE
                   /\ stop_write' = TRUE

WriteStart ==
  /\ ThreadTo("write", "start", "on")
  /\ RequestDiskStop \/ UNCHANGED flags
  /\ UNCHANGED queue
  /\ DataUnchanged

(* A block is taken out of the queue; while it is processed the disk may run *)
(* full, or a file may fail to open, which only stops this thread.           *)
WriteBlock ==
  /\ ThreadTo("write", "on", "on")
  /\ queue > 0
  /\ queue' = queue - 1
  /\ \/ UNCHANGED flags
     \/ RequestDiskStop
     \/ stop_write' = TRUE /\ UNCHANGED <<is_running, disk_stop_requested>>
  /\ DataUnchanged

(* The queue is found empty, and only then stop_write_ is looked at. *)
WriteEmpty ==
  /\ ThreadTo("write", "on", "empty")
  /\ queue = 0
  /\ UNCHANGED <<flags, queue>>
  /\ DataUnchanged

WriteLoop ==
  /\ ThreadTo("write", "empty", IF stop_write THEN "off" ELSE "on")
  /\ UNCHANGED <<flags, queue>>
  /\ DataUnchanged

(* PollTriggerPPS and TriggerDMARead loop while the run goes on. *)
PollerEnd(t) ==
  /\ ThreadTo(t, "on", "off")
  /\ ~is_running
  /\ UNCHANGED <<flags, queue>>
  /\ DataUnchanged

(* CollectData has joined all four threads. *)
CollectEnd ==
  /\ ~terminated
  /\ data_thread = "live"
  /\ \A t \in DataThread : threads[t] = "off"
  /\ data_thread' = "over"
  /\ UNCHANGED <<current_state, is_configured, pc, pending_reason, threads,
                 queue, flags, space, runs, terminated, overlap>>
-----------------------------------------------------------------------------
(* Other programs fill and free the disks. *)
SpaceChanges ==
  /\ ~terminated
  /\ space' = ~space
  /\ UNCHANGED <<current_state, is_configured, pc, pending_reason, runVars,
                 flags, runs, terminated, overlap>>

Terminated == terminated /\ UNCHANGED vars

StopSteps(p) == ClearRun(p) \/ Join(p) \/ Joined(p)

CommandSteps(c) == \/ ConfigureEnd(c) \/ SetRunning(c) \/ SetRun(c) \/ Spawn(c)
                   \/ SetStopped(c) \/ ResetDiskFlags(c) \/ ResetStopWrite(c) \/ Drain(c)
                   \/ StopSteps(c)

StatusThread == \/ StatusCheck \/ Poll \/ AutoStop \/ StopSteps(Status)
                \/ ClearPendingReason

ReadThread == ReadStart \/ ReadEnqueue \/ ReadStopped \/ ReadLimit \/ ReadEnd
WriteThread == WriteStart \/ WriteBlock \/ WriteEmpty \/ WriteLoop
Poller(t) == PollerEnd(t)

Next == \/ \E c \in Commanders : \/ Configure(c) \/ Start(c) \/ Stop(c) \/ Reset(c)
                                 \/ CommandSteps(c)
        \/ StatusThread
        \/ ReadThread \/ WriteThread \/ \E t \in {"pps", "trigger"} : Poller(t)
        \/ CollectEnd
        \/ SpaceChanges \/ Terminated

Spec == Init /\ [][Next]_vars

(* Every thread is scheduled by the operating system; no command is owed. *)
FairSpec ==
  /\ Spec
  /\ \A c \in Commanders : WF_vars(CommandSteps(c))
  /\ WF_vars(StatusThread)
  /\ WF_vars(ReadThread) /\ WF_vars(WriteThread)
  /\ \A t \in {"pps", "trigger"} : WF_vars(Poller(t))
  /\ WF_vars(CollectEnd)
-----------------------------------------------------------------------------
CallerTypes ==
  /\ current_state \in {"Idle", "Configured", "Running", "Stopped"}
  /\ pc \in [Callers -> {"idle", "configure", "start", "set_run", "spawn", "halt",
                         "reset", "reset_write", "drain", "poll"} \cup Stopping]
  /\ \A c \in Commanders : pc[c] \notin {"poll", "mark", "clear"}
  /\ pc[Status] \in {"idle", "poll"} \cup Stopping

RunTypes ==
  /\ data_thread \in {"none", "live", "over"}
  /\ threads \in [DataThread -> {"off", "start", "on", "ending", "empty"}]
  /\ queue \in 0 .. QueueCap
  /\ runs \in Nat

FlagTypes ==
  /\ is_configured \in BOOLEAN /\ pending_reason \in BOOLEAN
  /\ is_running \in BOOLEAN /\ stop_write \in BOOLEAN
  /\ disk_stop_requested \in BOOLEAN
  /\ space \in BOOLEAN
  /\ terminated \in BOOLEAN /\ overlap \in BOOLEAN

(* Every variable keeps its type; the queue keeps its bound, only the status *)
(* thread polls, and only commanders configure, start and reset.             *)
TypeOK == CallerTypes /\ RunTypes /\ FlagTypes

Quiet == data_thread = "none" /\ \A t \in DataThread : threads[t] = "off"

Resetting == {"reset", "reset_write", "drain"}
StopPhase == {"stop", "join", "joining"}

(* While no command overlaps with a stop of another thread, the data handler *)
(* is reset only when all threads of the last run are gone: the flags are    *)
(* not taken from under them and the queue is not drained by a second        *)
(* consumer (controller.cpp:534-552, data_handler.cpp:1261-1269).            *)
QuietReset ==
  ~overlap => \A c \in Commanders : pc[c] \in Resetting => Quiet

(* Under the same condition every run starts with the flags and the queue    *)
(* that the first one had, however the last run ended                        *)
(* (controller.cpp:516-521, data_handler.cpp:1254-1269).                     *)
RunStartsClean ==
  ~overlap => \A c \in Commanders : pc[c] = "spawn" =>
                Quiet /\ ~stop_write /\ ~disk_stop_requested /\ queue = 0

(* Under the same condition the std::thread object is neither joined twice   *)
(* nor overwritten while joinable (controller.cpp:521, :537).                *)
NeverTerminates == ~overlap => ~terminated

(* Under the same condition a run that goes on is one the operator can stop: *)
(* the state is Running or a stop is under way (controller.cpp:502-513,      *)
(* :601-615).                                                                *)
RunIsOwned ==
  ~overlap => (Quiet \/ current_state = "Running" \/
               \E p \in Callers : pc[p] \in StopPhase)

(* The inductive invariant behind these four: commands exclude each other    *)
(* and the automatic stop, and each place a caller can be at goes with a     *)
(* state, with threads that are gone, or with flags that are fresh           *)
(* (controller.cpp:495-552, :590-636, data_handler.cpp:1250-1277).           *)
Fresh == ~stop_write /\ ~disk_stop_requested /\ queue = 0

Exclusive ==
  /\ \A c, d \in Commanders : pc[c] # "idle" /\ pc[d] # "idle" => c = d
  /\ pc[Status] \in StopPhase \cup {"clear"} =>
       \A c \in Commanders : pc[c] = "idle"

ThreadsOK == data_thread # "live" => \A t \in DataThread : threads[t] = "off"

PlaceOK(c) ==
  /\ pc[c] = "configure" => current_state = "Idle"
  /\ pc[c] = "start" => current_state = "Configured"
  /\ pc[c] = "halt" => current_state = "Running"
  /\ pc[c] \in {"set_run", "spawn"} => current_state = "Running" /\ Quiet /\ Fresh
  /\ pc[c] \in Resetting => current_state = "Stopped" /\ Quiet
  /\ pc[c] \in {"reset_write", "drain"} => ~disk_stop_requested
  /\ pc[c] = "drain" => ~stop_write
  /\ pc[c] \in StopPhase => current_state = "Stopped"

StateOK ==
  /\ current_state \in {"Idle", "Configured"} => Quiet /\ Fresh
  /\ current_state = "Stopped" => Quiet \/ \E p \in Callers : pc[p] \in StopPhase
  /\ pc[Status] \in StopPhase => current_state = "Stopped"

ControlInv ==
  ~overlap => /\ ~terminated /\ Exclusive /\ ThreadsOK /\ StateOK
              /\ \A c \in Commanders : PlaceOK(c)

(* A full disk takes the controller out of Running, unless a command         *)
(* overlaps with the automatic stop: the operator may then have started      *)
(* another run in between (controller.cpp:479-514).                          *)
DiskStopEndsRun ==
  (disk_stop_requested /\ current_state = "Running")
     ~> (current_state # "Running" \/ overlap)

(* A stop returns: all threads of the run end and are joined, whatever       *)
(* ended or is ending the run besides, unless a command or another stop      *)
(* overlaps with it: two joins of one thread, or a run started over it, end  *)
(* the process (controller.cpp:534-541, data_handler.cpp:349-397).           *)
StopReturns ==
  \A p \in Callers : (pc[p] = "stop") ~> (pc[p] \in {"clear", "idle"} \/ overlap)
-----------------------------------------------------------------------------
(* What a comment of the code says; it is violated.                          *)

(* "ProducerConsumerQueue is a one producer and one consumer queue without   *)
(* locks" (ProducerConsumerQueue.h:45-46): DataHandler::Reset pops blocks    *)
(* only when the write thread does not.                                      *)
OneConsumer == \A c \in Commanders : pc[c] = "drain" => threads["write"] = "off"
=============================================================================
