------------------------------ MODULE PcieBus -------------------------------
(***************************************************************************)
(* The crate bus during a run.  A query is three calls on PCIeInterface:   *)
(* prepare the receiver, send the request, read the answer.  Each of them  *)
(* holds handle_mutex, the query does not, and the PPS thread              *)
(* (data_handler.cpp), the status thread and a command that asks for the   *)
(* status (status.cpp) query the same receiver.  The software trigger      *)
(* thread (trigger_control.cpp) sends on the same bus and is started and   *)
(* stopped by the read thread.                                             *)
(*                                                                         *)
(* The boards are not in the repository: they answer in order, after any   *)
(* delay, and the trigger board holds the last PPS time.  An empty         *)
(* receiver reads 0.                                                       *)
(***************************************************************************)
EXTENDS Integers, Sequences, SequencesExt

CONSTANTS
  Pollers,    \* threads that read the status of the boards
  MaxPps,     \* bound: PPS edges
  MaxPolls,   \* bound: status queries
  MaxWire     \* bound: answers on their way, and answers in the receiver

ASSUME BusAssumption == MaxPps \in Nat /\ MaxPolls \in Nat /\ MaxWire \in Nat \ {0}

VARIABLES
  is_running,           \* of the data handler
  latch,                \* trigger board: time of the last PPS edge
  board_run,            \* trigger board: run on
  wire, receiver,       \* answers not yet, and already, in the receiver
  pps_pc, last_ts,      \* PPS thread, and the time it knows; 0: none yet
  poll_pc, polls,
  source,               \* trigger_source
  read_pc,              \* read thread, as far as triggers go
  trig_pc, trig_running,        \* software trigger thread, its is_running_
  foul,                 \* history: a word that looks like a time and is none
  revived               \* history: the trigger thread undid StopTrigger

bus == <<wire, receiver>>
pps == <<pps_pc, last_ts>>
poll == <<poll_pc, polls>>
triggers == <<board_run, read_pc, trig_pc, trig_running, revived>>
vars == <<is_running, latch, bus, pps, poll, source, triggers, foul>>

(* Words: the upper byte, zero or not, and the lower 24 bits. *)
Garbage == MaxPps + 1
Word == [upper : {0, 1}, frame : 0 .. Garbage]
Time(n) == [upper |-> 0, frame |-> n]
BoardStatus == [upper |-> 1, frame |-> Garbage]
SickStatus == [upper |-> 0, frame |-> Garbage]    \* no lock, no check bits
Bad == [upper |-> 0, frame |-> Garbage]           \* 0xbad
Empty == Time(0)

TypeOK ==
  /\ is_running \in BOOLEAN /\ latch \in 0 .. MaxPps /\ board_run \in BOOLEAN
  /\ Len(wire) <= MaxWire /\ Len(receiver) <= MaxWire
  /\ Range(wire) \cup Range(receiver) \subseteq Word
  /\ pps_pc \in {"loop", "init", "send", "read", "done"}
  /\ last_ts \in 0 .. Garbage
  /\ poll_pc \in [Pollers -> {"idle", "send", "read"}] /\ polls \in 0 .. MaxPolls
  /\ source \in {"software", "external"}
  /\ read_pc \in {"start", "loop", "stop", "join", "off", "done"}
  /\ trig_pc \in {"off", "start", "loop", "send", "done"}
  /\ trig_running \in BOOLEAN /\ foul \in BOOLEAN /\ revived \in BOOLEAN

Init ==
  /\ is_running = TRUE /\ latch = 0 /\ board_run = FALSE
  /\ wire = <<>> /\ receiver = <<>>
  /\ pps_pc = "loop" /\ last_ts = 0
  /\ poll_pc = [p \in Pollers |-> "idle"] /\ polls = 0
  /\ source \in {"software", "external"}
  /\ read_pc = "start" /\ trig_pc = "off" /\ trig_running = FALSE
  /\ foul = FALSE /\ revived = FALSE
-----------------------------------------------------------------------------
(* The hardware. *)

PpsEdge ==
  /\ latch < MaxPps /\ latch' = latch + 1
  /\ UNCHANGED <<is_running, bus, pps, poll, source, triggers, foul>>

(* An answer reaches the receiver; it is dropped if there is no room. *)
Deliver ==
  /\ wire # <<>> /\ wire' = Tail(wire)
  /\ receiver' = IF Len(receiver) < MaxWire THEN Append(receiver, Head(wire)) ELSE receiver
  /\ UNCHANGED <<is_running, latch, pps, poll, source, triggers, foul>>
-----------------------------------------------------------------------------
(* The three calls of a query, each under handle_mutex. *)

RecvInit == receiver' = <<>> /\ UNCHANGED wire

Send(answer) ==
  /\ Len(wire) < MaxWire
  /\ wire' = Append(wire, answer) /\ UNCHANGED receiver

RecvRead(word) ==
  /\ word = IF receiver = <<>> THEN Empty ELSE Head(receiver)
  /\ receiver' = IF receiver = <<>> THEN receiver ELSE Tail(receiver)
  /\ UNCHANGED wire
-----------------------------------------------------------------------------
(* PollTriggerPPS. *)

PpsLoop ==
  /\ pps_pc = "loop"
  /\ pps_pc' = IF is_running THEN "init" ELSE "done"
  /\ UNCHANGED <<is_running, latch, bus, last_ts, poll, source, triggers, foul>>

PpsInit ==
  /\ pps_pc = "init" /\ pps_pc' = "send"
  /\ RecvInit
  /\ UNCHANGED <<is_running, latch, last_ts, poll, source, triggers, foul>>

PpsSend ==
  /\ pps_pc = "send" /\ pps_pc' = "read"
  /\ Send(Time(latch))
  /\ UNCHANGED <<is_running, latch, last_ts, poll, source, triggers, foul>>

KeepTimeTrusting(word) ==    \* mutant: the upper byte is not looked at
  last_ts' = IF word.frame # 0 THEN word.frame ELSE last_ts

(* What is done with a word: a foreign answer and no time are dropped.  The  *)
(* first time is only remembered, every later change of last_ts is recorded  *)
(* (and goes the way of the records of StreamFiles).                         *)
KeepTime(word) ==
  last_ts' = IF word.upper = 0 /\ word.frame # 0 THEN word.frame ELSE last_ts

PpsRead ==
  /\ pps_pc = "read" /\ pps_pc' = "loop"
  /\ \E word \in Word : RecvRead(word) /\ KeepTime(word)
  /\ UNCHANGED <<is_running, latch, poll, source, triggers, foul>>

(* The driver call fails and leaves 0xbad where the answer would be. *)
PpsReadFails ==
  /\ pps_pc = "read" /\ pps_pc' = "loop" /\ ~foul
  /\ KeepTime(Bad)
  /\ foul' = TRUE
  /\ UNCHANGED <<is_running, latch, bus, poll, source, triggers>>
-----------------------------------------------------------------------------
(* GetFemStatus, for each board, by the status thread and by a command.  The *)
(* answer of a board that has lost everything may have an upper byte of 0.   *)

PollInit(p) ==
  /\ poll_pc[p] = "idle" /\ polls < MaxPolls
  /\ poll_pc' = [poll_pc EXCEPT ![p] = "send"] /\ polls' = polls + 1
  /\ RecvInit
  /\ UNCHANGED <<is_running, latch, pps, source, triggers, foul>>

PollSend(p) ==
  /\ poll_pc[p] = "send"
  /\ poll_pc' = [poll_pc EXCEPT ![p] = "read"]
  /\ \/ Send(BoardStatus) /\ UNCHANGED foul
     \/ Send(SickStatus) /\ foul' = TRUE
  /\ UNCHANGED <<is_running, latch, pps, polls, source, triggers>>

PollRead(p) ==
  /\ poll_pc[p] = "read"
  /\ poll_pc' = [poll_pc EXCEPT ![p] = "idle"]
  /\ \E word \in Word : RecvRead(word)
  /\ UNCHANGED <<is_running, latch, pps, polls, source, triggers, foul>>
-----------------------------------------------------------------------------
(* Triggers.  The read thread starts the software trigger thread, turns the  *)
(* run on with every DMA, and at its end stops the thread, joins it and      *)
(* turns the run off.                                                        *)

(* Without DMA buffers the run is over before a trigger thread exists. *)
ReadStart ==
  /\ read_pc = "start"
  /\ \/ /\ read_pc' = "loop"
        /\ trig_pc' = IF source = "software" THEN "start" ELSE trig_pc
        /\ UNCHANGED is_running
     \/ /\ read_pc' = "done" /\ is_running' = FALSE
        /\ UNCHANGED trig_pc
  /\ UNCHANGED <<latch, bus, pps, poll, source, board_run, trig_running,
                 foul, revived>>

SendStartTrigger ==
  /\ read_pc = "loop" /\ is_running
  /\ board_run' = TRUE
  /\ UNCHANGED <<is_running, latch, bus, pps, poll, source, read_pc, trig_pc,
                 trig_running, foul, revived>>

LeaveLoop ==
  /\ read_pc = "loop" /\ read_pc' = IF source = "software" THEN "stop" ELSE "off"
  /\ UNCHANGED <<is_running, latch, bus, pps, poll, source, board_run, trig_pc,
                 trig_running, foul, revived>>

(* The run was stopped, or num_events_ events were written. *)
ReadEnd == ~is_running /\ LeaveLoop
ReadLimit == is_running /\ LeaveLoop

StopTriggerSkipped ==      \* mutant: the thread is joined without being told
  /\ read_pc = "stop" /\ read_pc' = "join"
  /\ UNCHANGED <<is_running, latch, bus, pps, poll, source, board_run, trig_pc,
                 trig_running, foul, revived>>

StopTrigger ==
  /\ read_pc = "stop" /\ read_pc' = "join"
  /\ trig_running' = FALSE
  /\ UNCHANGED <<is_running, latch, bus, pps, poll, source, board_run, trig_pc, foul,
                 revived>>

JoinTriggerSkipped ==      \* mutant: the run is turned off under the thread
  /\ read_pc = "join" /\ read_pc' = "off"
  /\ UNCHANGED <<is_running, latch, bus, pps, poll, source, board_run, trig_pc,
                 trig_running, foul, revived>>

JoinTrigger ==
  /\ read_pc = "join" /\ trig_pc = "done" /\ read_pc' = "off"
  /\ UNCHANGED <<is_running, latch, bus, pps, poll, source, board_run, trig_pc,
                 trig_running, foul, revived>>

SendStopTrigger ==
  /\ read_pc = "off" /\ read_pc' = "done"
  /\ board_run' = FALSE
  /\ UNCHANGED <<is_running, latch, bus, pps, poll, source, trig_pc, trig_running, foul,
                 revived>>

(* SendSoftwareTrigger stores true before it looks. *)
TriggerStart ==
  /\ trig_pc = "start" /\ trig_pc' = "loop"
  /\ trig_running' = TRUE
  /\ revived' = (revived \/ read_pc = "join")
  /\ UNCHANGED <<is_running, latch, bus, pps, poll, source, board_run, read_pc, foul>>

TriggerLoop ==
  /\ trig_pc = "loop"
  /\ trig_pc' = IF trig_running THEN "send" ELSE "done"
  /\ UNCHANGED <<is_running, latch, bus, pps, poll, source, board_run, read_pc,
                 trig_running, foul, revived>>

(* A trigger has no answer. *)
TriggerSend ==
  /\ trig_pc = "send" /\ trig_pc' = "loop"
  /\ UNCHANGED <<is_running, latch, bus, pps, poll, source, board_run, read_pc,
                 trig_running, foul, revived>>

Stop ==
  /\ is_running /\ is_running' = FALSE
  /\ UNCHANGED <<latch, bus, pps, poll, source, triggers, foul>>
-----------------------------------------------------------------------------
Pps == PpsLoop \/ PpsInit \/ PpsSend \/ PpsRead
Poll(p) == PollInit(p) \/ PollSend(p) \/ PollRead(p)
ReadThread == ReadStart \/ ReadEnd \/ StopTrigger \/ JoinTrigger \/ SendStopTrigger
Trigger == TriggerStart \/ TriggerLoop \/ TriggerSend

Next == \/ PpsEdge \/ Deliver \/ Stop
        \/ Pps \/ PpsReadFails \/ \E p \in Pollers : Poll(p)
        \/ ReadThread \/ ReadLimit \/ SendStartTrigger \/ Trigger

(* The threads are scheduled and the boards answer. *)
FairSpec == /\ Init /\ [][Next]_vars
            /\ WF_vars(Deliver) /\ WF_vars(Pps) /\ WF_vars(Trigger)
            /\ WF_vars(ReadThread)
-----------------------------------------------------------------------------
(* Although queries of several threads interleave and answers come late or   *)
(* to the wrong thread, each time the PPS thread takes over, and so records, *)
(* is one the board has latched and newer than the one before, unless a      *)
(* driver read failed or a board answered with an empty upper byte           *)
(* (data_handler.cpp:1186-1219).                                             *)
PpsGenuine ==
  [][last_ts' # last_ts /\ ~foul' => last_ts' \in last_ts + 1 .. latch]_vars

(* When the read thread is over, however the run ended, the run of the       *)
(* trigger board is off and no thread is left that could send it a trigger   *)
(* (data_handler.cpp:594-608, 720-725, trigger_control.cpp:191-211).         *)
TriggersQuiet == read_pc = "done" => ~board_run /\ trig_pc \in {"off", "done"}

(* The end of a run ends the trigger thread, and with it the read thread,    *)
(* and the PPS thread, unless the trigger thread started so late that it     *)
(* undid StopTrigger (data_handler.cpp:721-724, trigger_control.cpp:218).    *)
StopEndsTriggers ==
  ~is_running ~> ((read_pc = "done" \/ revived) /\ pps_pc = "done")
=============================================================================
