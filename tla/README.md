# Verification of GramsReadout

TLA+ models of the readout program of the pGRAMS detector (repository
`NevisGRAMS/GramsReadout`), checked with TLC, their safety
properties proved with TLAPS. Paths are relative to the repository root.

## 1. The system

| component | state | operations | interacts with |
|---|---|---|---|
| DMA read thread, `DataHandler::ReadoutDMARead` | DMA loop index, `blocks_enqueued`, `resync_at_block_` | arm DMA, wait, enqueue a block, recover from a timeout | hardware; write thread through `data_queue_`, `resync_at_block_`, `event_count_`, `stop_write_` |
| event builder, `DataHandler::DataWrite` | event buffer and its indices, counters, `fd_`, `file_count_` | find events in blocks, drop partial ones, write chunks, switch files | read thread; disks |
| block queue, `folly::ProducerConsumerQueue` | ring, two atomic indices | `write`, `read`, `isEmpty`, `popFront` | the two threads above; `DataHandler::Reset` |
| trigger and PPS threads, `TriggerDMARead`, `PollTriggerPPS` | record buffer, open segment, last PPS time | take a record, flush, reopen after a failover | write thread (`trigger_segment_file_num_`, `data_basedir_`), PCIe bus |
| software trigger thread, `SendSoftwareTrigger` | its `is_running_` | send triggers | read thread, PCIe bus |
| run control, `Controller`, `RunStopCoordinator` | `current_state_`, `is_configured_`, `data_thread_`, pending reason, `run_id_` and its file | `HandleCommand` (configure, start, stop, reset), automatic stop | network, command line, status thread, data handler |
| disk selection and failover, `storage_utils`, `MaybeSwitchDataDisk` | environment, free bytes, active disk, numbered files | pick a disk, move to the other one | controller, write thread, orchestrator |
| PCIe bus, `pcie_interface` | receiver, answers on their way | `PCIeRecvBuffer` in three calls, `PCIeSendBuffer` | PPS thread, status thread, commands, triggers |
| TPC daemon, `tpc_daq` | `g_running`, `g_shutdown_mutex`, the controller | start, wait, end | signals, systemd, I/O threads |
| orchestrator, `orchestrator` | the same, and the status thread | start and stop units, start and stop the status, end | network, systemd, pulser program |
| data mirror, `mirror_engine` | pending files, queues per run, state file | scan, watch, copy, shut down | data disks, backup disks, signals |
| board configuration, `light_fem`, `charge_fem`, `xmit_control`, ... | board registers | sequences of register writes | bus |
| `tof_daq`, `data_monitor`, `daq_orchestrator` | | start, stop, supervise | systemd, network |

What is hard about it:

* **No locks.** The two data threads, the status thread and up to two threads that call `HandleCommand`
  share plain atomics. State is checked in one step and acted on in a later one.
* **Lost data.** A DMA that times out and a full queue both lose words in the middle of events; the
  builder has to notice and drop exactly the events that are torn.
* **Several ends of a run.** Operator, number of events, full disk, DMA buffers, a file that cannot be
  opened: each sets a different subset of `is_running_`, `stop_write_`, `disk_stop_requested_`.
* **Reuse.** A second run uses the same object; `Reset` must undo what any end of the first has left.
* **A disk that fills** in the middle of a run moves it to the other disk; three threads have to follow.
* **One receiver for several threads.** A query is three calls, each under a lock, the whole under none.
* **Ends of processes.** Signal handlers that lock, notifications without the lock, threads cancelled and
  signalled while they are being joined.
* **Crash and restart** of the readout between two steps on the run number file, and of the mirror daemon
  with files that grow while they are copied.

What makes each component correct: only whole events reach the disk, in order, and the counters tell the
truth (event builder); both threads end (readout); FIFO without slot races (queue); a reset meets no live
thread, a run starts clean and can be stopped (run control); no run overwrites the files of another and a
run goes on while a disk has room (storage); trigger records and PPS samples can be read back in order
(streams); a PPS time is one the board has latched (bus); a closed file gets mirrored (mirror); processes
end when told and leave nothing running (daemons). The hazards, each with its line, are listed in
`PROJECT.json`; where a property holds only outside the window a hazard opens, the note of the hazard says so.

## 2. Modules

| module | models | kind |
|---|---|---|
| `BoundedFifo` | what the callers of the queue rely on | abstract specification |
| `SpscQueue` | `lib/folly/ProducerConsumerQueue.h` | detailed; refines `BoundedFifo` |
| `SpscQueueProofs` | theorems about it, and the refinement | proofs |
| `EventReadout` | one run: `ReadoutDMARead` and `DataWrite` of `src/data/data_handler.cpp` | component |
| `EventReadoutProofs` | theorems about it | proofs |
| `RunControl` | `src/control/controller.cpp`, `run_stop_coordinator.cpp`, thread lifetimes of `CollectData`, `DataHandler::Reset` | composition of controller, status thread and data threads |
| `RunControlProofs` | theorems about it | proofs |
| `DiskSelect` | the choice of a disk in `src/data/storage_utils.cpp` | operators |
| `RunStorage` | run number file, disk of a run, numbered files, failover: `controller.cpp`, `data_handler.cpp`, `AutoSelectDataDir` of `orchestrator.cpp` | component |
| `RunStorageProofs` | theorems about `DiskSelect` and `RunStorage` | proofs |
| `StreamFiles` | trigger and PPS files across failovers: `data_handler.cpp` | component |
| `StreamFilesProofs` | theorems about it | proofs |
| `PcieBus` | queries on `lib/pcie_driver/pcie_interface.cpp` by `PollTriggerPPS` and `status.cpp`; the software trigger thread | component |
| `PcieBusProofs` | theorems about it | proofs |
| `ShutdownGate` | how the daemons wait for their end and are woken | component, instantiated twice |
| `TpcDaemon` | `daemon/tpc_daq.cpp`; `Run`, `SetRunning` and destructor of `Controller` | component |
| `Orchestrator` | `daemon/orchestrator.cpp` | component |
| `Services` | the two processes under systemd | composition |
| `ServicesProofs` | theorems about both processes | proofs |
| `MirrorEngine`, `MCMirrorEngine` | `daemon/mirror_engine.cpp`, and instances for TLC | component |
| `MirrorEngineProofs` | theorems about it | proofs |

**SpscQueue.** `WriteCheck`, `WriteConstruct`, `WritePublish` are the load of `readIndex_`, the placement
new and the release store of `write`; `ReadCheck`, `ReadMove`, `ReadPublish` those of `read`, and
`PopPublish` ends `popFront`. The acquire/release pairs make it sound to let the two index accesses
interleave as sequentially consistent steps. `FifoSpec` maps the published slots to the abstract queue.

**EventReadout.** A data word is its position in the stream the electronics sent, so a gap is a jump in
positions and `Starts`, `Ends` say which positions hold markers; the constants allow any stream. A block
is the position of its first word. Each access to shared state is a step: the mark is loaded
(`LoadResync`) and cleared (`ClearResync`) in two. The word loop is one action per case of the code
(`StartWord`, `SkipWord`, `EndWord`, `DataWord`), with the overflow check in front of each as in the code.
`write()` may succeed, be short, fail with `ENOSPC` or otherwise; after a failed file switch the
descriptor is `"closing"`, and a write to it may reach the old file, fail or go astray.
`incidents` is a history variable that names what went wrong; properties say under which incidents they
hold. Two remarks on the code: the function-local `static dma_num` is initialised once, so only buffer 1 is used
(which does not change what is modelled: the block is copied before the next DMA is armed); and the join
of the software trigger thread is assumed to return here (`PcieBus` shows when it does not).

**RunControl.** `pc` holds the place of every thread that is in `HandleCommand` or in
`ApplyPendingRunStop`. A command's check of `current_state_` (`Start`, `Stop`), its change (`SetRunning`,
`SetStopped`) and its later steps are separate. `overlap` is a history variable: a command was accepted while a stop by the status thread was
decided on or another command was being carried out, or the status thread stopped a run during a command.
Nothing in the code prevents overlap; the safety properties hold without it, and the run
`control_reset` shows what may happen with it.

**RunStorage.** A disk is a level of free space, `Unreadable` when `statvfs` fails, `Gone` when the
directory is missing too; the two reserves are levels. `PersistRunId` is three steps (read, open and
truncate, write) and the process may die between any two. `used` and `mine` are the data files of earlier
runs and of this one; opening a file under a number in `used` truncates an old file and sets `reused`.
`fault` is a history variable: the number file was missing or empty, could not be opened for writing or
written, or the process died with it empty. Failures of `Configure` before and after the data handler is
reached are kept apart. Assumed: `DATA_BASE_DIR` is one of the two NVMe directories (nothing else is ever
written there) and the configuration file is complete. Two remarks: runs started after Reset get no
configuration log, and after a disk stop Reset stays on the full disk, whose first file is not checked.

**StreamFiles.** The write thread publishes the directory under `data_basedir_mutex_`, then the segment
number outside of it (`Failover`, `FailoverCount`); a stream loads the number, then the directory
(`Loop`, `Reopen`). A behaviour follows one of the two streams, chosen in `Init`, because they share
nothing. `late` is a history variable: the run moved again before the stream had followed the last move.
Then the stream may skip a segment or give one the directory of the next; `SegmentsInOrder` does not
hold there.

**PcieBus.** An answer is a word with an upper byte and a frame; the PPS thread keeps words with an upper
byte of 0 and a frame other than 0, and a new time must differ from the last. `RecvInit`, `Send`,
`RecvRead` are the three calls; between them other threads act and answers arrive. External: boards
answer in order after any delay, an empty receiver reads 0, a status answer has a non-zero upper byte
unless the board is sick (`foul`). Mixing the two halves of one sample is not modelled. The read thread
starts the trigger thread or returns for want of DMA buffers (`ReadStart`), and leaves its loop when the run
is stopped (`ReadEnd`) or at the event limit (`ReadLimit`), which nothing promises it will reach. `revived`
records that the trigger thread undid `StopTrigger`.

**ShutdownGate, TpcDaemon, Orchestrator, Services.** `ShutdownGate` is the skeleton both daemons have
copied: the signal handler on any thread, main included, the I/O threads that clear the flag and notify
without the mutex, the check, lock, test and sleep of main. `TpcDaemon` adds the thread that builds, runs
and destroys the Controller, `Orchestrator` the command thread, the status thread and the escalation of
`WaitForThreadJoin`. An initialisation may fail in either: main then clears the flag itself and goes on to its
end without the thread it could not start (`TpcMainStart`, `OrcMainStart`); a Controller whose `Init` fails is
destroyed at once and the daemon stays up without one; a status thread, or the thread that is to join it, that
cannot be created ends the orchestrator. The orchestrator may find units running that an earlier one has
left. History variables: `asked`, the last status command was Start; `unopened`, the status thread could not
reach the bus; `unfit`, the initialisation failed; `quit`, the Controller was given up. Signalling or cancelling a thread that was already joined, and calling a Controller
that was destroyed, are undefined: nothing happens or the process fails. In `Services`, systemd (external)
starts what is wanted, sends SIGTERM to what is not, kills it when it does not end, and restarts it after
a failure. `SystemdKill` needs `Stuck`: a daemon that is not stuck ends long before the 90 seconds are
over. `ReadRecvBuffer` (external) returns once `setStopCmdRead` was called. A signal that comes while one is
being handled is taken to be absorbed; a handler within the handler, of another signal on the same thread, is
not modelled.

**MirrorEngine.** A file is a record of its run and of its rank in the copy order, its content a version
number that only grows. The sections under `mutex_` are single steps, except the two of the main thread, the
insertion during the scan and `RequestStop` at the end, which the signal handler can interrupt (`MainLocks`,
`Trapped`). Only the first signal changes a flag, so a later one is an action only where it would block. `Arm`
watches any subset of the files, a directory each, or, without inotify, none (`"deaf"`); `Rewatch` is the
retry of the TOF directories, and `Close` may lose its event to a full kernel queue. `missed` is a history variable with the files
that were given up, for one of the reasons named in `Mirrored`. The two backup disks are merged, and an
append to the state file that fails is the same as a crash before it.

## 3. Runs

| run | checks | bounds |
|---|---|---|
| `queue` | `TypeOK`, `NoSlotRace`, `LiveConstructed`, `FifoSpec` | 3 items, 4 slots: the ring wraps, fills and empties |
| `readout` | `TypeOK`, `WholeEvents`, `EventsConserved`, `DiskOrder`, `MarkerBalance`, `StopEndsThreads`, `EventLimitEnds` | 12 words in blocks of 2, a 5-word buffer, 2-event chunks, a 2-block queue, 1 timeout: filler, an event without an end, full queue, exact fill and file switch all occur |
| `readout_glue` | `NeverGlued`, violated | 16 words, 2 timeouts |
| `readout_exact_fill` | `CompleteEventsSurvive`, violated | buffer of exactly 2 events |
| `control` | `TypeOK`, `QuietReset`, `RunStartsClean`, `NeverTerminates`, `RunIsOwned`, `DiskStopEndsRun`, `StopReturns` | one command thread and the status thread, two runs; two command threads are covered by the proofs |
| `control_reset` | `OneConsumer`, violated | one command thread, one run |
| `storage` | `TypeOK`, `SelectionAgrees`, `RunsKeepTheirFiles`, `OneFilePerNumber`, `SwitchUsesRoom` | levels 0 (full) to 2 (both reserves), run numbers to 2, file numbers to 2: two failovers in a run, crashes and failed configurations between runs |
| `segments` | `TypeOK`, `SegmentsInOrder`, `RecordsKept`, `StreamsFollow` | buffer of 2, 4 records, 3 files, 1 failed open or write: two failovers, a partly filled buffer at each |
| `bus` | `PpsGenuine`, `TriggersQuiet`, `StopEndsTriggers` | 3 PPS edges, 1 status query, 2 answers under way: a late answer, a foreign answer and a lost one |
| `services` | `SleepersWoken`, `StatusAsAsked`, `UnitsEnd`, `DaemonEnds`, `StopReachesDaemon`, `OrchestratorEnds` | the TPC unit, 1 start of the daemon, 1 signal or failure from outside; `Apart`: a behaviour has status commands, or unit commands and units found running, not both |
| `mirror` | `PendingExact`, `ByteBalance`, `Mirrored`, `ShutdownReturns` | a TPC file that is there and a TOF file that grows while it is copied, two starts of the daemon; no bound on signals, watches and lost events |
| `mirror_signal` | `SignalEndsDaemon`, violated | one start |

The bounds (`StreamWords`, `MaxTimeouts`, `MaxLost`, `MaxRuns`, `MaxId`, `MaxIndex`, `MaxRecords`, `MaxFiles`,
`MaxFailures`, `MaxPps`, `MaxPolls`, `MaxWire`, `MaxStarts`, `MaxFaults`, `MaxVersion`) only limit how long a
behaviour can be interesting. The proofs do not depend on them. `Apart` loses no case that matters to a
property: the status thread and the units meet only in the command thread, which handles one command at
a time. Deadlock is checked except where the system may stop: a daemon that is down need not be started
again (mirror, services), a run that is over is not followed by another (bus, segments).

Several properties name the cases they leave out, because the code is exposed to them; each is a hazard
in `PROJECT.json`:

* `RunsKeepTheirFiles`: a run number comes back after the number file was missing, unwritable, or left
  empty by a crash between truncating and writing it.
* `PpsGenuine`: a driver read that fails leaves 0xbad, which passes for a time; so does the answer of a
  sick board.
* `StopEndsTriggers`: the software trigger thread stores `is_running_ = true` after `StopTrigger`.
* `DaemonEnds`, `OrchestratorEnds`: told while starting (`Run` stores true over `SetRunning(false)`, and
  main skips the calls that end the reads); the handler on main while main holds the mutex; an unlocked
  notification between test and sleep; for the daemon also a run that is active, whose joinable thread
  ends the process, and a Controller that was given up, for want of its initialisation or by an exception in
  its command loop.
* `SleepersWoken`: the unlocked notification between test and sleep, and nothing else.
* `StatusAsAsked`: a status thread that cannot open the bus ends and stays joinable, so that Start does
  nothing until a Stop. A status thread that needs more than five seconds to end is cancelled, then
  signalled, which is a signal to the orchestrator; the property speaks of the orchestrators that go on.
* `UnitsEnd`: a stop that systemd refused; an orchestrator that could not initialise.
* `QuietReset`, `RunStartsClean`, `NeverTerminates`, `RunIsOwned`, `DiskStopEndsRun`, `StopReturns`: overlapping
  commands and stops.
* `SegmentsInOrder`, `RecordsKept`: two quick failovers; a failed open or write.
* `Mirrored`: the reasons in `missed`, which are a backup without room, a failed copy, a close between the
  scan and the watch or in a directory that is not watched, an event the kernel dropped, a close while the
  worker finishes the same file, growth between the copy and its state entry.
* `ShutdownReturns`: a signal that finds main holding the mutex.

What the violated properties show (findings in `PROJECT.json`):

* `resync_at_block_` holds one mark. A second timeout before the first marked block is reached replaces
  it, and two torn events are written as one (`NeverGlued`; comment in `data_handler.h:157-160`).
* Complete events that fill the event buffer exactly are taken for an overflow (`CompleteEventsSurvive`;
  comment at `data_handler.cpp:494-495`).
* The automatic stop sets the state to Stopped before the threads have ended, so a reset is accepted and
  becomes a second consumer of the queue (`OneConsumer`; `ProducerConsumerQueue.h:45-46`).
* The mirror's signal handler locks the mutex of the thread it interrupts (`SignalEndsDaemon`;
  `mirror_engine.h:13`).

**Fairness.** `FairSpec` of each module gives weak fairness to every thread as a whole: the operating
system schedules it. Nothing is assumed of operators, signals, failures, clocks, records to come or the
starts of the mirror. External: boards deliver their answers (`PcieBus`), systemd acts on what it was
asked (`Services`). In `Services` the threads of a process that end by themselves share one condition,
which is weaker than one each: the property must hold however the scheduler favours one of them, so
long as it does not stop them all. In `MirrorEngine` a program that writes a file also closes it in the
end, and the watcher gets to every event in its buffer, which `read()` returns in order.

## 4. Proofs

Every safety property a passing run checks, the action property `PpsGenuine` and the refinement
`FifoSpec` are theorems. They hold for every value of the constants that satisfies the `ASSUME` of the
module: sizes are positive, start and end markers differ (`ReadoutAssumption`); the status thread is not a
commander, the queue has a slot (`ControlAssumption`); 0 < switch reserve < start reserve <= an empty disk
(`ReserveAssumption`); a ring has two slots, as the constructor demands (`SpscAssumption`); there are
finitely many files (`MirrorAssumption`); the rest only says which constants are numbers. Each inductive
invariant was checked with TLC on the instance of its run as well.

`EventReadoutProofs`

* `TypeCorrect`: `Spec => []TypeOK`. The parts that matter are the ranges of `num_words`, `event_begin`
  and `event_words`: they keep every store and every `write()` inside the event buffer.
* `WholeEventsCorrect`: `Spec => []WholeEvents`. `WholeEvents` is not inductive: it speaks of the disk
  only. `ReadoutInv` strengthens it, for behaviours without the three kinds of damage, by
  `BufferOK` (complete events up to `event_words`, then the event being built without a gap),
  `ChainOK` (wherever two blocks in the queue do not follow each other, the resync mark points at the
  second one, also for the block that comes next) and `BuilderOK` (the next word continues the event
  being built or a resync is due that drops it). `IncidentsGrow` makes the condition usable: damage never
  goes away, so a step that ends without it began without it. `InvStep` has one step per action and per
  part; `WriteKeepsWhole` covers the two places that write.
* `DiskOrderHolds`, `MarkerBalanceHolds`, `EventsConservedHolds` hold under weaker conditions than
  `WholeEvents`, so they have an invariant of their own, which does not mention the resync mark.
  `BlocksOK` (blocks taken, queued and delivered do not overlap and are in stream order) holds always;
  `OrderInv` (the event being built starts where the complete ones end; words on disk precede words in the
  buffer, which precede the word to come) as long as no complete event was cut; `CountInv` (the chunk holds
  `event_chunk` end markers, the event being built none) as long as nothing went wrong with a write.
  `HeldUnsaved` takes from the order that the markers of a chunk are not on disk yet, so a write adds
  exactly `event_chunk` to their number.

`SpscQueueProofs`

* `TypeCorrect`, `NoSlotRaceHolds`, `LiveConstructedHolds`, from the inductive invariant `RingInv`. What
  the check of a thread has found stays true until its store (`RoomKept`, `RecordKept`), because the
  other thread only makes more room, or more records; `RecordsOK` says what the slots hold meanwhile.
* `RingImplementsFifo`: `Spec => FifoSpec`. `StepRefines` goes through the steps of the ring: the two
  index stores are a write, a read or a drop of the FIFO (`PublishAppends`, `ReleaseRemoves`: what the slots between
  the indices become, also where the ring wraps), the refusals are its refusals, and every other step
  leaves the contents alone.

`RunControlProofs`

* `TypeCorrect`, and `QuietResetHolds`, `RunStartsCleanHolds`, `NeverTerminatesHolds`, `RunIsOwnedHolds`,
  all from the inductive invariant `ControlInv`: without overlap commands exclude each other
  and the automatic stop (`Exclusive`), an ended data thread has no live children (`ThreadsOK`), and
  each place of a caller and each state goes with quiet threads or fresh flags (`PlaceOK`, `StateOK`).
  `Invariance` proves it once; the four theorems follow.

`RunStorageProofs`

* `SelectionAgreesHolds`, from the lemmas `BestExists` (the disk `CHOOSE` asks for exists) and `Selection`
  (both modes accept exactly when some disk has the reserve). It holds of any free space, so of any state.
* `RunsKeepTheirFilesHolds`, `OneFilePerNumberHolds`, `SwitchUsesRoomHolds`, `TypeCorrect`, from the
  inductive invariant `StorageInv`. `RunsKeepTheirFiles` speaks of two history variables only; what keeps
  it is `Numbers`: without a fault the number on disk is at least every number in use, and the number of
  the coming or current run is its own, at each step of `PersistRunId`. `Phases` says which command goes
  with which state and that the directory in use is the active disk, which `SwitchUsesRoom` needs: the
  alternative is computed from the active disk, the room from the directory.

`StreamFilesProofs`

* `TypeCorrect`, `RecordsKeptHolds`, `SegmentsInOrderHolds`, from the inductive invariant `StreamInv`.
  `SegmentsInOrder` compares files; what keeps it is where the stream stands while no failover has
  overtaken it (`Position`): at what is published, between the two stores of a failover, or behind on its
  way there with the number it loaded still current. `StoredFirst` says that everything stored precedes
  the buffer and that the open file is the last with records. `WriteKeeps` covers all flushes at once.

`PcieBusProofs`

* `PpsGenuineHolds`: `FairSpec => PpsGenuine`, an action property, from `BusInv`: as long as no read failed and
  no board answered with an empty upper byte, the times in the receiver and on their way to it, one after
  the other, do not decrease and lie between the last time taken over and the time latched. A late
  answer is therefore old or new but never wrong, and the filter on the last time does the rest.
* `TriggersQuietHolds`, from `TriggerInv`: which threads may still send, by how far the read thread is.

`ServicesProofs`

* `SleepersWokenHolds`, from `GateInv` of each of the two gates. `SleepersWoken` is not inductive; what
  keeps it is that main holds the mutex from its test to its sleep, and that a handler past its lock is
  therefore never there between the two: the flag was clear before the test, or the handler notifies
  after the sleep has begun. The I/O threads do not lock, hence the exception.
* `StatusAsAskedHolds`, `UnitsEndHolds`, from `OrcInv`, for any set of units, with or without `Apart`.
  `StatusInv` relates thread object, flag and last command outside the wait for the thread, and says that
  the wait which goes back to the commands is the one of Stop; `EndInv` says that the last wait comes after
  the units were stopped. `ServicesInv` is the conjunction; the steps of main and of the escalation, which
  signals its own process, concern both parts.

`MirrorEngineProofs`

* `PendingExactHolds`, `ByteBalanceHolds`, from the inductive invariant `MirrorInv`. `Held` says what each
  thread carries between two sections under the mutex; `Served` that the file being copied is of the side
  that had no more bytes when it was chosen, which bounds by how much it can get ahead. `BestExists` (the
  `CHOOSE` of the next job has a candidate) and `LargestFacts` (the versions of finitely many files are
  bounded) need induction over the natural numbers; `NaturalsBySuccessor` gives it in a first-order form,
  from the existence of least elements: a set of naturals with 0 and every successor has all of them.

Only model-checked: the liveness properties (`StopEndsThreads`, `EventLimitEnds`, `DiskStopEndsRun`, `StopReturns`,
`StreamsFollow`, `StopEndsTriggers`, `DaemonEnds`, `StopReachesDaemon`, `OrchestratorEnds`, `Mirrored`,
`ShutdownReturns`), which rest on fairness and are out of reach of the prover.

## 5. Not modelled

* Board configuration and the vendor's PCIe library: straight sequences of register accesses with answers
  the repository does not define; also the one-time set-up of the driver and its DMA buffers.
* The contents of status telemetry, logs and configuration files.
* The two 24-bit counters of the trigger read-out: what the board counts is not in the repository.
* `daq_orchestrator.cpp`, the single-process predecessor of `orchestrator.cpp` and `tpc_daq.cpp`, and of
  `orchestrator.cpp` the pulser and driver programs it runs to their end.
* `tof_daq.cpp`, a main around a library that is not in the repository; `data_monitor.cpp`, which ends
  the way `ShutdownGate` says and otherwise forwards figures.
* Small things seen while modelling, outside of any module: `InitPCIeDevices` returns 1 when the devices
  are initialised already, which `Configure` takes for an error (`pcie_interface.cpp:95`,
  `controller.cpp:430`); a buffer that cannot be locked asks standard input (`pcie_interface.cpp:545`);
  `board_slots_` is appended to again when `Configure` is repeated (`controller.cpp:412`); a TPC daemon
  whose controller cannot be built stays up without one (`tpc_daq.cpp:138`).
* In the mirror: rate limiting, the age filter, the choice between backup disks, a handler within the handler
  of another signal.
* Vendored code (`json.hpp`), `FastDataWrite` and `TestReadoutDMARead`, which the program does not call.

## 6. Plan

1. Done: queue, readout, run control, storage, streams, bus, daemons, mirror; proofs of their safety
   properties and of the refinement of the queue.
2. Done: what the shutdown gate guarantees of a process that sleeps.
3. To come: another invariant behind the liveness properties that does not need fairness, as a theorem: that a
   stopped run leaves each thread an enabled way to its end.
