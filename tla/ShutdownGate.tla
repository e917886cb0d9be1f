---------------------------- MODULE ShutdownGate ----------------------------
(***************************************************************************)
(* How the daemons end.  tpc_daq.cpp, orchestrator.cpp and                 *)
(* data_monitor.cpp share one skeleton: the signal handler and the threads *)
(* of the I/O context clear g_running, and main, when it has started the   *)
(* threads, sleeps on g_shutdown_cv until it is clear.  TpcDaemon and      *)
(* Orchestrator instantiate this module with the variable of their process *)
(* and add what main does before and after.                                *)
(*                                                                         *)
(* The signal handler runs on whatever thread the kernel picks, main       *)
(* included, and locks g_shutdown_mutex there.                             *)
(***************************************************************************)
VARIABLE gate

Gate == [
  g_running : BOOLEAN,
  main      : {"start", "ad3", "check", "lock", "test", "sleep", "asleep", "awake",
               "woken", "call", "leave", "join", "exit"},
  mutex     : {"free", "main"},               \* g_shutdown_mutex
  handler   : {"none", "lock", "notify"},     \* the signal handler
  on_main   : BOOLEAN,                        \* it interrupted main
  io        : {"run", "notify", "failed"},    \* the I/O threads
  lost      : BOOLEAN ]   \* history: a notification came just before the sleep

Closed ==
  [g_running |-> TRUE, main |-> "start", mutex |-> "free", handler |-> "none",
   on_main |-> FALSE, io |-> "run", lost |-> FALSE]

MainFree == ~(gate.handler # "none" /\ gate.on_main)

(* The handler waits, on main, for a mutex that main holds. *)
Trapped == gate.handler = "lock" /\ gate.on_main /\ gate.mutex = "main"

Notified == IF gate.main = "asleep" THEN "awake" ELSE gate.main
-----------------------------------------------------------------------------
(* SignalHandler. *)

Signal(main_thread) ==
  /\ gate.handler = "none"
  /\ gate' = [gate EXCEPT !.handler = "lock", !.g_running = FALSE, !.on_main = main_thread]

HandlerLockSkips ==      \* mutant: the handler does not wait for the mutex
  /\ gate.handler = "lock"
  /\ gate' = [gate EXCEPT !.handler = "notify"]

(* The mutex is taken and given back. *)
HandlerLock ==
  /\ gate.handler = "lock" /\ gate.mutex = "free"
  /\ gate' = [gate EXCEPT !.handler = "notify"]

HandlerNotify ==
  /\ gate.handler = "notify"
  /\ gate' = [gate EXCEPT !.handler = "none", !.on_main = FALSE, !.main = Notified]
-----------------------------------------------------------------------------
(* An exception in io_context.run(): clear the flag and notify, unlocked. *)

IoFails ==
  /\ gate.io = "run" /\ gate.main \notin {"start", "join", "exit"}
  /\ gate' = [gate EXCEPT !.io = "notify", !.g_running = FALSE]

IoNotify ==
  /\ gate.io = "notify"
  /\ gate' = [gate EXCEPT !.io = "failed", !.main = Notified,
                          !.lost = @ \/ gate.main = "sleep"]
-----------------------------------------------------------------------------
(* main: the wait.  Where g_running is clear before it, main skips the wait  *)
(* and what follows it.                                                      *)

MainCheck ==
  /\ gate.main = "check" /\ MainFree
  /\ gate' = [gate EXCEPT !.main = IF gate.g_running THEN "lock" ELSE "join"]

MainLock ==
  /\ gate.main \in {"lock", "awake"} /\ MainFree /\ gate.mutex = "free"
  /\ gate' = [gate EXCEPT !.main = "test", !.mutex = "main"]

MainTest ==
  /\ gate.main = "test" /\ MainFree
  /\ gate' = [gate EXCEPT !.main = IF gate.g_running THEN "sleep" ELSE "woken"]

(* wait releases the mutex and sleeps in one step. *)
MainSleep ==
  /\ gate.main = "sleep" /\ MainFree
  /\ gate' = [gate EXCEPT !.main = "asleep", !.mutex = "free"]

(* The end of the scope of the lock. *)
MainLeave ==
  /\ gate.main = "leave" /\ MainFree
  /\ gate' = [gate EXCEPT !.main = "join", !.mutex = "free"]

GateMain == MainCheck \/ MainLock \/ MainTest \/ MainSleep \/ MainLeave
GateHandler == HandlerLock \/ HandlerNotify
-----------------------------------------------------------------------------
(* main does not sleep through its end: when the flag is clear and main is   *)
(* asleep, a notification is still to come, or one of the I/O threads, which *)
(* do not lock the mutex, sent it between the test and the sleep.            *)
Heard ==
  gate.main = "asleep" /\ ~gate.g_running =>
    gate.handler # "none" \/ gate.io = "notify" \/ gate.lost

(* Why: the handler gets past the mutex only when main is not between its    *)
(* test and its sleep.                                                       *)
GateInv ==
  /\ gate \in Gate
  /\ gate.main \in {"test", "sleep", "woken", "call", "leave"} => gate.mutex = "main"
  /\ gate.handler # "none" => ~gate.g_running
  /\ gate.main = "sleep" => gate.handler # "notify"
  /\ gate.main \in {"sleep", "asleep"} /\ ~gate.g_running =>
       gate.handler # "none" \/ gate.io = "notify" \/ gate.lost
=============================================================================
