--------------------------- MODULE ContainerEvents --------------------------
(***************************************************************************)
(* One container of the daemon: its state record (ContainerState), its    *)
(* events handler (events_handler.c: events_list, has_handler and the      *)
(* lazily spawned events_handler_thread), its mutex and the wait_stop      *)
(* condition variable (container_unix.c), and the actors that drive it:    *)
(*   - the runtime monitor, which posts a STOPPED event when the container *)
(*     process exits, possibly more than once for the same exit;          *)
(*   - handler threads, which run handle_one / container_state_changed;    *)
(*   - the start path and the restart thread, which hold the container     *)
(*     lock while the runtime creates the process and state_set_running    *)
(*     records it;                                                         *)
(*   - stop, pause and unpause requests;                                   *)
(*   - callers of container_wait_stop_locking.                            *)
(* Start, restart, stop, pause and the restart manager live outside src/   *)
(* and are modelled from the spec (section 4.7, 4.8).                      *)
(***************************************************************************)
EXTENDS ContainerState, Sequences, FiniteSets

CONSTANTS
  Threads,          \* thread ids available to events_handler_thread
  Waiters,          \* threads calling container_wait_stop_locking
  HostConfigs,      \* the host configs a container may be created with
  MaxDups,          \* bound: duplicate exit notifications the monitor sends
  SpawnCanFail,     \* whether pthread_create may fail in post_events
  SaveCanFail,      \* whether container_to_disk may fail
  SpuriousWakeups,  \* whether pthread_cond_wait may return spuriously
  WaitCanTimeout    \* whether waiters pass a finite timeout

(* A host config: restart policy name, its max_retry_count (0 =         *)
(* unlimited) and auto_remove.                                             *)
HostConfigRecords ==
  [policy : {"no", "always", "on-failure"}, maxRetry : Nat,
   autoRemove : BOOLEAN]
ASSUME HostConfigs \subseteq HostConfigRecords /\ MaxDups \in Nat
ASSUME \A b \in {SpawnCanFail, SaveCanFail, SpuriousWakeups,
                 WaitCanTimeout} : b \in BOOLEAN

NoEvent == [id |-> 0, pid |-> 0, exit |-> 0]
Events  == [id : Nat \ {0}, pid : Pids, exit : ExitCodes]

VARIABLES
  st,            \* cont->state->state
  restart_count, \* cont->common_config->restart_count
  has_been_manually_stopped, \* cont->common_config->...
  proc,          \* pid of the live container process, 0 if none
  nextPid,       \* the pid the runtime gives the next process
  exited,        \* exits the monitor has reported (for duplicates)
  dupsLeft,      \* duplicate notifications still allowed
  events_list,   \* handler->events_list
  has_handler,   \* handler->has_handler
  pc,            \* pc of each handler thread
  cur,           \* the event a handler thread has dequeued
  startPc,       \* "idle", or which start holds the container lock
  startPid,      \* pid of the process being started
  restartPending,\* container_restart_in_thread scheduled, not yet run
  inStore,       \* the container is still in the containers store
  wpc,           \* pc of each waiter
  waitedExits,   \* appliedExits when the waiter began to wait
  nPosted,       \* history: events posted so far (event ids 1..nPosted)
  applied,       \* history: ids handled by container_state_changed, in order
  appliedExits,  \* history: STOPPED events that changed the state
  hostconfig     \* cont->hostconfig: fixed when the container is created

vars == <<st, restart_count, has_been_manually_stopped, proc, nextPid, exited,
          dupsLeft, events_list, has_handler, pc, cur, startPc, startPid,
          restartPending, inStore, wpc, waitedExits, nPosted, applied,
          appliedExits, hostconfig>>
runtimeVars == <<proc, nextPid, exited, dupsLeft>>
handlerVars == <<events_list, has_handler, pc, cur, nPosted>>
waiterVars  == <<wpc, waitedExits>>

\* The container mutex is free: every other holder runs atomically.
Unlocked == startPc = "idle"

Policy     == hostconfig.policy
MaxRetry   == hostconfig.maxRetry
AutoRemove == hostconfig.autoRemove

-----------------------------------------------------------------------------
(* Restart manager (restart_manager_should_restart), outside src/.        *)
ShouldRestart(exit) ==
  /\ ~has_been_manually_stopped
  /\ \/ Policy = "always"
     \/ /\ Policy = "on-failure"
        /\ exit # 0
        /\ MaxRetry = 0 \/ restart_count < MaxRetry

\* Mutation: the broadcast goes to the wrong condition variable.
WaitStopBroadcastLost == wpc

\* pthread_cond_broadcast(&cont->wait_stop_con)
WaitStopBroadcast ==
  [w \in Waiters |-> IF wpc[w] = "waiting" THEN "woken" ELSE wpc[w]]

SaveOutcomes == IF SaveCanFail THEN {TRUE, FALSE} ELSE {TRUE}

-----------------------------------------------------------------------------
(* events_handler_post_events: append under the handler mutex and spawn a  *)
(* handler thread when none is registered.  A failed pthread_create leaves *)
(* the event queued and has_handler FALSE.                                 *)
SpawnHandler ==
  \/ \E t \in Threads :
       /\ pc[t] = "idle"
       /\ pc' = [pc EXCEPT ![t] = "start"]
       /\ has_handler' = TRUE
  \/ SpawnCanFail /\ UNCHANGED <<pc, has_handler>>

PostEvent(ev) ==
  /\ events_list' = Append(events_list, ev)
  /\ nPosted' = nPosted + 1
  /\ IF has_handler THEN UNCHANGED <<pc, has_handler>> ELSE SpawnHandler

\* The container process exits; the monitor posts a STOPPED event.
ProcessExit(code) ==
  LET ev == [id |-> nPosted + 1, pid |-> proc, exit |-> code]
  IN  /\ proc # 0
      /\ proc' = 0
      /\ exited' = exited \cup {[pid |-> proc, exit |-> code]}
      /\ PostEvent(ev)
      /\ UNCHANGED <<st, restart_count, hostconfig, has_been_manually_stopped, nextPid,
                     dupsLeft, cur, startPc, startPid, restartPending,
                     inStore, waiterVars, applied, appliedExits>>

\* The same exit is reported again.
DuplicateExit ==
  /\ dupsLeft > 0
  /\ inStore
  /\ \E x \in exited :
       PostEvent([id |-> nPosted + 1, pid |-> x.pid, exit |-> x.exit])
  /\ dupsLeft' = dupsLeft - 1
  /\ UNCHANGED <<st, restart_count, hostconfig, has_been_manually_stopped, proc, nextPid,
                 exited, cur, startPc, startPid, restartPending, inStore,
                 waiterVars, applied, appliedExits>>

-----------------------------------------------------------------------------
(* events_handler_thread: look the container up by name; a miss ends the  *)
(* thread without clearing has_handler.                                    *)
HandlerThreadStart(t) ==
  /\ pc[t] = "start"
  /\ pc' = [pc EXCEPT ![t] = IF inStore THEN "dequeue" ELSE "idle"]
  /\ UNCHANGED <<st, restart_count, hostconfig, has_been_manually_stopped, runtimeVars,
                 events_list, has_handler, cur, startPc, startPid,
                 restartPending, inStore, waiterVars, nPosted, applied,
                 appliedExits>>

HandleOneLifo(t) ==
  /\ pc[t] = "dequeue"
  /\ IF events_list = <<>>
       THEN /\ has_handler' = FALSE
            /\ pc' = [pc EXCEPT ![t] = "idle"]
            /\ UNCHANGED <<events_list, cur>>
       ELSE /\ cur' = [cur EXCEPT ![t] = events_list[Len(events_list)]]
            /\ events_list' = SubSeq(events_list, 1, Len(events_list) - 1)
            /\ pc' = [pc EXCEPT ![t] = "handle"]
            /\ UNCHANGED has_handler
  /\ UNCHANGED <<st, restart_count, hostconfig, has_been_manually_stopped, runtimeVars,
                 startPc, startPid, restartPending, inStore, waiterVars,
                 nPosted, applied, appliedExits>>

\* handle_one: pop the first event, or clear has_handler and end the thread,
\* both under the handler mutex.
HandleOne(t) ==
  /\ pc[t] = "dequeue"
  /\ IF events_list = <<>>
       THEN /\ has_handler' = FALSE
            /\ pc' = [pc EXCEPT ![t] = "idle"]
            /\ UNCHANGED <<events_list, cur>>
       ELSE /\ cur' = [cur EXCEPT ![t] = Head(events_list)]
            /\ events_list' = Tail(events_list)
            /\ pc' = [pc EXCEPT ![t] = "handle"]
            /\ UNCHANGED has_handler
  /\ UNCHANGED <<st, restart_count, hostconfig, has_been_manually_stopped, runtimeVars,
                 startPc, startPid, restartPending, inStore, waiterVars,
                 nPosted, applied, appliedExits>>

\* Mutation: the pid comparison is dropped.
EventMatchesRunning(ev) == st.running

\* container_state_changed handles a STOPPED event only for a running
\* container whose recorded pid is the event's pid.
EventMatches(ev) == IsRunning(st) /\ StateGetPid(st) = ev.pid

\* container_state_changed, under container_lock: any other event is
\* dropped.
StateChangedIgnore(t) ==
  LET ev == cur[t]
  IN  /\ pc[t] = "handle"
      /\ Unlocked
      /\ ~EventMatches(ev)
      /\ pc' = [pc EXCEPT ![t] = "dequeue"]
      /\ cur' = [cur EXCEPT ![t] = NoEvent]
      /\ applied' = Append(applied, ev.id)
      /\ UNCHANGED <<st, restart_count, hostconfig, has_been_manually_stopped,
                     runtimeVars, events_list, has_handler, startPc, startPid,
                     restartPending, inStore, waiterVars, nPosted,
                     appliedExits>>

\* cleanup_container runs after the unlock only for an auto-remove
\* container whose container_to_disk succeeded.
RunsCleanup(autoRemove, saved) == autoRemove /\ saved

\* The matching STOPPED event: restart or stop, broadcast wait_stop, mark an
\* auto-remove container for removal, save it; cleanup runs after the unlock
\* and is skipped when container_to_disk fails.
StateChangedApply(t) ==
  LET ev         == cur[t]
      restart    == ShouldRestart(ev.exit)
      autoRemove == ~restart /\ AutoRemove
      next       == IF restart THEN SetRestarting(st, ev.exit)
                               ELSE SetStopped(st, ev.exit)
  IN  /\ pc[t] = "handle"
      /\ Unlocked
      /\ EventMatches(ev)
      /\ restart_count' = IF restart THEN restart_count + 1 ELSE restart_count
      /\ st' = IF autoRemove THEN SetRemovalInProgress(next) ELSE next
      /\ wpc' = WaitStopBroadcast
      /\ restartPending' = restart
      /\ \E saved \in SaveOutcomes :
           pc' = [pc EXCEPT ![t] = IF RunsCleanup(autoRemove, saved)
                                     THEN "cleanup" ELSE "dequeue"]
      /\ cur' = [cur EXCEPT ![t] = NoEvent]
      /\ applied' = Append(applied, ev.id)
      /\ appliedExits' = appliedExits + 1
      /\ UNCHANGED <<has_been_manually_stopped, runtimeVars, events_list,
                     has_handler, startPc, startPid, inStore, waitedExits,
                     nPosted, hostconfig>>

\* cleanup_container(cont, true), outside src/: the container leaves the
\* store; the handler thread goes on draining its own queue.
Cleanup(t) ==
  /\ pc[t] = "cleanup"
  /\ pc' = [pc EXCEPT ![t] = "dequeue"]
  /\ inStore' = FALSE
  /\ UNCHANGED <<st, restart_count, hostconfig, has_been_manually_stopped, runtimeVars,
                 events_list, has_handler, cur, startPc, startPid,
                 restartPending, waiterVars, nPosted, applied, appliedExits>>

-----------------------------------------------------------------------------
\* container_reset_manually_stopped.
ContainerResetManuallyStopped == has_been_manually_stopped' = FALSE

\* container_exit_on_next: get_restart_manager, then restart_manager_cancel,
\* so a restart that container_restart_in_thread scheduled does not run.
ContainerExitOnNext == restartPending' = FALSE

(* Start and restart, outside src/: under the container lock set starting, *)
(* let the runtime create the process, then state_set_running records it.  *)
(* The process can exit, and its event be posted, before the lock is       *)
(* released.                                                               *)
BeginStart(kind) ==
  /\ Unlocked
  /\ inStore
  /\ nextPid \in Pids
  /\ startPc' = kind
  /\ st' = SetStarting(st)
  /\ proc' = nextPid
  /\ startPid' = nextPid
  /\ nextPid' = nextPid + 1

Start ==
  /\ ~IsRunning(st)
  /\ ~st.removal_inprogress
  /\ BeginStart("user")
  /\ ContainerResetManuallyStopped
  /\ UNCHANGED <<restart_count, hostconfig, exited, dupsLeft, handlerVars,
                 restartPending, inStore, waiterVars, applied, appliedExits>>

RestartThread ==
  /\ restartPending
  /\ IsRestarting(st)
  /\ BeginStart("restart")
  /\ restartPending' = FALSE
  /\ UNCHANGED <<restart_count, hostconfig, has_been_manually_stopped, exited, dupsLeft,
                 handlerVars, inStore, waiterVars, applied, appliedExits>>

\* state_set_running(pid_info, initial) and unlock; a restart is not initial.
StartRunning ==
  /\ startPc # "idle"
  /\ st' = SetRunning(st, startPid, startPc = "user")
  /\ startPc' = "idle"
  /\ UNCHANGED <<restart_count, hostconfig, has_been_manually_stopped, runtimeVars,
                 handlerVars, startPid, restartPending, inStore, waiterVars,
                 applied, appliedExits>>

\* Stop, outside src/: mark manual stop and cancel the restart manager
\* (container_exit_on_next); the kill makes the process exit later.
Stop ==
  /\ Unlocked
  /\ IsRunning(st) /\ ~IsRestarting(st)
  /\ has_been_manually_stopped' = TRUE
  /\ ContainerExitOnNext
  /\ UNCHANGED <<st, restart_count, hostconfig, runtimeVars, handlerVars, startPc,
                 startPid, inStore, waiterVars, applied, appliedExits>>

\* Pause and unpause, outside src/: state_set_paused / state_reset_paused.
Pause ==
  /\ Unlocked
  /\ IsRunning(st) /\ ~IsRestarting(st) /\ ~IsPaused(st)
  /\ proc # 0
  /\ st' = SetPaused(st)
  /\ UNCHANGED <<restart_count, hostconfig, has_been_manually_stopped, runtimeVars,
                 handlerVars, startPc, startPid, restartPending, inStore,
                 waiterVars, applied, appliedExits>>

Unpause ==
  /\ Unlocked
  /\ IsPaused(st)
  /\ st' = ResetPaused(st)
  /\ UNCHANGED <<restart_count, hostconfig, has_been_manually_stopped, runtimeVars,
                 handlerVars, startPc, startPid, restartPending, inStore,
                 waiterVars, applied, appliedExits>>

-----------------------------------------------------------------------------
(* container_wait_stop_locking: under the lock, return at once if the     *)
(* container is not running, else pthread_cond_wait, which releases it.   *)
WaitBegin(w) ==
  /\ wpc[w] = "idle"
  /\ Unlocked
  /\ wpc' = [wpc EXCEPT ![w] = IF IsRunning(st) THEN "waiting" ELSE "done"]
  /\ waitedExits' = [waitedExits EXCEPT ![w] = appliedExits]
  /\ UNCHANGED <<st, restart_count, hostconfig, has_been_manually_stopped, runtimeVars,
                 handlerVars, startPc, startPid, restartPending, inStore,
                 applied, appliedExits>>

\* The woken waiter reacquires the mutex and returns 0.
WaitReturn(w) ==
  /\ wpc[w] = "woken"
  /\ Unlocked
  /\ wpc' = [wpc EXCEPT ![w] = "done"]
  /\ UNCHANGED <<st, restart_count, hostconfig, has_been_manually_stopped, runtimeVars,
                 handlerVars, startPc, startPid, restartPending, inStore,
                 waitedExits, applied, appliedExits>>

\* pthread_cond_timedwait reaches the deadline (ETIMEDOUT).
WaitTimeout(w) ==
  /\ WaitCanTimeout
  /\ wpc[w] = "waiting"
  /\ Unlocked
  /\ wpc' = [wpc EXCEPT ![w] = "timedout"]
  /\ UNCHANGED <<st, restart_count, hostconfig, has_been_manually_stopped, runtimeVars,
                 handlerVars, startPc, startPid, restartPending, inStore,
                 waitedExits, applied, appliedExits>>

\* POSIX lets pthread_cond_wait return without a broadcast.
SpuriousWakeup(w) ==
  /\ SpuriousWakeups
  /\ wpc[w] = "waiting"
  /\ wpc' = [wpc EXCEPT ![w] = "woken"]
  /\ UNCHANGED <<st, restart_count, hostconfig, has_been_manually_stopped, runtimeVars,
                 handlerVars, startPc, startPid, restartPending, inStore,
                 waitedExits, applied, appliedExits>>

-----------------------------------------------------------------------------
\* events_handler_new: an empty events_list and no handler thread.
EventsHandlerNew ==
  /\ events_list = <<>>
  /\ has_handler = FALSE

Init ==
  /\ hostconfig \in HostConfigs
  /\ st = StateNew
  /\ restart_count = 0
  /\ has_been_manually_stopped = FALSE
  /\ proc = 0
  /\ nextPid = CHOOSE p \in Pids : \A q \in Pids : p <= q
  /\ exited = {}
  /\ dupsLeft = MaxDups
  /\ EventsHandlerNew
  /\ pc = [t \in Threads |-> "idle"]
  /\ cur = [t \in Threads |-> NoEvent]
  /\ startPc = "idle"
  /\ startPid = 0
  /\ restartPending = FALSE
  /\ inStore = TRUE
  /\ wpc = [w \in Waiters |-> "idle"]
  /\ waitedExits = [w \in Waiters |-> 0]
  /\ nPosted = 0
  /\ applied = <<>>
  /\ appliedExits = 0

Next ==
  \/ \E code \in ExitCodes : ProcessExit(code)
  \/ DuplicateExit
  \/ \E t \in Threads :
       \/ HandlerThreadStart(t) \/ HandleOne(t)
       \/ StateChangedIgnore(t) \/ StateChangedApply(t) \/ Cleanup(t)
  \/ Start \/ RestartThread \/ StartRunning
  \/ Stop \/ Pause \/ Unpause
  \/ \E w \in Waiters :
       WaitBegin(w) \/ WaitReturn(w) \/ WaitTimeout(w) \/ SpuriousWakeup(w)

(* The daemon's own threads are not starved: a spawned handler thread runs, *)
(* a start that holds the lock finishes, a woken waiter returns.  The      *)
(* runtime, the users and the restart timer get no fairness.              *)
Fairness ==
  /\ \A t \in Threads :
       /\ WF_vars(HandlerThreadStart(t)) /\ WF_vars(HandleOne(t))
       /\ WF_vars(StateChangedIgnore(t)) /\ WF_vars(StateChangedApply(t))
       /\ WF_vars(Cleanup(t))
  /\ WF_vars(StartRunning)
  /\ \A w \in Waiters : WF_vars(WaitReturn(w))

Spec == Init /\ [][Next]_vars /\ Fairness

-----------------------------------------------------------------------------
(* Properties                                                              *)

(* Every variable keeps the shape the C structures give it; in particular *)
(* the pid state_set_running records is one the runtime handed out.       *)
TypeOK ==
  /\ hostconfig \in HostConfigs /\ st \in StateRecords
  /\ restart_count \in Nat /\ has_been_manually_stopped \in BOOLEAN
  /\ proc \in Pids \cup {0}
  /\ events_list \in Seq(Events) /\ has_handler \in BOOLEAN
  /\ pc \in [Threads -> {"idle", "start", "dequeue", "handle", "cleanup"}]
  /\ cur \in [Threads -> Events \cup {NoEvent}]
  /\ startPc \in {"idle", "user", "restart"}
  /\ wpc \in [Waiters -> {"idle", "waiting", "woken", "done", "timedout"}]

\* The event still to be handled for process p: queued, or dequeued by a
\* handler thread.
ExitOnItsWay(p) ==
  \/ \E i \in DOMAIN events_list : events_list[i].pid = p
  \/ \E t \in Threads : pc[t] = "handle" /\ cur[t].pid = p

(* Whenever the container lock is free, the state agrees with the runtime: *)
(* a live process is the one state_set_running recorded, and a recorded    *)
(* running process that has died still has its STOPPED event on the way.   *)
(* Broken by container_state_changed applying a stale or duplicated event   *)
(* (the pid check), or by a start recording the wrong pid.                  *)
StateTracksProcess ==
  Unlocked =>
    /\ proc # 0 => st.running /\ ~st.restarting /\ st.pid = proc
    /\ st.running /\ ~st.restarting /\ st.pid # proc => ExitOnItsWay(st.pid)

WaitStopReturnsAfterExit ==
  [][\A w \in Waiters :
       (wpc[w] = "woken" /\ wpc'[w] = "done") => appliedExits > waitedExits[w]
    ]_vars

(* The dispatcher implements its design (EventQueue): with nPosted as the *)
(* events posted and applied as the events container_state_changed took,  *)
(* every event is handled exactly once, in posting order, and eventually.  *)
(* It needs has_handler to keep one handler thread per container, handle_  *)
(* one to pop the head, and every spawned thread to drain the queue.       *)
Dispatcher == INSTANCE EventQueue WITH posted <- nPosted, handled <- applied

ImplementsEventQueue == Dispatcher!Spec

ExitPending == st.running /\ ~st.restarting /\ proc = 0 /\ Unlocked

(* A waiter blocked on wait_stop while the process it waits for has exited *)
(* eventually returns.                                                     *)
WaitersWokenOnExit ==
  \A w \in Waiters :
    (wpc[w] = "waiting" /\ ExitPending) ~> (wpc[w] \in {"done", "timedout"})

(* An auto-remove container marked removal-in-progress by the handler is   *)
(* eventually removed from the store.                                      *)
AutoRemoveCompletes == st.removal_inprogress ~> ~inStore

=============================================================================
