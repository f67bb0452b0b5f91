--------------------------- MODULE ContainerState ---------------------------
(***************************************************************************)
(* The per-container state record container_config_v2_state and the      *)
(* transition functions of src/services/execution/manager/                 *)
(* container_state.c.  Every state_set_* function is a pure operator from  *)
(* the old record to the new one: the caller holds the state mutex for the *)
(* whole body, so the body is one step of whichever action calls it.       *)
(*                                                                         *)
(* Data abstraction: the started_at / finished_at strings are either the   *)
(* sentinel defaultContainerTime or "stamped" (get_now_time_buffer); the   *)
(* error string is only present or absent; pid_info is reduced to pid.     *)
(***************************************************************************)
EXTENDS Naturals

CONSTANTS
  Pids,       \* process ids a container process may get (never 0)
  ExitCodes   \* exit statuses reported by the runtime

ASSUME Pids \subseteq (Nat \ {0})

DefaultTime == "0001-01-01T00:00:00Z"   \* defaultContainerTime
Stamped     == "now"                    \* any value of get_now_time_buffer
Times       == {DefaultTime, Stamped}

\* Container_Status, as state_to_string names them.
Statuses == {"unknown", "inited", "starting", "running", "exited", "paused",
             "restarting"}

StateRecords ==
  [running : BOOLEAN, starting : BOOLEAN, restarting : BOOLEAN,
   paused : BOOLEAN, dead : BOOLEAN, removal_inprogress : BOOLEAN,
   pid : Pids \cup {0}, exit_code : ExitCodes \cup {0},
   started_at : Times, finished_at : Times, error : BOOLEAN]

\* container_state_new: calloc'ed flags, both times set to the sentinel.
StateNew ==
  [running |-> FALSE, starting |-> FALSE, restarting |-> FALSE,
   paused |-> FALSE, dead |-> FALSE, removal_inprogress |-> FALSE,
   pid |-> 0, exit_code |-> 0,
   started_at |-> DefaultTime, finished_at |-> DefaultTime, error |-> FALSE]

SetStarting(s)   == [s EXCEPT !.starting = TRUE]
SetDead(s)       == [s EXCEPT !.dead = TRUE]
ResetStarting(s) == [s EXCEPT !.starting = FALSE]
SetPaused(s)     == [s EXCEPT !.paused = TRUE]
ResetPaused(s)   == [s EXCEPT !.paused = FALSE]

\* state_set_running: pid = 0 stands for pid_info == NULL.
SetRunning(s, pid, initial) ==
  [s EXCEPT !.error = FALSE, !.running = TRUE, !.starting = FALSE,
            !.restarting = FALSE,
            !.paused = IF initial THEN FALSE ELSE @,
            !.exit_code = 0, !.pid = pid, !.started_at = Stamped]

\* state_set_stopped
SetStopped(s, code) ==
  [s EXCEPT !.running = FALSE, !.starting = FALSE, !.restarting = FALSE,
            !.paused = FALSE, !.exit_code = code, !.pid = 0,
            !.finished_at = Stamped]

\* update_start_and_finish_time (used when a container is restored)
UpdateStartAndFinishTime(s, finishAt) ==
  [s EXCEPT !.running = TRUE, !.starting = FALSE, !.restarting = FALSE,
            !.paused = FALSE, !.exit_code = 0,
            !.finished_at = finishAt, !.started_at = Stamped]

\* state_set_restarting: running stays TRUE, the pid lineage is zeroed.
SetRestarting(s, code) ==
  [s EXCEPT !.running = TRUE, !.starting = FALSE, !.restarting = TRUE,
            !.paused = FALSE, !.pid = 0, !.exit_code = code,
            !.finished_at = Stamped]

\* state_set_removal_in_progress returns whether the flag was already set
\* and sets it otherwise; the two halves of its result:
RemovalWasInProgress(s)  == s.removal_inprogress
SetRemovalInProgress(s)  == [s EXCEPT !.removal_inprogress = TRUE]
ResetRemovalInProgress(s) == [s EXCEPT !.removal_inprogress = FALSE]

\* The getters: each one reads a single field under the state lock.
IsRunning(s)    == s.running      \* is_running
IsRestarting(s) == s.restarting   \* is_restarting
IsPaused(s)     == s.paused       \* is_paused
StateGetPid(s)  == s.pid          \* state_get_pid

\* container_state_set_error with a non-NULL message
SetError(s) == [s EXCEPT !.error = TRUE]

\* state_judge_status: the precedence callers (list, filters) depend on.
JudgeStatus(s) ==
  CASE s.running /\ s.paused                         -> "paused"
    [] s.running /\ s.restarting                     -> "restarting"
    [] s.running                                     -> "running"
    [] s.starting                                    -> "starting"
    [] s.started_at = DefaultTime /\ s.finished_at = DefaultTime -> "inited"
    [] OTHER                                         -> "exited"
=============================================================================
