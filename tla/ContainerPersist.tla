--------------------------- MODULE ContainerPersist ---------------------------
(***************************************************************************)
(* Persistence of one container across daemon crashes, from                *)
(* src/src/services/execution/manager/container_unix.c: container_to_disk  *)
(* (container_save_config_v2, then container_save_host_config, each        *)
(* through save_json_config_file) and container_load (read_config_v2,      *)
(* read_host_config, container_new).                                       *)
(*                                                                         *)
(* The in-memory configuration is abstracted to a generation per file:     *)
(* "v2" is config.v2.json ({common_config, state, image}) and "host" is    *)
(* hostconfig.json.  A file on disk holds a generation, is Empty (after    *)
(* the O_TRUNC open) or Torn (a short write left a prefix of the JSON).    *)
(* Every change to the configuration is made and saved under the           *)
(* container lock, so changes and saves do not interleave; the daemon may  *)
(* crash between any two steps.                                            *)
(***************************************************************************)
EXTENDS Integers, Sequences

CONSTANTS
    MaxGen,        \* bound: changes made to each file's contents
    MaxCrashes,    \* bound: daemon crashes
    OpenCanFail,   \* whether util_open may fail
    WriteCanFail   \* whether util_write_nointr may write short (ENOSPC, EIO)

Files == {"v2", "host"}

Gens == 0..MaxGen

\* File contents that do not parse.
Empty == -1

Torn == -2

VARIABLES
    status,   \* "loaded", "down" (daemon not running) or "lost" (load failed)
    mem,      \* file -> generation of the loaded container
    disk,     \* file -> generation | Empty | Torn
    pc,       \* the step of container_to_disk in progress
    ret,      \* the result of the last container_to_disk
    acked,    \* generations of the last container_to_disk that returned 0
    crashes   \* crashes so far

vars == <<status, mem, disk, pc, ret, acked, crashes>>

Loaded == status = "loaded"

\* The container was created and saved: both files hold generation 0.
Init ==
    /\ status = "loaded"
    /\ mem = [f \in Files |-> 0]
    /\ disk = [f \in Files |-> 0]
    /\ pc = "idle"
    /\ ret = 0
    /\ acked = [f \in Files |-> 0]
    /\ crashes = 0

\* A change to the file's contents under the container lock, followed in
\* the same critical section by container_to_disk.
Mutate(f) ==
    /\ Loaded /\ pc = "idle"
    /\ mem[f] < MaxGen
    /\ mem' = [mem EXCEPT ![f] = @ + 1]
    /\ pc' = "v2open"
    /\ UNCHANGED <<status, disk, ret, acked, crashes>>

\* util_open: cleanpath, then open(2); either may fail.
UtilOpenResults == {TRUE} \cup (IF OpenCanFail THEN {FALSE} ELSE {})

\* util_write_nointr: one write(2), retried only on EINTR.  It may write
\* the whole buffer or, on ENOSPC or EIO, a prefix of it.
UtilWriteNointr(v) == {v} \cup (IF WriteCanFail THEN {Torn} ELSE {})

\* save_json_config_file: util_open with O_CREAT | O_TRUNC.  A failed open
\* leaves the file alone and ends container_to_disk with -1.
SaveOpen(f, write) ==
    /\ pc = f \o "open"
    /\ \E opened \in UtilOpenResults :
         IF opened
         THEN disk' = [disk EXCEPT ![f] = Empty] /\ pc' = write /\ UNCHANGED ret
         ELSE pc' = "idle" /\ ret' = -1 /\ UNCHANGED disk
    /\ UNCHANGED <<status, mem, acked, crashes>>

\* Mutation: a failed write is reported as success.
SaveWriteIgnoreError(f, next) ==
    /\ pc = f \o "write"
    /\ \E v \in {mem[f]} \cup (IF WriteCanFail THEN {Torn} ELSE {}) :
         /\ disk' = [disk EXCEPT ![f] = v]
         /\ IF next = "done"
            THEN pc' = "idle" /\ ret' = 0 /\ acked' = mem
            ELSE pc' = next /\ UNCHANGED <<ret, acked>>
    /\ UNCHANGED <<status, mem, crashes>>

\* save_json_config_file: util_write_nointr of the generated JSON.
SaveWrite(f, next) ==
    /\ pc = f \o "write"
    /\ \E v \in UtilWriteNointr(mem[f]) :
         /\ disk' = [disk EXCEPT ![f] = v]
         /\ IF v # mem[f]
            THEN pc' = "idle" /\ ret' = -1 /\ UNCHANGED acked
            ELSE IF next = "done"
            THEN pc' = "idle" /\ ret' = 0 /\ acked' = mem
            ELSE pc' = next /\ UNCHANGED <<ret, acked>>
    /\ UNCHANGED <<status, mem, crashes>>

\* container_save_config_v2, then container_save_host_config; the first
\* failure ends container_to_disk.
SaveConfigV2Open == SaveOpen("v2", "v2write")

SaveConfigV2Write == SaveWrite("v2", "hostopen")

SaveHostConfigOpen == SaveOpen("host", "hostwrite")

SaveHostConfigWrite == SaveWrite("host", "done")

\* The daemon dies: the save in progress is gone and mem no longer counts.
Crash ==
    /\ status # "down"
    /\ crashes < MaxCrashes
    /\ status' = "down" /\ pc' = "idle"
    /\ crashes' = crashes + 1
    /\ UNCHANGED <<mem, disk, ret, acked>>

\* A file parses only when it holds a whole generation.
Parses(f) == disk[f] \in Gens

\* container_load at restart: read_config_v2 and read_host_config must
\* both parse; the state comes from config.v2.json.  A failure leaves the
\* container out of the daemon.
ContainerLoad ==
    /\ status = "down"
    /\ IF Parses("v2") /\ Parses("host")
       THEN status' = "loaded" /\ mem' = disk
       ELSE status' = "lost" /\ UNCHANGED mem
    /\ UNCHANGED <<disk, pc, ret, acked, crashes>>

Next ==
    \/ \E f \in Files : Mutate(f)
    \/ SaveConfigV2Open \/ SaveConfigV2Write
    \/ SaveHostConfigOpen \/ SaveHostConfigWrite
    \/ Crash
    \/ ContainerLoad

Spec == Init /\ [][Next]_vars

(***************************************************************************)
(* Properties.                                                             *)
(***************************************************************************)
FileStates == Gens \cup {Empty, Torn}

TypeOK ==
    /\ status \in {"loaded", "down", "lost"}
    /\ mem \in [Files -> Gens]
    /\ disk \in [Files -> FileStates]
    /\ pc \in {"idle", "v2open", "v2write", "hostopen", "hostwrite"}
    /\ ret \in {0, -1}
    /\ acked \in [Files -> Gens]
    /\ crashes \in 0..MaxCrashes

\* When container_to_disk has returned 0, both files hold exactly the
\* loaded container's configuration: a failed open or short write of
\* either file is never reported as a successful save.
SaveSuccessMeansOnDisk ==
    Loaded /\ pc = "idle" /\ ret = 0 => disk = mem

\* A container whose configuration was saved successfully is never lost
\* by a crash: container_load always finds both files whole.
ContainerSurvivesCrash == status # "lost"

==============================================================================
