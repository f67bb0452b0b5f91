---------------------------- MODULE ContainerList ----------------------------
(***************************************************************************)
(* One call of container_list_cb (src/src/services/execution/execute/     *)
(* list.c) while other daemon threads change container states and remove  *)
(* containers.                                                             *)
(*                                                                         *)
(* The call reads shared state in three places, each its own step:         *)
(*   1. name_index_get_all, the snapshot of id -> name (ListCb);           *)
(*   2. filter_by_name_id_matches, whose id lookups go to the live store   *)
(*      (FilterStep);                                                      *)
(*   3. get_container_info per id: containers_store_get, then one          *)
(*      state_get_info snapshot under the state lock (GetContainerInfo).  *)
(* Container states are the records of ContainerState and change by its    *)
(* state_set_* operators.  Ids and names are model values chosen so that   *)
(* no filter value is a prefix or a substring of another id or name, so    *)
(* the prefix lookup and the filter match agree with exact comparison.     *)
(* Label filters are not modelled.                                         *)
(***************************************************************************)
EXTENDS ContainerState, Integers, FiniteSets

CONSTANTS
    Ids,           \* full container ids
    NameOf,        \* id -> container name
    Requests,      \* container_list_request values: [filters, all]
    StartStates,   \* states a container may be in when the call begins
    MaxChanges,    \* bound: state changes and removals by other threads
    AllocCanFail   \* whether an allocation of the call may fail

VARIABLES
    store,     \* ids in containers_store and name_index
    st,        \* id -> container_config_v2_state
    changes,   \* state changes and removals so far
    req,       \* the request of the call
    pc,        \* "idle", "fastpath", "info" or "done"
    all,       \* ctx->list_config->all after fold_filter
    index,     \* map_id_name, the name_index snapshot
    todo,      \* ids of idsarray not yet passed to get_container_info
    out,       \* response->containers
    ret,       \* container_list_cb's return value
    faults,    \* whether an allocation of the call failed
    held       \* id -> every state the container held since the call began

vars == <<store, st, changes, req, pc, all, index, todo, out, ret, faults, held>>

\* accepted_ps_filter_tags
AcceptedTags == {"id", "label", "name", "status"}

\* is_valid_state_string
ValidStateStrings == {"paused", "restarting", "running", "dead", "created", "exited"}

\* The values given for one filter key (no key: no values).
FilterVals(r, k) == IF k \in DOMAIN r.filters THEN r.filters[k] ELSE {}

\* filters_args_match: a key with no values matches everything.
Match(r, k, v) == FilterVals(r, k) = {} \/ v \in FilterVals(r, k)

\* fold_filter with do_add_filters: an unknown key or status value fails
\* the call; any status value sets list_config->all.
FoldFilterNoAll(r) ==
    IF \E k \in DOMAIN r.filters :
          k \notin AcceptedTags \/ (k = "status" /\ ~(r.filters[k] \subseteq ValidStateStrings))
    THEN [ok |-> FALSE, all |-> r.all]
    ELSE [ok |-> TRUE, all |-> r.all]

FoldFilter(r) ==
    IF \E k \in DOMAIN r.filters :
          k \notin AcceptedTags \/ (k = "status" /\ ~(r.filters[k] \subseteq ValidStateStrings))
    THEN [ok |-> FALSE, all |-> r.all]
    ELSE [ok |-> TRUE, all |-> r.all \/ FilterVals(r, "status") # {}]

\* filter_by_name_id_matches: the ids of idsarray.  insert_matched_id looks
\* each id value up in the live store; filter_by_name then adds named ids,
\* only among those when an id was given.  Any match selects the whole
\* snapshot, which get_container_info filters again.
FilterByNameIdMatches(r, idx, present) ==
    LET ids      == FilterVals(r, "id")
        names    == FilterVals(r, "name")
        byId     == ids \cap present
        byName   == {c \in idx : (ids = {} \/ c \in byId) /\ NameOf[c] \in names}
    IN  IF ids = {} /\ names = {} THEN idx
        ELSE IF byId \cup byName # {} THEN idx ELSE {}

\* container_info_match: name, id, then the status of the snapshot; a
\* created container answers to "created" or "inited".
ContainerInfoMatchNoId(r, c, s) ==
    /\ Match(r, "name", NameOf[c])
    /\ LET cs == JudgeStatus(s) IN
       IF cs = "inited" THEN Match(r, "status", "created") \/ Match(r, "status", "inited")
       ELSE Match(r, "status", cs)

ContainerInfoMatch(r, c, s) ==
    /\ Match(r, "name", NameOf[c])
    /\ Match(r, "id", c)
    /\ LET cs == JudgeStatus(s) IN
       IF cs = "inited" THEN Match(r, "status", "created") \/ Match(r, "status", "inited")
       ELSE Match(r, "status", cs)

\* get_cnt_state: a container that is not running is listed only with all.
GetCntState(s, allFlag) == s.running \/ allFlag

\* fill_isuladinfo: the entry is built from the one snapshot.
FillIsuladinfo(c, s) == [id |-> c, status |-> JudgeStatus(s), pid |-> s.pid]

Entries == [id : Ids, status : Statuses, pid : Pids \cup {0}]

Init ==
    /\ store = Ids
    /\ st \in [Ids -> StartStates]
    /\ changes = 0
    /\ req \in Requests
    /\ pc = "idle"
    /\ all = FALSE
    /\ index = {}
    /\ todo = {}
    /\ out = {}
    /\ ret = 0
    /\ faults = FALSE
    /\ held = [c \in Ids |-> {st[c]}]

(***************************************************************************)
(* The list call.                                                          *)
(***************************************************************************)

\* container_list_cb up to the fast path: allocate the response, fold the
\* filters, snapshot the name index.  An empty index is an empty success.
ListCb ==
    /\ pc = "idle"
    /\ held' = [c \in Ids |-> {st[c]}]
    /\ LET f == FoldFilter(req) IN
       \/ /\ AllocCanFail
          /\ pc' = "done" /\ ret' = -1 /\ faults' = TRUE
          /\ UNCHANGED <<all, index>>
       \/ /\ ~f.ok
          /\ pc' = "done" /\ ret' = -1
          /\ UNCHANGED <<all, index, faults>>
       \/ /\ f.ok
          /\ all' = f.all /\ index' = store
          /\ pc' = IF store = {} THEN "done" ELSE "fastpath"
          /\ UNCHANGED <<ret, faults>>
    /\ UNCHANGED <<store, st, changes, req, todo, out>>

\* filter_by_name_id_matches, then pack_list_containers up to its calloc.
\* A failed allocation in the fast path leaves idsarray NULL: the call
\* lists nothing and still returns 0.
FilterStep ==
    /\ pc = "fastpath"
    /\ LET ids == FilterByNameIdMatches(req, index, store) IN
       \/ /\ AllocCanFail
          /\ pc' = "done" /\ faults' = TRUE
          /\ UNCHANGED <<todo, ret>>
       \/ /\ ids = {}
          /\ pc' = "done"
          /\ UNCHANGED <<todo, ret, faults>>
       \/ /\ ids # {} /\ AllocCanFail
          /\ pc' = "done" /\ ret' = -1 /\ faults' = TRUE
          /\ UNCHANGED todo
       \/ /\ ids # {}
          /\ pc' = "info" /\ todo' = ids
          /\ UNCHANGED <<ret, faults>>
    /\ UNCHANGED <<store, st, changes, req, all, index, out, held>>

\* state_get_info: a copy of every field of the state, taken in one
\* critical section of the state lock.
StateGetInfo(c) == st[c]

\* get_container_info for one id of idsarray, appended by
\* pack_list_containers unless it returns NULL.  The container may be gone
\* from the store; its state is one state_get_info snapshot; an allocation
\* failure (state_get_info, map_new, calloc, fill_isuladinfo) only drops
\* the entry.
GetContainerInfo(c) ==
    /\ pc = "info" /\ c \in todo
    /\ LET s    == StateGetInfo(c)
           keep == /\ c \in store
                   /\ GetCntState(s, all)
                   /\ ContainerInfoMatch(req, c, s)
       IN \/ /\ keep
             /\ out' = out \cup {FillIsuladinfo(c, s)}
             /\ UNCHANGED faults
          \/ /\ ~keep
             /\ UNCHANGED <<out, faults>>
          \/ /\ AllocCanFail /\ c \in store
             /\ faults' = TRUE
             /\ UNCHANGED out
    /\ todo' = todo \ {c}
    /\ pc' = IF todo' = {} THEN "done" ELSE pc
    /\ UNCHANGED <<store, st, changes, req, all, index, ret, held>>

(***************************************************************************)
(* Other threads, while the call runs.                                     *)
(***************************************************************************)

\* The transitions the start, stop, pause, unpause and restart paths make
\* with the state_set_* functions.
Lifecycle(s) ==
    (IF ~s.running /\ ~s.starting THEN {SetStarting(s)} ELSE {})
    \cup (IF s.starting THEN {SetRunning(s, p, TRUE) : p \in Pids} ELSE {})
    \cup (IF s.restarting THEN {SetRunning(s, p, FALSE) : p \in Pids} ELSE {})
    \cup (IF s.running THEN {SetStopped(s, x) : x \in ExitCodes} ELSE {})
    \cup (IF s.running /\ ~s.paused /\ ~s.restarting
          THEN {SetPaused(s)} \cup {SetRestarting(s, x) : x \in ExitCodes} ELSE {})
    \cup (IF s.paused THEN {ResetPaused(s)} ELSE {})

StateChange(c) ==
    /\ pc # "done" /\ c \in store /\ changes < MaxChanges
    /\ \E s2 \in Lifecycle(st[c]) :
         /\ st' = [st EXCEPT ![c] = s2]
         /\ held' = [held EXCEPT ![c] = @ \cup {s2}]
    /\ changes' = changes + 1
    /\ UNCHANGED <<store, req, pc, all, index, todo, out, ret, faults>>

\* Removal of a container that is not running, from the store and the
\* name index.
Remove(c) ==
    /\ pc # "done" /\ c \in store /\ ~st[c].running /\ changes < MaxChanges
    /\ store' = store \ {c}
    /\ changes' = changes + 1
    /\ UNCHANGED <<st, req, pc, all, index, todo, out, ret, faults, held>>

Next ==
    \/ ListCb
    \/ FilterStep
    \/ \E c \in Ids : GetContainerInfo(c)
    \/ \E c \in Ids : StateChange(c) \/ Remove(c)

Spec == Init /\ [][Next]_vars

(***************************************************************************)
(* Properties.                                                             *)
(***************************************************************************)

TypeOK ==
    /\ store \subseteq Ids
    /\ st \in [Ids -> StateRecords]
    /\ pc \in {"idle", "fastpath", "info", "done"}
    /\ index \subseteq Ids /\ todo \subseteq index
    /\ out \subseteq Entries
    /\ ret \in {0, -1}
    /\ faults \in BOOLEAN

\* What ps is asked for: the named and given ids, and a status filter on
\* the status ps shows (a never-started container shows "created");
\* without one, running containers only unless --all.
Wanted(r, c, s) ==
    LET shown == IF JudgeStatus(s) = "inited" THEN "created" ELSE JudgeStatus(s) IN
    /\ FilterVals(r, "name") # {} => NameOf[c] \in FilterVals(r, "name")
    /\ FilterVals(r, "id") # {} => c \in FilterVals(r, "id")
    /\ IF FilterVals(r, "status") = {} THEN s.running \/ r.all
       ELSE shown \in FilterVals(r, "status")

\* The request uses accepted keys and status values only.
ValidRequest(r) ==
    /\ DOMAIN r.filters \subseteq AcceptedTags
    /\ FilterVals(r, "status") \subseteq ValidStateStrings

\* When no allocation failed, a valid request returns 0 and lists every
\* container that stayed in the store and was wanted in every state it held
\* while the call ran: neither the fast path in filter_by_name_id_matches
\* nor the status and --all handling of fold_filter and get_cnt_state may
\* lose it.
ListComplete ==
    pc = "done" /\ ~faults /\ ValidRequest(req) =>
        /\ ret = 0
        /\ \A c \in store :
             (\A s \in held[c] : Wanted(req, c, s)) => \E e \in out : e.id = c

\* Every listed entry is one state the container held while the call ran,
\* its status and pid taken together, and that state is wanted: the
\* filters of container_info_match are applied to the same snapshot the
\* entry is filled from.
ListSound ==
    \A e \in out : \E s \in held[e.id] :
        /\ Wanted(req, e.id, s)
        /\ e.status = JudgeStatus(s) /\ e.pid = s.pid

====
