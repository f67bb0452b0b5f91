---------------------------- MODULE DaemonConfig ----------------------------
(***************************************************************************)
(* The daemon configuration (config/isulad_config.c) at start-up:          *)
(* merge_json_confs_into_global merges daemon.json into the parsed         *)
(* command line, save_args_to_conf publishes the result, and               *)
(* init_cgroups_path creates a cgroup path with the configured realtime    *)
(* budget, parents first.                                                  *)
(*                                                                         *)
(* A configuration value is abstracted to who set it: "a" (the command     *)
(* line), "f" (daemon.json), Unset (NULL, false or 0) or Empty (the empty  *)
(* string).  A cgroup path is the sequence of its components; <<>> stands *)
(* for both "/" and ".", where the recursion stops.                         *)
(***************************************************************************)
EXTENDS Integers, Sequences, SequencesExt

CONSTANTS
    Hosts,             \* daemon socket addresses (-H, "hosts")
    MaxHosts,          \* MAX_HOSTS
    ScalarFields,      \* the scalar fields of isulad_daemon_configs checked
    ArgsInputs,        \* parsed command lines
    FileInputs,        \* daemon.json contents
    CgroupPaths,       \* paths init_cgroups_path is called with
    CgroupStartDepth,  \* its recursive_depth argument
    MaxPathDepth       \* MAX_PATH_DEPTH

VARIABLES
    pc,         \* merge, publish, cgroup, done or exited
    args,       \* the service_arguments parsed from the command line
    file,       \* the parsed daemon.json
    merged,     \* args after merge_json_confs_into_global
    mergeRet,   \* what merge_json_confs_into_global returned (0 before)
    oom,        \* the allocation of the merge that fails, or "none"
    conf,       \* g_isulad_conf.server_conf (the command line before publication)
    cgPath,     \* the path of the init_cgroups_path call
    cgFault,    \* the step of it that fails, or NoFault
    cg          \* [ret, sys, dirs, files, log]: the cgroup tree and the writes made

vars == <<pc, args, file, merged, mergeRet, oom, conf, cgPath, cgFault, cg>>

Unset == "unset"
Empty == "empty"

(***************************************************************************)
(* How merge_json_confs_into_global takes each scalar field from the file: *)
(* override_string_value when the string is non-empty, a plain assignment  *)
(* guarded by the value being true or non-zero, override_bool_pointer_value*)
(* and the ulimits when non-NULL, or an unconditional assignment.          *)
(***************************************************************************)
MergeRule == [
    default_runtime |-> "nonempty", group |-> "nonempty", graph |-> "nonempty",
    state |-> "nonempty", log_level |-> "nonempty", log_driver |-> "nonempty",
    pidfile |-> "nonempty", engine |-> "nonempty", hook_spec |-> "nonempty",
    enable_plugins |-> "nonempty", native_umask |-> "nonempty",
    cgroup_parent |-> "nonempty", rootfsmntdir |-> "nonempty",
    start_timeout |-> "nonempty", image_opt_timeout |-> "nonempty",
    image_server_sock_addr |-> "nonempty", pod_sandbox_image |-> "nonempty",
    network_plugin |-> "nonempty", cni_bin_dir |-> "nonempty",
    cni_conf_dir |-> "nonempty", storage_driver |-> "nonempty",
    ca_file |-> "nonempty", cert_file |-> "nonempty", key_file |-> "nonempty",
    authorization_plugin |-> "nonempty",
    image_service |-> "set", image_layer_check |-> "set",
    websocket_server_listening_port |-> "set", use_decrypted_key |-> "set",
    insecure_skip_verify_enforce |-> "set", default_ulimits |-> "set",
    runtimes |-> "always", tls |-> "always", tls_verify |-> "always",
    selinux_enabled |-> "always"]

LogOptKeys == {"log-path", "log-file-mode", "max-file", "max-size"}
ListFields == {"storage_opts", "registry_mirrors", "insecure_registries"}
AllocPoints == {"hosts", "log_opts", "storage_opts", "registry_mirrors", "insecure_registries"}
RtFiles == {"cpu.rt_period_us", "cpu.rt_runtime_us"}

OverrideStringValueAnyString(dst, src) == IF src = Unset THEN dst ELSE src

\* override_string_value: a NULL or empty source leaves the destination.
OverrideStringValue(dst, src) == IF src \in {Unset, Empty} THEN dst ELSE src

\* The value a scalar field takes from its rule.
MergeField(f, dst, src) ==
    CASE MergeRule[f] = "nonempty" -> OverrideStringValue(dst, src)
      [] MergeRule[f] = "set"      -> IF src = Unset THEN dst ELSE src
      [] OTHER                     -> src

(***************************************************************************)
(* merge_hosts_conf_into_global: each file host not already in the list   *)
(* (the command line's and those appended so far) is appended; the call    *)
(* fails on an allocation failure or when the list grows past MAX_HOSTS.   *)
(***************************************************************************)
RECURSIVE MergeHostsFromOffByOne(_, _, _, _)
MergeHostsFromOffByOne(hosts, fh, i, fail) ==
    IF i > Len(fh) THEN [ret |-> 0, hosts |-> hosts]
    ELSE IF Contains(hosts, fh[i]) THEN MergeHostsFromOffByOne(hosts, fh, i + 1, fail)
    ELSE IF fail = "hosts" \/ Len(hosts) + 1 >= MaxHosts
         THEN [ret |-> -1, hosts |-> Append(hosts, fh[i])]
    ELSE MergeHostsFromOffByOne(Append(hosts, fh[i]), fh, i + 1, fail)

RECURSIVE MergeHostsFrom(_, _, _, _)
MergeHostsFrom(hosts, fh, i, fail) ==
    IF i > Len(fh) THEN [ret |-> 0, hosts |-> hosts]
    ELSE IF Contains(hosts, fh[i]) THEN MergeHostsFrom(hosts, fh, i + 1, fail)
    ELSE IF fail = "hosts" \/ Len(hosts) + 1 > MaxHosts
         THEN [ret |-> -1, hosts |-> Append(hosts, fh[i])]
    ELSE MergeHostsFrom(Append(hosts, fh[i]), fh, i + 1, fail)

(***************************************************************************)
(* parse_log_opts: log-path takes any value; log-file-mode a number;       *)
(* max-file and max-size a number above 0; any other key is an error.  A  *)
(* value is abstracted to "pos", "zero" or "bad" (not a number).          *)
(***************************************************************************)
ParseLogOpts(key, value) ==
    CASE key = "log-path"      -> TRUE
      [] key = "log-file-mode" -> value # "bad"
      [] key \in {"max-file", "max-size"} -> value = "pos"
      [] OTHER                 -> FALSE

\* merge_logs_conf_into_global's loop: each option is parsed, then appended
\* to the log_opts map.
RECURSIVE MergeLogOptsFrom(_, _, _, _)
MergeLogOptsFrom(log, opts, i, fail) ==
    IF i > Len(opts) THEN [ret |-> 0, log |-> log]
    ELSE IF ~ParseLogOpts(opts[i][1], opts[i][2]) \/ fail = "log_opts"
         THEN [ret |-> -1, log |-> log]
    ELSE MergeLogOptsFrom([log EXCEPT ![opts[i][1]] = opts[i][2]], opts, i + 1, fail)

\* string_array_append: a non-empty suffix grows the array, which may fail.
StringArrayAppend(f, cur, suffix, fail) ==
    IF suffix # <<>> /\ fail = f THEN [ret |-> -1, list |-> cur]
    ELSE [ret |-> 0, list |-> cur \o suffix]

\* The cpu_rt_period and cpu_rt_runtime of the file count when above 0.
MergeRt(a, f) == IF f > 0 THEN f ELSE a

(***************************************************************************)
(* merge_json_confs_into_global and the merge_*_into_global functions it  *)
(* calls in turn.  It stops at the first failure; the daemon then exits,   *)
(* so the half-merged arguments are not kept.                              *)
(***************************************************************************)
MergeJsonConfsIntoGlobal(a, fl, fail) ==
    LET h  == MergeHostsFrom(a.hosts, fl.hosts, 1, fail)
        l  == MergeLogOptsFrom(a.log, fl.logOpts, 1, fail)
        s  == StringArrayAppend("storage_opts", a.lists["storage_opts"],
                                fl.lists["storage_opts"], fail)
        rm == StringArrayAppend("registry_mirrors", a.lists["registry_mirrors"],
                                fl.lists["registry_mirrors"], fail)
        ir == StringArrayAppend("insecure_registries", a.lists["insecure_registries"],
                                fl.lists["insecure_registries"], fail)
        res == [hosts  |-> h.hosts,
                fields |-> [f \in ScalarFields |-> MergeField(f, a.fields[f], fl.fields[f])],
                log    |-> l.log,
                lists  |-> [storage_opts |-> s.list, registry_mirrors |-> rm.list,
                            insecure_registries |-> ir.list],
                rt     |-> [period  |-> MergeRt(a.rt.period, fl.rt.period),
                            runtime |-> MergeRt(a.rt.runtime, fl.rt.runtime)]]
    IN IF ~fl.parseable \/ h.ret # 0 \/ l.ret # 0 \/ s.ret # 0 \/ rm.ret # 0 \/ ir.ret # 0
       THEN [ret |-> -1, conf |-> a]
       ELSE [ret |-> 0, conf |-> res]

MergeJsonConfs ==
    /\ pc = "merge"
    /\ \E fail \in AllocPoints \cup {"none"} :
          LET r == MergeJsonConfsIntoGlobal(args, file, fail) IN
          /\ oom' = fail
          /\ mergeRet' = r.ret
          /\ merged' = r.conf
          /\ pc' = IF r.ret = 0 THEN "publish" ELSE "exited"
    /\ UNCHANGED <<args, file, conf, cgPath, cgFault, cg>>

\* save_args_to_conf: the lock is (re)initialised, then the arguments
\* replace the published configuration under the write lock.
SaveArgsToConf ==
    /\ pc = "publish"
    /\ \E ok \in BOOLEAN :
          /\ conf' = IF ok THEN merged ELSE conf
          /\ pc' = IF ok THEN "cgroup" ELSE "exited"
    /\ UNCHANGED <<args, file, merged, mergeRet, oom, cgPath, cgFault, cg>>

(***************************************************************************)
(* init_cgroups_path and recursively_create_cgroup.  A call fails at most  *)
(* once, at one of its steps on one level: reading the realtime values     *)
(* ("rt"), finding the cpu mount, reading the system info, or the mkdir or *)
(* the open/write of one of the two files.  get_sys_info's answer on which *)
(* cpu.rt_* files the kernel has is the same on every level (cg.sys).      *)
(***************************************************************************)
Levels(path) == Prefixes(path) \ {<<>>}
CgSteps == {"rt", "mnt", "sysinfo"} \cup (RtFiles \X {"mkdir", "write"})
CgFaults(path) == [at : Levels(path), step : CgSteps]
NoFault == [at |-> <<>>, step |-> "none"]

Fails(fault, path, step) == fault.at = path /\ fault.step = step

\* util_mkdir_p: every missing directory of the path, top down.
MkdirP(dirs, path) == dirs \cup Levels(path)

\* get_cgroup_cpu_rt: the values of the published configuration.
GetCgroupCpuRt == conf.rt

MaybeCreateCpuRealtimeFileUnchecked(present, value, f, path, st, fault) ==
    IF value = 0 THEN st
    ELSE IF Fails(fault, path, <<f, "mkdir">>) THEN [st EXCEPT !.ret = -1]
    ELSE IF Fails(fault, path, <<f, "write">>)
         THEN [st EXCEPT !.ret = -1, !.dirs = MkdirP(@, path)]
    ELSE [st EXCEPT !.dirs = MkdirP(@, path),
                    !.files[path][f] = value,
                    !.log = Append(@, [dir |-> path, file |-> f, value |-> value])]

(***************************************************************************)
(* maybe_create_cpu_realtime_file: nothing when the kernel lacks the file  *)
(* or the value is 0; otherwise the directory is created and the value     *)
(* written.                                                                *)
(***************************************************************************)
MaybeCreateCpuRealtimeFile(present, value, f, path, st, fault) ==
    IF ~present \/ value = 0 THEN st
    ELSE IF Fails(fault, path, <<f, "mkdir">>) THEN [st EXCEPT !.ret = -1]
    ELSE IF Fails(fault, path, <<f, "write">>)
         THEN [st EXCEPT !.ret = -1, !.dirs = MkdirP(@, path)]
    ELSE [st EXCEPT !.dirs = MkdirP(@, path),
                    !.files[path][f] = value,
                    !.log = Append(@, [dir |-> path, file |-> f, value |-> value])]

RECURSIVE InitCgroupsPath(_, _, _, _), RecursivelyCreateCgroup(_, _, _, _)

RecursivelyCreateCgroupChildFirst(path, depth, st, fault) ==
    LET rt == GetCgroupCpuRt
        p  == MaybeCreateCpuRealtimeFile(st.sys.period, rt.period,
                                         "cpu.rt_period_us", path, st, fault)
        r  == IF p.ret # 0 THEN p
              ELSE MaybeCreateCpuRealtimeFile(p.sys.runtime, rt.runtime,
                                              "cpu.rt_runtime_us", path, p, fault)
    IN IF Fails(fault, path, "mnt") \/ Fails(fault, path, "sysinfo")
       THEN [st EXCEPT !.ret = -1]
       ELSE IF r.ret # 0 THEN r
       ELSE InitCgroupsPath(Front(path), depth + 1, r, fault)

\* The parent path first, with the depth one more, then this level's files.
RecursivelyCreateCgroup(path, depth, st, fault) ==
    LET up == InitCgroupsPath(Front(path), depth + 1, st, fault)
        rt == GetCgroupCpuRt
        p  == MaybeCreateCpuRealtimeFile(st.sys.period, rt.period,
                                         "cpu.rt_period_us", path, up, fault)
    IN IF up.ret # 0 THEN up
       ELSE IF Fails(fault, path, "mnt") \/ Fails(fault, path, "sysinfo")
            THEN [up EXCEPT !.ret = -1]
       ELSE IF p.ret # 0 THEN p
       ELSE MaybeCreateCpuRealtimeFile(p.sys.runtime, rt.runtime,
                                       "cpu.rt_runtime_us", path, p, fault)

InitCgroupsPath(path, depth, st, fault) ==
    IF depth + 1 > MaxPathDepth THEN [st EXCEPT !.ret = -1]
    ELSE IF path = <<>> THEN [st EXCEPT !.ret = 0]
    ELSE IF Fails(fault, path, "rt") THEN [st EXCEPT !.ret = -1]
    ELSE IF GetCgroupCpuRt.period = 0 /\ GetCgroupCpuRt.runtime = 0 THEN [st EXCEPT !.ret = 0]
    ELSE RecursivelyCreateCgroup(path, depth, st, fault)

InitCgroups ==
    /\ pc = "cgroup"
    /\ \E path \in CgroupPaths, sys \in [period : BOOLEAN, runtime : BOOLEAN] :
          \E fault \in CgFaults(path) \cup {NoFault} :
             /\ cgPath' = path
             /\ cgFault' = fault
             /\ cg' = InitCgroupsPath(path, CgroupStartDepth, [cg EXCEPT !.sys = sys], fault)
    /\ pc' = "done"
    /\ UNCHANGED <<args, file, merged, mergeRet, oom, conf>>

AllDirs == UNION {Levels(p) : p \in CgroupPaths}

Init ==
    /\ pc = "merge"
    /\ args \in ArgsInputs
    /\ file \in FileInputs
    /\ merged = args
    /\ mergeRet = 0
    /\ oom = "none"
    /\ conf = args
    /\ cgPath = <<>>
    /\ cgFault = NoFault
    /\ cg = [ret |-> 0, sys |-> [period |-> FALSE, runtime |-> FALSE], dirs |-> {},
             files |-> [d \in AllDirs |-> [f \in RtFiles |-> 0]], log |-> <<>>]

Next == MergeJsonConfs \/ SaveArgsToConf \/ InitCgroups

Spec == Init /\ [][Next]_vars

(***************************************************************************)
(* Properties.                                                             *)
(***************************************************************************)

\* The file's hosts the merge adds: those not on the command line, each
\* once, in the order of their first occurrence in the file.
AddedHostsOk(a, fl, added) ==
    LET new == ToSet(fl.hosts) \ ToSet(a.hosts)
        First(x) == SelectInSeq(fl.hosts, LAMBDA y : y = x)
    IN /\ ToSet(added) = new
       /\ Len(added) = Cardinality(new)
       /\ \A i, j \in 1..Len(added) : i < j => First(added[i]) < First(added[j])

\* The last value daemon.json gives a log option, or the command line's.
LastLogOpt(a, fl, k) ==
    LET at == SelectLastInSeq(fl.logOpts, LAMBDA o : o[1] = k)
    IN IF at = 0 THEN a.log[k] ELSE fl.logOpts[at][2]

\* A scalar field is set by daemon.json when the file's value is given:
\* a non-empty string, a true or non-zero value, and always for the fields
\* assigned unconditionally.
FileSets(f, v) ==
    CASE MergeRule[f] = "nonempty" -> v \notin {Unset, Empty}
      [] MergeRule[f] = "set"      -> v # Unset
      [] OTHER                     -> TRUE

\* merge_json_confs_into_global, when it returns 0, gives the command line
\* overridden field by field by daemon.json: hosts are the command line's
\* followed by the file's new ones without duplicates, log options take
\* the file's last value, lists are concatenated, and a realtime value of
\* the file counts when it is above 0.
MergeMatchesSpec ==
    pc # "merge" /\ mergeRet = 0 =>
        /\ IsPrefix(args.hosts, merged.hosts)
        /\ AddedHostsOk(args, file, SubSeq(merged.hosts, Len(args.hosts) + 1, Len(merged.hosts)))
        /\ \A f \in ScalarFields :
              merged.fields[f] = IF FileSets(f, file.fields[f]) THEN file.fields[f] ELSE args.fields[f]
        /\ \A k \in LogOptKeys : merged.log[k] = LastLogOpt(args, file, k)
        /\ \A l \in ListFields : merged.lists[l] = args.lists[l] \o file.lists[l]
        /\ \A x \in {"period", "runtime"} :
              merged.rt[x] = IF file.rt[x] > 0 THEN file.rt[x] ELSE args.rt[x]

\* The allocations the merge makes: one per new host, one per log option,
\* and one per non-empty list of the file.
AllocsMade ==
    (IF ToSet(file.hosts) \subseteq ToSet(args.hosts) THEN {} ELSE {"hosts"})
    \cup (IF file.logOpts = <<>> THEN {} ELSE {"log_opts"})
    \cup {l \in ListFields : file.lists[l] # <<>>}

\* merge_json_confs_into_global fails exactly when daemon.json cannot be
\* parsed, an allocation fails, a log option is invalid, or the hosts of
\* both sources together exceed MAX_HOSTS while the file adds one.
MergeFailsOnlyOnFault ==
    pc # "merge" =>
        (mergeRet = -1 <=>
            \/ ~file.parseable
            \/ oom \in AllocsMade
            \/ \E i \in 1..Len(file.logOpts) : ~ParseLogOpts(file.logOpts[i][1], file.logOpts[i][2])
            \/ LET new == ToSet(file.hosts) \ ToSet(args.hosts)
               IN new # {} /\ Len(args.hosts) + Cardinality(new) > MaxHosts)

\* init_cgroups_path without a failing step: it fails exactly when the
\* recursion's last level, "/" or ".", lies MAX_PATH_DEPTH levels down
\* (only the first level is checked when nothing is to be written), and on
\* success every level of the path holds each realtime file the kernel has
\* with the configured value.
CgroupInitMatchesSpec ==
    pc = "done" /\ cgFault = NoFault =>
        LET rt == conf.rt
            last == IF cgPath = <<>> \/ (rt.period = 0 /\ rt.runtime = 0)
                    THEN CgroupStartDepth ELSE CgroupStartDepth + Len(cgPath)
            expect == [f \in RtFiles |->
                         IF f = "cpu.rt_period_us"
                         THEN IF cg.sys.period THEN rt.period ELSE 0
                         ELSE IF cg.sys.runtime THEN rt.runtime ELSE 0]
        IN /\ (cg.ret = 0 <=> last + 1 <= MaxPathDepth)
           /\ cg.ret = 0 => \A d \in Levels(cgPath) : cg.files[d] = expect

\* recursively_create_cgroup sets a realtime file on a cgroup only after
\* setting it on every parent cgroup of the path, the kernel's condition
\* for a child's budget; a failure on a level stops the levels below it.
ParentsWrittenFirst ==
    \A i \in DOMAIN cg.log :
        \A q \in Levels(cg.log[i].dir) \ {cg.log[i].dir} :
            \E j \in 1..(i - 1) : cg.log[j].dir = q /\ cg.log[j].file = cg.log[i].file

=============================================================================
