----------------------------- MODULE MountMerge -----------------------------
(***************************************************************************)
(* merge_conf_mounts of src/services/execution/spec/specs_mount.c: the     *)
(* steps that complete the OCI spec's mount list of one container, in the  *)
(* order the function calls them: binds (merge_volumes with parse_volume), *)
(* the host channel, --mount entries (merge_volumes with parse_mount), the *)
(* shm_size default and setup_ipc_dirs, add_shm_mount, change_dev_shm_size *)
(* and append_network_files_mounts.  The configuration is chosen in Init;  *)
(* each step is one action that runs its whole callee, so a behaviour is   *)
(* one call of merge_conf_mounts.                                          *)
(*                                                                         *)
(* Data abstraction: a --volume string is given as its ':'-separated       *)
(* fields (an empty field marks a leading or trailing ':'), a --mount      *)
(* string as its ','-separated items, each split at '='.  Paths and mode   *)
(* words come from small vocabularies; option strings keep their           *)
(* characters because the code matches the prefix "size=".                 *)
(***************************************************************************)
EXTENDS Integers, Sequences, SequencesExt, FiniteSets, TLC

CONSTANTS
  VolumeInputs,    \* candidate host_config binds, as sequences of fields
  MountInputs,     \* candidate container_config mounts, as item sequences
  AbsolutePaths,   \* the path words whose first character is '/'
  UserSources,     \* host paths users bind; they exist
  TemplateMounts,  \* [system container |-> mounts of the default template]
  IpcInputs,       \* candidate ipc modes
  Channels,        \* whether host_config has a host_channel: a subset of BOOLEAN
  FileSets,        \* candidate sets of generated network files that exist
  ShmSizes,        \* candidate host_config shm_size values
  DefaultShmSize,  \* DEFAULT_SHM_SIZE
  ListSizeMax,     \* LIST_SIZE_MAX
  AllocCanFail,    \* whether mem_realloc (merge_volumes, mounts_expand) fails
  ShmSetupCanFail, \* whether mkdir, mount or chown of prepare_share_shm fails
  RelabelCanFail   \* whether relabel of a network file fails

NoVal == "<null>"   \* a NULL char pointer

NetFiles == <<"/etc/hosts", "/etc/resolv.conf", "/etc/hostname">>
NetFileSet == {NetFiles[i] : i \in 1..3}
\* hosts_path, resolv_conf_path and hostname_path as the daemon generated them
Generated == [f \in NetFileSet |-> "gen:" \o f]

-----------------------------------------------------------------------------
(* util_valid_* and the mode vocabularies (not under src/; spec 4.1).      *)
RwModes     == {"rw", "ro"}
PropModes   == {"rprivate", "private", "rshared", "shared", "rslave", "slave"}
LabelModes  == {"z", "Z"}
CopyModes   == {"consistent", "delegated", "cached"}
ValidMountMode(s) == s \in RwModes \cup PropModes \cup LabelModes \cup CopyModes
TrueValues  == {"true", "1"}
FalseValues == {"false", "0"}

\* util_string_split is strtok based: empty fields are dropped.
NonEmpty(s) == s # ""
Fields(v)   == SelectSeq(v, NonEmpty)

\* cleanpath: drops a trailing '/' and a trailing "." component.
CleanPath(p) == CASE p = "/b/"  -> "/b"
                  [] p = "/b/." -> "/b"
                  [] OTHER      -> p

IsAbs(p) == p \in AbsolutePaths

Mnt(dst, src, type, opts) ==
  [dst |-> dst, src |-> src, type |-> type, opts |-> opts]
Failed    == [ok |-> FALSE, mnt |-> Mnt(NoVal, NoVal, NoVal, <<>>)]
Parsed(m) == [ok |-> TRUE, mnt |-> m]

-----------------------------------------------------------------------------
(* parse_volume, check_volume_element, get_src_dst_mode_by_volume.         *)
CheckVolumeElement(v) ==
  /\ v # <<"">>
  /\ v[1] # "" /\ v[Len(v)] # ""

SrcDstModeOk(f) ==
  /\ \/ Len(f) = 2 /\ ~ValidMountMode(f[2])
     \/ Len(f) = 3 /\ ValidMountMode(f[3])
  /\ IsAbs(f[1]) /\ IsAbs(f[2]) /\ f[2] # "/"

\* A valid mode is one comma-free word; of each kind the last one wins.
ModeOf(modes, kind, default) ==
  LET i == SelectLastInSeq(modes, LAMBDA m : m \in kind)
  IN  IF i = 0 THEN default ELSE modes[i]

ParseVolume(v) ==
  LET f     == Fields(v)
      modes == IF Len(f) = 3 THEN <<f[3]>> ELSE <<>>
      label == ModeOf(modes, LabelModes, NoVal)
      opts  == <<ModeOf(modes, RwModes, "rw"),
                 ModeOf(modes, PropModes, "rprivate"), "rbind">>
               \o (IF label = NoVal THEN <<>> ELSE <<label>>)
  IN  IF CheckVolumeElement(v) /\ SrcDstModeOk(f)
        THEN Parsed(Mnt(CleanPath(f[2]), f[1], "bind", opts))
        ELSE Failed

-----------------------------------------------------------------------------
(* parse_mount, fill_mounts_item, fill_mounts_readonly_item,               *)
(* check_mount_element, append_default_mount_options.  An item is <<key>>  *)
(* or <<key, value>>.                                                      *)
NoItems == [type |-> NoVal, src |-> NoVal, dst |-> NoVal, opts |-> <<>>,
            hasRo |-> FALSE, hasPro |-> FALSE, err |-> FALSE]

\* ro: a true value gives "ro"; a false value and no value give "rw".
ReadonlyMode(has, val) == IF has /\ val \in TrueValues THEN "ro" ELSE "rw"

FillMountsItem(acc, kv) ==
  LET key == kv[1]
      has == Len(kv) >= 2
      val == IF has THEN kv[2] ELSE NoVal
  IN  CASE acc.err                 -> acc
        [] ~has /\ key # "ro"      -> acc
        [] key = "type"            -> [acc EXCEPT !.type = val]
        [] key = "src"             -> [acc EXCEPT !.src = val]
        [] key = "dst"             -> [acc EXCEPT !.dst = val]
        [] key = "ro" /\ has /\ val \notin TrueValues \cup FalseValues
                                   -> [acc EXCEPT !.err = TRUE]
        [] key = "ro"              -> [acc EXCEPT !.hasRo = TRUE,
                                        !.opts = Append(@, ReadonlyMode(has, val))]
        [] key = "propagation" /\ val \in PropModes ->
             [acc EXCEPT !.opts = Append(@, val), !.hasPro = TRUE]
        [] key = "selinux" /\ val \in LabelModes -> acc
        [] OTHER                   -> [acc EXCEPT !.err = TRUE]

CheckMountElement(e) ==
  /\ e.type \in {"squashfs", "bind"}
  /\ e.src # NoVal /\ IsAbs(e.src)
  /\ e.dst # NoVal /\ IsAbs(e.dst)

AppendDefaultMountOptions(e) ==
  IF e.type = "bind"
    THEN e.opts \o (IF e.hasRo THEN <<>> ELSE <<"rw">>)
                \o (IF e.hasPro THEN <<>> ELSE <<"rprivate">>) \o <<"rbind">>
    ELSE e.opts

ParseMount(m) ==
  LET e == FoldLeft(FillMountsItem, NoItems, m)
  IN  IF m # <<>> /\ ~e.err /\ CheckMountElement(e)
        THEN Parsed(Mnt(CleanPath(e.dst), e.src, e.type,
                        AppendDefaultMountOptions(e)))
        ELSE Failed

Parse(kind, s) == IF kind = "volume" THEN ParseVolume(s) ELSE ParseMount(s)

-----------------------------------------------------------------------------
(* defs_mnt_to_mount_point (its relabel string is left out).               *)
MountPoint(m) ==
  LET p == SelectLastInSeq(m.opts, LAMBDA o : o \in PropModes)
  IN  [key |-> m.dst, src |-> m.src,
       rw |-> ~\E i \in DOMAIN m.opts : m.opts[i] = "ro",
       propagation |-> IF p = 0 THEN NoVal ELSE m.opts[p]]

(* merge_volumes after its limit check and reallocations: parse and append *)
(* one by one; a failure returns -1 and keeps what was appended before.    *)
MergeOne(acc, s) ==
  LET r == Parse(acc.kind, s)
  IN  CASE acc.ret # 0 -> acc
        [] ~r.ok      -> [acc EXCEPT !.ret = -1]
        [] OTHER      -> [acc EXCEPT !.mounts = Append(@, r.mnt),
                                     !.mps = Append(@, MountPoint(r.mnt))]

MergeVolumes(ms, points, list, kind) ==
  FoldLeft(MergeOne, [kind |-> kind, mounts |-> ms, mps |-> points, ret |-> 0],
           list)

\* The size_t limit check of merge_volumes.
OverLimit(ms, list) == Len(list) > ListSizeMax - Len(ms)

(* has_mount_for (container_unix.c): a mount point keyed by the path.  Its *)
(* second loop compares strrchr(bind, ':'), which starts with ':', with    *)
(* the path and never matches, so it is left out.                         *)
HasMountFor(points, path) == \E i \in DOMAIN points : points[i].key = path

SizeOpt(n) == "size=" \o ToString(n)

IsSizeOpt(o) == IsPrefix("size=", o)

\* Entries built by add_host_channel_mount, add_shm_mount and mount_file.
BindOpts == <<"rbind", "rprivate">>
ChannelMount == Mnt("/channel", "/host/channel", "bind", BindOpts \o <<"rw">>)
ShmMount(src) == Mnt("/dev/shm", src, "bind", BindOpts \o <<"size=65536k">>)
FileMount(src, dst) == Mnt(dst, src, "bind", BindOpts)

\* host_config, container_config and the environment a merge can meet.
Configs ==
  [binds : {<<>>} \cup {<<v>> : v \in VolumeInputs},
   mounts : {<<>>} \cup {<<m>> : m \in MountInputs},
   channel : Channels, shmSize : ShmSizes, ipc : IpcInputs,
   peerShm : {"absent", "noshm", "/peer/shm"},  \* the container:<id> peer
   hostShm : BOOLEAN,                           \* /dev/shm exists on host
   system : BOOLEAN,                            \* host_config system_container
   files : FileSets]

VARIABLES
  cfg,      \* host_config and container_config of this merge
  mounts,   \* oci_spec->mounts
  mps,      \* v2_spec->mount_points, in insertion order
  v2,       \* v2_spec->shm_path and the three network file paths
  shmSize,  \* host_spec->shm_size (the default is written back)
  ret,      \* ret of merge_conf_mounts
  stage,    \* the next call of merge_conf_mounts; "done" after out:
  faults    \* history: the injected failures that happened

vars == <<cfg, mounts, mps, v2, shmSize, ret, stage, faults>>

\* mem_realloc of merge_volumes or mounts_expand.
AllocOutcomes == IF AllocCanFail THEN {TRUE, FALSE} ELSE {TRUE}

Goto(next) == stage' = next
Out == stage' = "done"
AllocFailed == faults' = faults \cup {"alloc"}

Init ==
  /\ cfg \in Configs
  /\ mounts = TemplateMounts[cfg.system]
  /\ mps = <<>>
  /\ v2 = [shm |-> NoVal] @@ Generated
  /\ shmSize = cfg.shmSize
  /\ ret = 0
  /\ stage = "binds"
  /\ faults = {}

\* "volumes to mount" / "mounts to mount filesystem": a call of merge_volumes.
MergeUserMounts(list, kind, next) ==
  LET r == MergeVolumes(mounts, mps, list, kind)
  IN  CASE list = <<>> ->
             Goto(next) /\ UNCHANGED <<mounts, mps, ret, faults>>
        [] OverLimit(mounts, list) ->
             Out /\ ret' = -1 /\ UNCHANGED <<mounts, mps, faults>>
        [] OTHER ->
             \E ok \in AllocOutcomes :
               IF ok THEN /\ mounts' = r.mounts /\ mps' = r.mps /\ ret' = r.ret
                          /\ IF r.ret # 0 THEN Out ELSE Goto(next)
                          /\ UNCHANGED faults
                     ELSE Out /\ ret' = -1 /\ AllocFailed
                          /\ UNCHANGED <<mounts, mps>>

MergeBinds ==
  /\ stage = "binds"
  /\ MergeUserMounts(cfg.binds, "volume", "channel")
  /\ UNCHANGED <<cfg, v2, shmSize>>

(* add_host_channel_mount; when it fails, merge_conf_mounts goes to out    *)
(* with ret still 0.                                                       *)
HostChannel ==
  /\ stage = "channel"
  /\ IF ~cfg.channel
       THEN Goto("mounts") /\ UNCHANGED <<mounts, faults>>
       ELSE \E ok \in AllocOutcomes :
              IF ok THEN mounts' = Append(mounts, ChannelMount)
                         /\ Goto("mounts") /\ UNCHANGED faults
                    ELSE Out /\ AllocFailed /\ UNCHANGED mounts
  /\ UNCHANGED <<cfg, mps, v2, shmSize, ret>>

MergeMounts ==
  /\ stage = "mounts"
  /\ MergeUserMounts(cfg.mounts, "mount", "ipc")
  /\ UNCHANGED <<cfg, v2, shmSize>>

\* Mutant: no default for shm_size 0.
ShmSizeDefaultNone(n) == n

\* The shm_size default of merge_conf_mounts.
ShmSizeDefault(n) == IF n = 0 THEN DefaultShmSize ELSE n

\* has_mount_shm: has_mount_for(cont, "/dev/shm") on the merge's mount points.
HasMountShm(points) == HasMountFor(points, "/dev/shm")

(* prepare_share_shm: nothing to do when a user mount point is /dev/shm;   *)
(* otherwise mkdir, mount a tmpfs and chown it, each of which may fail,    *)
(* and record the directory as shm_path.                                   *)
PrepareShareShm ==
  \/ /\ HasMountShm(mps)
     /\ Goto("shm") /\ UNCHANGED <<v2, ret, faults>>
  \/ /\ ~HasMountShm(mps)
     /\ v2' = [v2 EXCEPT !.shm = "/run/ctr/shm"]
     /\ Goto("shm") /\ UNCHANGED <<ret, faults>>
  \/ /\ ~HasMountShm(mps) /\ ShmSetupCanFail
     /\ Out /\ ret' = -1 /\ faults' = faults \cup {"shm"} /\ UNCHANGED v2

(* The shm_size default, then setup_ipc_dirs: a system container keeps no  *)
(* shm; container:<id> takes the peer's shm_path (a missing peer is -1);   *)
(* host needs /dev/shm on the host; any other mode clears shm_path.        *)
SetupIpcDirs ==
  /\ stage = "ipc"
  /\ shmSize' = ShmSizeDefault(shmSize)
  /\ LET fail == Out /\ ret' = -1 /\ UNCHANGED <<v2, faults>>
         setShm(p) == /\ v2' = [v2 EXCEPT !.shm = p] /\ Goto("shm")
                      /\ UNCHANGED <<ret, faults>>
     IN  CASE cfg.system -> Goto("shm") /\ UNCHANGED <<v2, ret, faults>>
           [] cfg.ipc \in {"unset", "shareable"} -> PrepareShareShm
           [] cfg.ipc = "container" /\ cfg.peerShm = "absent" -> fail
           [] cfg.ipc = "container" ->
                setShm(IF cfg.peerShm = "noshm" THEN NoVal ELSE cfg.peerShm)
           [] cfg.ipc = "host" /\ ~cfg.hostShm -> fail
           [] cfg.ipc = "host" -> setShm("/dev/shm")
           [] OTHER -> setShm(NoVal)
  /\ UNCHANGED <<cfg, mounts, mps>>

\* add_shm_mount when v2_spec->shm_path is set; its result is ignored.
AddShmMount ==
  /\ stage = "shm"
  /\ Goto("size")
  /\ IF v2.shm = NoVal
       THEN UNCHANGED <<mounts, faults>>
       ELSE \E ok \in AllocOutcomes :
              IF ok THEN mounts' = Append(mounts, ShmMount(v2.shm))
                         /\ UNCHANGED faults
                    ELSE AllocFailed /\ UNCHANGED mounts
  /\ UNCHANGED <<cfg, mps, v2, shmSize, ret>>

(* change_dev_shm_size (called when shm_size > 0): rewrite the first       *)
(* size= option of the first /dev/shm entry that has one; none is -1.      *)
ShmEntryWithSize(ms) ==
  SelectInSeq(ms, LAMBDA m : m.dst = "/dev/shm" /\
                             \E j \in DOMAIN m.opts : IsSizeOpt(m.opts[j]))

ChangeDevShmSize ==
  /\ stage = "size"
  /\ LET i == ShmEntryWithSize(mounts)
         j == SelectInSeq(mounts[i].opts, IsSizeOpt)
     IN  CASE shmSize <= 0 \/ cfg.ipc = "none" ->
                Goto("net") /\ UNCHANGED <<mounts, ret>>
           [] i = 0 -> Out /\ ret' = -1 /\ UNCHANGED mounts
           [] OTHER ->
                /\ mounts' = [mounts EXCEPT ![i].opts[j] = SizeOpt(shmSize)]
                /\ Goto("net") /\ UNCHANGED ret
  /\ UNCHANGED <<cfg, mps, v2, shmSize, faults>>

(* append_network_files_mounts.  A first loop points each path of v2_spec  *)
(* at the source of the last entry for that file; then each file whose     *)
(* path exists and that has no entry is relabelled and bind mounted.       *)
FileExists(p) == p \in UserSources \/ \E f \in cfg.files : p = Generated[f]

\* Mutant: the first entry for the file wins.
SourceForFirst(ms, f, default) ==
  LET i == SelectInSeq(ms, LAMBDA m : m.dst = f)
  IN  IF i = 0 THEN default ELSE ms[i].src

SourceFor(ms, f, default) ==
  LET i == SelectLastInSeq(ms, LAMBDA m : m.dst = f)
  IN  IF i = 0 THEN default ELSE ms[i].src

HasEntry(ms, f) == \E i \in DOMAIN ms : ms[i].dst = f

\* Mutant: a network file that does not exist fails the merge.
NetFileOutcomesMissingFails(acc, f, path) ==
  CASE acc.ret # 0 \/ HasEntry(mounts, f) -> {acc}
    [] ~FileExists(path) -> {[acc EXCEPT !.ret = -1]}
    [] OTHER -> {[acc EXCEPT !.ms = Append(@, FileMount(path, f))]}

\* The outcomes of one file: relabel, then mount_file; a failure is -1.
NetFileOutcomes(acc, f, path) ==
  IF acc.ret # 0 \/ HasEntry(mounts, f) \/ ~FileExists(path)
    THEN {acc}
    ELSE {[acc EXCEPT !.ms = Append(@, FileMount(path, f))]}
         \cup (IF RelabelCanFail
                 THEN {[acc EXCEPT !.ret = -1, !.fs = @ \cup {"relabel"}]}
                 ELSE {})
         \cup (IF AllocCanFail
                 THEN {[acc EXCEPT !.ret = -1, !.fs = @ \cup {"alloc"}]}
                 ELSE {})

AppendNetworkFilesMounts ==
  /\ stage = "net"
  /\ Out
  /\ IF cfg.system
       THEN UNCHANGED <<mounts, v2, ret, faults>>
       ELSE LET p  == [f \in NetFileSet |-> SourceFor(mounts, f, v2[f])]
                a0 == {[ms |-> mounts, ret |-> 0, fs |-> faults]}
                a1 == UNION {NetFileOutcomes(a, NetFiles[1], p[NetFiles[1]]) : a \in a0}
                a2 == UNION {NetFileOutcomes(a, NetFiles[2], p[NetFiles[2]]) : a \in a1}
                a3 == UNION {NetFileOutcomes(a, NetFiles[3], p[NetFiles[3]]) : a \in a2}
            IN  /\ v2' = [x \in DOMAIN v2 |-> IF x = "shm" THEN v2.shm ELSE p[x]]
                /\ \E a \in a3 : mounts' = a.ms /\ ret' = a.ret /\ faults' = a.fs
  /\ UNCHANGED <<cfg, mps, shmSize>>

Next ==
  \/ MergeBinds \/ HostChannel \/ MergeMounts \/ SetupIpcDirs
  \/ AddShmMount \/ ChangeDevShmSize \/ AppendNetworkFilesMounts

Spec == Init /\ [][Next]_vars

-----------------------------------------------------------------------------
(***************************************************************************)
(* Properties.                                                             *)
(***************************************************************************)
Stages == {"binds", "channel", "mounts", "ipc", "shm", "size", "net", "done"}
Done == stage = "done"
Succeeded == Done /\ ret = 0

OptionWords ==
  RwModes \cup PropModes \cup LabelModes \cup {"rbind", "size=65536k"}
  \cup {"size=" \o ToString(IF n = 0 THEN DefaultShmSize ELSE n) : n \in ShmSizes}
  \cup UNION {ToSet(m.opts) :
              m \in UNION {ToSet(TemplateMounts[b]) : b \in BOOLEAN}}

\* Every mount entry's options are words the code and the template produce,
\* and the merge's bookkeeping stays in range.
TypeOK ==
  /\ cfg \in Configs
  /\ \A i \in DOMAIN mounts :
       ToSet(mounts[i].opts) \subseteq OptionWords
  /\ \A i \in DOMAIN mps : mps[i].propagation \in PropModes \cup {NoVal}
  /\ ret \in {0, -1}
  /\ stage \in Stages
  /\ faults \subseteq {"alloc", "shm", "relabel"}

\* The volume grammar of spec 4.3 step 1, written over the raw ':' fields:
\* src:dst or src:dst:mode, both absolute, dst not "/", mode a valid mode.
SpecValidVolume(v) ==
  /\ Len(v) \in {2, 3}
  /\ \A i \in DOMAIN v : v[i] # ""
  /\ IsAbs(v[1]) /\ IsAbs(v[2]) /\ v[2] # "/"
  /\ Len(v) = 3 => ValidMountMode(v[3])

\* For each bind of the merge, parse_volume accepts it exactly when the
\* spec's grammar does, and an accepted one gets the cleaned destination
\* and one rw/ro word, one propagation and rbind among its options (spec
\* section 8).
VolumeParsingMatchesSpec ==
  \A v \in ToSet(cfg.binds) :
    LET r == ParseVolume(v)
        count(S) == Cardinality({i \in DOMAIN r.mnt.opts : r.mnt.opts[i] \in S})
    IN  /\ r.ok <=> SpecValidVolume(v)
        /\ r.ok => /\ r.mnt.dst = CleanPath(v[2])
                   /\ count(RwModes) = 1 /\ count(PropModes) = 1
                   /\ count({"rbind"}) = 1

\* A merge that returns 0 contains every bind, every --mount and the host
\* channel it was asked for: merge_conf_mounts must not report success
\* after a step failed.
MergeReportsFailure ==
  Succeeded =>
    /\ \A i \in DOMAIN cfg.binds :
         ParseVolume(cfg.binds[i]).ok /\ HasEntry(mounts, ParseVolume(cfg.binds[i]).mnt.dst)
    /\ \A i \in DOMAIN cfg.mounts :
         ParseMount(cfg.mounts[i]).ok /\ HasEntry(mounts, ParseMount(cfg.mounts[i]).mnt.dst)
    /\ cfg.channel => HasEntry(mounts, ChannelMount.dst)

ShmEntries == {i \in DOMAIN mounts : mounts[i].dst = "/dev/shm"}

\* Spec 4.3 step 4 and the section 8 scenario: after a successful merge
\* with an ipc mode other than none there is exactly one /dev/shm entry,
\* and its only size= option is the requested size, or 64MiB when 0 was
\* requested (the shm_size default, add_shm_mount, change_dev_shm_size).
ShmSizeApplied ==
  Succeeded /\ cfg.ipc # "none" =>
    /\ Cardinality(ShmEntries) = 1
    /\ \A i \in ShmEntries :
         {o \in ToSet(mounts[i].opts) : IsPrefix("size=", o)}
           = {"size=" \o ToString(IF cfg.shmSize = 0 THEN DefaultShmSize
                                                   ELSE cfg.shmSize)}

\* Spec 4.3 step 5: after a successful merge of a non-system container each
\* network file path of v2_spec is the source of the entry that the runtime
\* mounts last at that destination, and a file whose path exists has an
\* entry (append_network_files_mounts).
NetworkFilePathsTracked ==
  Succeeded /\ ~cfg.system =>
    \A f \in NetFileSet :
      /\ \A i \in DOMAIN mounts :
           mounts[i].dst = f /\ (\A k \in i+1..Len(mounts) : mounts[k].dst # f)
             => v2[f] = mounts[i].src
      /\ FileExists(v2[f]) => \E i \in DOMAIN mounts : mounts[i].dst = f

\* A request the spec accepts: valid binds and --mounts within LIST_SIZE_MAX,
\* and an shm source that exists for a container: or host ipc mode.
RequestValid ==
  /\ \A i \in DOMAIN cfg.binds : SpecValidVolume(cfg.binds[i])
  /\ \A i \in DOMAIN cfg.mounts : ParseMount(cfg.mounts[i]).ok
  /\ Len(TemplateMounts[cfg.system]) + Len(cfg.binds) + Len(cfg.mounts)
       + (IF cfg.channel THEN 1 ELSE 0) <= ListSizeMax
  /\ cfg.ipc = "container" => cfg.peerShm = "/peer/shm"
  /\ cfg.ipc = "host" => cfg.hostShm

\* merge_conf_mounts fails on a request the spec accepts only when an
\* allocation, the shm setup or a relabel failed (spec 4.3: a missing
\* network file is a warning, not a failure).
MergeFailsOnlyOnFault ==
  Done /\ ret # 0 /\ RequestValid => faults # {}

\* Spec 4.3 step 1: a --mount with a "ro" item that has no value or a true
\* value gives a read-only mount point (fill_mounts_readonly_item,
\* defs_mnt_to_mount_point).
RequestsReadOnly(m) ==
  \E i \in DOMAIN m : m[i][1] = "ro" /\ (Len(m[i]) = 1 \/ m[i][2] \in TrueValues)

ReadOnlyHonoured ==
  Succeeded /\ cfg.mounts # <<>> /\ RequestsReadOnly(cfg.mounts[1]) =>
    ~mps[Len(mps)].rw

=============================================================================
