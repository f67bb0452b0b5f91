------------------------------ MODULE Devices ------------------------------
(***************************************************************************)
(* The device part of the spec assembly in                                 *)
(* src/src/services/execution/spec/specs_mount.c: merge_conf_device (block *)
(* I/O weight and throttle lists, --device entries) and, for privileged    *)
(* containers, merge_all_devices_and_all_permission.  The host directory   *)
(* scan get_devices is a RECURSIVE operator over a constant file tree.     *)
(*                                                                         *)
(* A path is the sequence of its components, so "/dev/snd" is              *)
(* <<"dev", "snd">> and "/dev/" is <<"dev", "">>.  The strings the code    *)
(* builds with "%s/%s" and compares with strncmp correspond one-to-one to  *)
(* these sequences; the kernel's lookup ignores empty components (Canon).  *)
(* A device's (major, minor) is represented by its canonical host path.    *)
(***************************************************************************)
EXTENDS Integers, Sequences, SequencesExt, FiniteSets, TLC

CONSTANTS
    Fs,                   \* canonical host path -> "dir" | "chr" | "blk" | "reg"
    Entries,              \* canonical directory -> its readdir sequence
    WeightInputs,         \* candidate host_config.blkio_weight_device lists
    ReadBpsInputs,        \* candidate blkio_device_read_bps lists
    WriteBpsInputs,       \* candidate blkio_device_write_bps lists
    DeviceInputs,         \* candidate host_config.devices lists
    PrivilegedInputs,     \* candidate host_config.privileged values
    TemplateDevs,         \* linux.devices of the default template
    TemplateCg,           \* linux.resources.devices of the default template
    LIST_DEVICE_SIZE_MAX, \* the fixed device-list bound
    MAX_PATH_DEPTH,       \* the recursion bound of get_devices
    SizeWidth,            \* bits of size_t in the model
    AllocCanFail          \* whether calloc/realloc may return NULL

ASSUME \A d \in DOMAIN Entries :
          /\ Fs[d] = "dir"
          /\ {p \in DOMAIN Fs : Len(p) = Len(d) + 1 /\ SubSeq(p, 1, Len(d)) = d}
               = {Append(d, n) : n \in ToSet(Entries[d]) \ {".", ".."}}

NoVal == "<null>"

DeviceKinds == {"chr", "blk"}

BlkioKinds == {"weight", "read", "write"}

\* size_t subtraction wraps modulo 2^SizeWidth.
SizeSub(a, b) == (a - b) % (2 ^ SizeWidth)

Canon(p) == SelectSeq(p, LAMBDA c : c # "")

\* lstat/stat of a path: its kind, or "none" when it does not exist.
Kind(p) == IF Canon(p) \in DOMAIN Fs THEN Fs[Canon(p)] ELSE "none"

HasColon(name) == \E i \in 1..Len(name) : SubSeq(name, i, i) = ":"

\* skip_files of valid_dirent_info, compared with the built path as strings.
SkipFiles == {<<"dev", "pts">>, <<"dev", "shm">>, <<"dev", "fd">>,
              <<"dev", "mqueue">>, <<"dev", "console">>}

ValidDirentInfoNoColon(dir, name) ==
    /\ name \notin {".", ".."}
    /\ Append(dir, name) \notin SkipFiles

ValidDirentInfo(dir, name) ==
    /\ name \notin {".", ".."}
    /\ ~HasColon(name)
    /\ Append(dir, name) \notin SkipFiles

(***************************************************************************)
(* get_devices / get_devices_in_path / pack_devices.  acc is the shared    *)
(* [ok, devs] the C code threads through the recursion; the scan stops at  *)
(* the first failure.                                                      *)
(***************************************************************************)
RECURSIVE GetDevices(_, _, _), ScanEntries(_, _, _, _), GetDevicesInPath(_, _, _)

GetDevicesInPath(fullpath, depth, acc) ==
    CASE Kind(fullpath) = "dir"          -> GetDevices(fullpath, depth + 1, acc)
      [] Kind(fullpath) \in DeviceKinds  -> [acc EXCEPT !.devs = Append(@, fullpath)]
      [] OTHER                           -> acc

ScanEntries(dir, depth, names, acc) ==
    IF names = <<>> \/ ~acc.ok THEN acc
    ELSE ScanEntries(dir, depth, Tail(names),
                     IF ValidDirentInfo(dir, Head(names))
                     THEN GetDevicesInPath(Append(dir, Head(names)), depth, acc)
                     ELSE acc)

GetDevicesDepthOffByOne(dir, depth, acc) ==
    IF depth + 1 >= MAX_PATH_DEPTH \/ Kind(dir) # "dir"
    THEN [acc EXCEPT !.ok = FALSE]
    ELSE ScanEntries(dir, depth, Entries[Canon(dir)], acc)

GetDevices(dir, depth, acc) ==
    IF depth + 1 > MAX_PATH_DEPTH \/ Kind(dir) # "dir"
    THEN [acc EXCEPT !.ok = FALSE]
    ELSE ScanEntries(dir, depth, Entries[Canon(dir)], acc)

Enumerate(dir) == GetDevices(dir, 0, [ok |-> TRUE, devs |-> <<>>])

\* parse_one_device: the container path is dir_container "/" followed by
\* the rest of the host path after dir_host, which itself starts with "/".
ParseOneDevice(devicePath, dirHost, dirContainer, permissions) ==
    [host |-> devicePath,
     ctr  |-> IF dirContainer = NoVal THEN devicePath
              ELSE dirContainer \o <<"">>
                     \o SubSeq(devicePath, Len(dirHost) + 1, Len(devicePath)),
     perm |-> IF permissions = NoVal THEN "rwm" ELSE permissions]

ParseMultiDevices(devices, dirHost, dirContainer, permissions) ==
    [i \in DOMAIN devices |->
        ParseOneDevice(devices[i], dirHost, dirContainer, permissions)]

\* dev_type of get_devices_from_path; NULL for anything but a device node.
DevType(kind) == CASE kind = "blk" -> "b" [] kind = "chr" -> "c" [] OTHER -> NoVal

\* get_devices_from_path through merge_custom_device: stat the host path and
\* fill one defs_device and its defs_device_cgroup.  src is the index of the
\* --device entry it comes from (0 for the privileged /dev scan).
GetDevicesFromPathRuleAlwaysChr(devMap, src) ==
    LET k == Kind(devMap.host) IN
    [ok   |-> k \in DeviceKinds,
     pair |-> [dev  |-> [path |-> devMap.ctr, host |-> Canon(devMap.host),
                         type |-> DevType(k), src |-> src],
               rule |-> [allow |-> TRUE, access |-> devMap.perm,
                         type |-> "c", dev |-> Canon(devMap.host)]]]

GetDevicesFromPath(devMap, src) ==
    LET k == Kind(devMap.host) IN
    [ok   |-> k \in DeviceKinds,
     pair |-> [dev  |-> [path |-> devMap.ctr, host |-> Canon(devMap.host),
                         type |-> DevType(k), src |-> src],
               rule |-> [allow |-> TRUE, access |-> devMap.perm,
                         type |-> DevType(k), dev |-> Canon(devMap.host)]]]

\* The loop of merge_all_devices: pairs are appended until the first failure.
MergeDevicePairs(maps, src) ==
    LET bad == {i \in DOMAIN maps : ~GetDevicesFromPath(maps[i], src).ok}
        n   == IF bad = {} THEN Len(maps) ELSE Min(bad) - 1
    IN [ok   |-> bad = {},
        adds |-> [i \in 1..n |-> GetDevicesFromPath(maps[i], src).pair]]

\* merge_all_devices: the limit check against linux.devices (in size_t).
MergeAllDevices(maps, src, curLen) ==
    IF Len(maps) > SizeSub(LIST_DEVICE_SIZE_MAX, curLen)
    THEN [ok |-> FALSE, adds |-> <<>>]
    ELSE MergeDevicePairs(maps, src)

\* merge_all_devices_in_dir: scan, reject an empty result, re-path, merge.
MergeAllDevicesInDir(dir, dirContainer, permissions, src, curLen) ==
    LET g == Enumerate(dir) IN
    IF ~g.ok \/ g.devs = <<>> THEN [ok |-> FALSE, adds |-> <<>>]
    ELSE MergeAllDevices(ParseMultiDevices(g.devs, dir, dirContainer, permissions),
                         src, curLen)

\* merge_custom_one_device: no LIST_DEVICE_SIZE_MAX check, one pair.
MergeCustomOneDevice(device, src) ==
    LET r == GetDevicesFromPath(device, src) IN
    [ok |-> r.ok, adds |-> IF r.ok THEN <<r.pair>> ELSE <<>>]

\* merge_blkio_*_device: limit check, then stat each path in order.
MergeBlkio(cur, list) ==
    LET bad == {i \in DOMAIN list : Kind(list[i]) = "none"}
        n   == IF bad = {} THEN Len(list) ELSE Min(bad) - 1
    IN IF Len(cur) > SizeSub(LIST_DEVICE_SIZE_MAX, Len(list))
       THEN [ok |-> FALSE, adds |-> <<>>]
       ELSE [ok |-> bad = {}, adds |-> [i \in 1..n |-> Canon(list[i])]]


(***************************************************************************)
(* State: the host config being merged (req), linux.devices (devs),        *)
(* linux.resources.devices (cg), the three block I/O lists (blkio), the    *)
(* return code, the stage of merge_conf_device, the next --device index    *)
(* and the faults injected so far.                                         *)
(***************************************************************************)
VARIABLES req, devs, cg, blkio, ret, stage, idx, faults

vars == <<req, devs, cg, blkio, ret, stage, idx, faults>>

\* The wildcard rule {allow, "rwm", "a", -1, -1}; major/minor -1 is <<>>.
AllRule == [allow |-> TRUE, access |-> "rwm", type |-> "a", dev |-> <<>>]

\* A step's result, or, when an allocation may fail, a failure that kept
\* any prefix of the pairs or entries appended before the failing calloc.
Outcomes(r) ==
    {[ok |-> r.ok, adds |-> r.adds, alloc |-> FALSE]}
    \cup (IF AllocCanFail
          THEN {[ok |-> FALSE, adds |-> SubSeq(r.adds, 1, k), alloc |-> TRUE] :
                  k \in 0..Len(r.adds)}
          ELSE {})

Devs(adds) == [i \in DOMAIN adds |-> adds[i].dev]

Rules(adds) == [i \in DOMAIN adds |-> adds[i].rule]

Goto(s) == stage' = s /\ UNCHANGED ret

Out(r) == ret' = r /\ stage' = "done"

Fault(o) == faults' = IF o.alloc THEN faults \cup {"alloc"} ELSE faults

Init ==
    /\ req \in [blkio : [weight : WeightInputs, read : ReadBpsInputs,
                         write : WriteBpsInputs],
                devices : DeviceInputs, privileged : PrivilegedInputs]
    /\ devs = TemplateDevs
    /\ cg = TemplateCg
    /\ blkio = [s \in BlkioKinds |-> <<>>]
    /\ ret = 0
    /\ stage = "weight"
    /\ idx = 1
    /\ faults = {}

\* One block I/O step of merge_conf_device: an empty list is skipped.
MergeBlkioStep(s, next) ==
    /\ stage = s
    /\ LET list == req.blkio[s] IN
       \/ /\ list = <<>>
          /\ Goto(next)
          /\ UNCHANGED <<blkio, faults>>
       \/ /\ list # <<>>
          /\ \E o \in Outcomes(MergeBlkio(blkio[s], list)) :
               /\ blkio' = [blkio EXCEPT ![s] = @ \o o.adds]
               /\ IF o.ok THEN Goto(next) ELSE Out(-1)
               /\ Fault(o)
    /\ UNCHANGED <<req, devs, cg, idx>>

MergeBlkioWeightDevice == MergeBlkioStep("weight", "read")

MergeBlkioReadBpsDevice == MergeBlkioStep("read", "write")

MergeBlkioWriteBpsDevice == MergeBlkioStep("write", "devices")

\* One iteration of merge_custom_devices: a directory is scanned, anything
\* else is merged as a single device.
MergeCustomDeviceEntry(device) ==
    IF Kind(device.host) = "dir"
    THEN MergeAllDevicesInDir(device.host, device.ctr, device.perm, idx, Len(devs))
    ELSE MergeCustomOneDevice(device, idx)

MergeCustomDevicesIgnorePrivileged ==
    /\ stage = "devices"
    /\ idx <= Len(req.devices)
    /\ \E o \in Outcomes(MergeCustomDeviceEntry(req.devices[idx])) :
         /\ devs' = devs \o Devs(o.adds)
         /\ cg' = cg \o Rules(o.adds)
         /\ IF o.ok THEN idx' = idx + 1 /\ UNCHANGED <<ret, stage>>
                    ELSE Out(-1) /\ UNCHANGED idx
         /\ Fault(o)
    /\ UNCHANGED <<req, blkio>>

MergeCustomDevices ==
    /\ stage = "devices"
    /\ ~req.privileged
    /\ idx <= Len(req.devices)
    /\ \E o \in Outcomes(MergeCustomDeviceEntry(req.devices[idx])) :
         /\ devs' = devs \o Devs(o.adds)
         /\ cg' = cg \o Rules(o.adds)
         /\ IF o.ok THEN idx' = idx + 1 /\ UNCHANGED <<ret, stage>>
                    ELSE Out(-1) /\ UNCHANGED idx
         /\ Fault(o)
    /\ UNCHANGED <<req, blkio>>

\* merge_conf_device returns 0 (--device skipped for a privileged
\* container); the assembler then grants all devices to a privileged one.
MergeConfDeviceDone ==
    /\ stage = "devices"
    /\ req.privileged \/ idx > Len(req.devices)
    /\ IF req.privileged THEN Goto("all") ELSE Out(0)
    /\ UNCHANGED <<req, devs, cg, blkio, idx, faults>>

\* merge_all_devices_and_all_permission: scan /dev into linux.devices, then
\* replace every cgroup rule by the single wildcard rule.
MergeAllDevicesAndAllPermission ==
    /\ stage = "all"
    /\ \E o \in Outcomes(MergeAllDevicesInDir(<<"dev">>, NoVal, NoVal, 0, Len(devs))) :
         /\ devs' = devs \o Devs(o.adds)
         /\ cg' = IF o.ok THEN <<AllRule>> ELSE cg \o Rules(o.adds)
         /\ Out(IF o.ok THEN 0 ELSE -1)
         /\ Fault(o)
    /\ UNCHANGED <<req, blkio, idx>>

Next ==
    \/ MergeBlkioWeightDevice
    \/ MergeBlkioReadBpsDevice
    \/ MergeBlkioWriteBpsDevice
    \/ MergeCustomDevices
    \/ MergeConfDeviceDone
    \/ MergeAllDevicesAndAllPermission

Spec == Init /\ [][Next]_vars


(***************************************************************************)
(* Properties.                                                             *)
(***************************************************************************)
Stages == {"weight", "read", "write", "devices", "all", "done"}

Done == stage = "done"

Paths == Seq(STRING)

TypeOK ==
    /\ devs \in Seq([path : Paths, host : Paths, type : {"b", "c"}, src : Nat])
    /\ cg \in Seq([allow : BOOLEAN, access : STRING, type : {"a", "b", "c"},
                   dev : Paths])
    /\ blkio \in [BlkioKinds -> Seq(Paths)]
    /\ ret \in {0, -1}
    /\ stage \in Stages
    /\ idx \in 1..(Len(req.devices) + 1)
    /\ faults \subseteq {"alloc"}

\* Section 4.2 of the design as a reference: the char/block devices below
\* root whose every component after root has no ':', is not a skip-list
\* path and, but for the last, is a directory; and the depth bound, which
\* fails the scan when such a directory lies MAX_PATH_DEPTH levels down.
Below(r, p) == Len(p) > Len(r) /\ SubSeq(p, 1, Len(r)) = r

SpecVisible(r, p) ==
    \A k \in (Len(r) + 1)..Len(p) :
        /\ ~HasColon(p[k])
        /\ SubSeq(p, 1, k) \notin SkipFiles
        /\ k < Len(p) => Fs[SubSeq(p, 1, k)] = "dir"

SpecDeviceSet(r) ==
    {p \in DOMAIN Fs : Below(r, p) /\ SpecVisible(r, p) /\ Fs[p] \in DeviceKinds}

SpecTooDeep(r) ==
    \/ MAX_PATH_DEPTH < 1
    \/ \E p \in DOMAIN Fs : /\ Below(r, p) /\ SpecVisible(r, p)
                           /\ Fs[p] = "dir"
                           /\ Len(p) - Len(r) >= MAX_PATH_DEPTH

ScanRoots ==
    {req.devices[i].host : i \in {j \in DOMAIN req.devices :
                                    Kind(req.devices[j].host) = "dir"}}
    \cup (IF req.privileged THEN {<<"dev">>} ELSE {})

\* get_devices, on every directory this request scans (a directory --device
\* entry, or /dev for a privileged container), fails exactly when the
\* design's depth bound is exceeded and otherwise returns each device of the
\* design's enumeration exactly once, skip list and ':' names excluded.
EnumerationMatchesSpec ==
    \A r \in ScanRoots :
        LET g == Enumerate(r)
            want == SpecDeviceSet(Canon(r))
        IN /\ g.ok = ~SpecTooDeep(Canon(r))
           /\ g.ok => /\ {Canon(g.devs[i]) : i \in DOMAIN g.devs} = want
                      /\ Len(g.devs) = Cardinality(want)

\* For an unprivileged container every device merge_custom_devices adds to
\* linux.devices is paired, at the same offset past the template, with the
\* cgroup rule of the same device and type, carrying the --device entry's
\* permissions; its container path is the entry's container path followed
\* by the device's path below the entry's host path.
DevicesPairedWithRules ==
    ~req.privileged =>
        LET td == Len(TemplateDevs)
            tc == Len(TemplateCg)
        IN /\ Len(devs) - td = Len(cg) - tc
           /\ \A k \in 1..(Len(devs) - td) :
                LET dv == devs[td + k]
                    rl == cg[tc + k]
                    e  == req.devices[dv.src]
                IN /\ rl = [allow |-> TRUE, access |-> e.perm,
                            type |-> dv.type, dev |-> dv.host]
                   /\ dv.type = IF Fs[dv.host] = "blk" THEN "b" ELSE "c"
                   /\ Canon(dv.path) = Canon(e.ctr) \o
                        SubSeq(dv.host, Len(Canon(e.host)) + 1, Len(dv.host))

\* A privileged container that was merged successfully has exactly the
\* wildcard cgroup rule, and linux.devices holds the template plus the
\* design's enumeration of /dev and nothing from its --device entries.
PrivilegedGetsAllDevices ==
    Done /\ ret = 0 /\ req.privileged =>
        /\ cg = <<[allow |-> TRUE, access |-> "rwm", type |-> "a", dev |-> <<>>]>>
        /\ {devs[k].host : k \in (Len(TemplateDevs) + 1)..Len(devs)}
             = SpecDeviceSet(<<"dev">>)
        /\ \A k \in (Len(TemplateDevs) + 1)..Len(devs) : devs[k].src = 0

\* Total number of devices the request asks for, by the design's reading.
RequestedCount ==
    IF req.privileged THEN Cardinality(SpecDeviceSet(<<"dev">>))
    ELSE FoldLeft(LAMBDA acc, e :
                    acc + IF Kind(e.host) = "dir"
                          THEN Cardinality(SpecDeviceSet(Canon(e.host))) ELSE 1,
                  0, req.devices)

DirectoryUsable(r) == ~SpecTooDeep(r) /\ SpecDeviceSet(r) # {}

\* A request the design accepts: every block I/O path exists, every list is
\* within LIST_DEVICE_SIZE_MAX, every --device entry is a device or a usable
\* directory (only /dev matters for a privileged container).
RequestValid ==
    /\ \A s \in BlkioKinds :
          /\ Len(req.blkio[s]) <= LIST_DEVICE_SIZE_MAX
          /\ \A i \in DOMAIN req.blkio[s] : Canon(req.blkio[s][i]) \in DOMAIN Fs
    /\ Len(TemplateDevs) + RequestedCount <= LIST_DEVICE_SIZE_MAX
    /\ IF req.privileged THEN DirectoryUsable(<<"dev">>)
       ELSE \A i \in DOMAIN req.devices :
              LET h == Canon(req.devices[i].host) IN
              /\ h \in DOMAIN Fs
              /\ Fs[h] \in DeviceKinds \/ (Fs[h] = "dir" /\ DirectoryUsable(h))

\* merge_conf_device (and the privileged grant) fails on a request the
\* design accepts only when an allocation failed.
MergeFailsOnlyOnFault == Done /\ ret # 0 /\ RequestValid => faults # {}

\* LIST_DEVICE_SIZE_MAX bounds linux.devices and each block I/O list: the
\* design says exceeding it is a user-visible error.
DeviceListsCapped ==
    /\ Len(devs) <= LIST_DEVICE_SIZE_MAX
    /\ \A s \in BlkioKinds : Len(blkio[s]) <= LIST_DEVICE_SIZE_MAX

==============================================================================
