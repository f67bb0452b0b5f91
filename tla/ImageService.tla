---------------------------- MODULE ImageService ----------------------------
(***************************************************************************)
(* The daemon's image module (src/image/image.c): every im_* entry point  *)
(* finds a backend (a "bim") in the table g_bims, checks that the         *)
(* backend's function table implements the operation, calls it, and      *)
(* turns its result into the entry point's.  The backends are the OCI     *)
(* backend of IsulaImage, the external-rootfs backend of                  *)
(* src/image/external/ext_image.c, and the embedded backend, whose code   *)
(* is outside the modelled sources (its results are nondeterministic).    *)
(*                                                                         *)
(* At startup image_module_init runs each backend's init, the startup     *)
(* sweeps of IsulaImage run, and then requests are served.  A request is  *)
(* one step: the entry points take no lock of their own, and each         *)
(* backend call is one gRPC round trip or one store operation.            *)
(***************************************************************************)
EXTENDS IsulaImage, Sequences

CONSTANTS
    EmbeddedEnabled,  \* built with ENABLE_EMBEDDED_IMAGE
    TypeInputs,       \* image types requests name, "null" for a NULL type
    Paths,            \* absolute paths given as external rootfs
    ExistingPaths,    \* those of Paths that exist on the host
    EmbeddedImages,   \* the images the embedded backend's database holds
    ServeDuringSync   \* whether requests are served while the sweeps run

NoName == "null"

VARIABLES
    phase,   \* "init", "sync", "serving" or "exited"
    last     \* the last entry point's call: [checked, ret, ran, bret, bim]

vars == <<isulaVars, phase, last>>

(***************************************************************************)
(* The function tables.  struct bim_ops lists the operations; each table  *)
(* leaves some of them NULL.                                              *)
(***************************************************************************)
BimOpNames ==
    {"init", "clean_resource", "detect", "prepare_rf", "mount_rf", "umount_rf",
     "delete_rf", "export_rf", "merge_conf", "get_user_conf", "list_ims",
     "get_image_count", "rm_image", "inspect_image", "resolve_image_name",
     "container_fs_usage", "get_filesystem_info", "get_storage_status",
     "image_status", "load_image", "pull_image", "login", "logout", "health_check"}

\* g_embedded_ops
EmbeddedOps ==
    BimOpNames \ {"clean_resource", "export_rf", "get_image_count", "get_filesystem_info",
                  "get_storage_status", "image_status", "pull_image", "login", "logout",
                  "health_check"}

\* g_isula_ops: every operation is implemented.
IsulaOps == BimOpNames

\* g_ext_ops
ExtOps ==
    BimOpNames \ {"clean_resource", "export_rf", "get_image_count", "image_status",
                  "get_filesystem_info", "get_storage_status", "pull_image", "health_check"}

BimTable == [oci |-> IsulaOps, external |-> ExtOps, embedded |-> EmbeddedOps]

\* g_bims, in table order: the OCI backend, the external one, the embedded one.
Bims == <<"oci", "external">> \o (IF EmbeddedEnabled THEN <<"embedded">> ELSE <<>>)

BimTypeSet == {Bims[i] : i \in DOMAIN Bims}

Implements(b, op) == b \in BimTypeSet /\ op \in BimTable[b]

\* get_bim_by_type: the table entry of that type, or none.
GetBimByType(t) == IF t \in BimTypeSet THEN t ELSE "none"

\* Name resolution: the external backend copies the name; the others'
\* resolvers are outside the modelled sources and may fail (rok is their
\* outcome in one call; bim_query reaches the embedded resolver only
\* after the OCI one succeeded).
Resolves(b, rok) == b = "external" \/ rok

\* ext_detect: an absolute path that exists; oci_detect: an image of the
\* daemon's store; embedded_detect: an image of its database.
Detects(b, n) ==
    CASE b = "external" -> n \in ExistingPaths
      [] b = "oci"      -> n \in localImgs
      [] OTHER          -> n \in EmbeddedImages

(***************************************************************************)
(* bim_query: the first backend, in table order, whose detector accepts   *)
(* the resolved name; a backend without a resolver or detector is         *)
(* skipped, and a failed resolution ends the search with none.            *)
(***************************************************************************)
RECURSIVE BimQueryFrom(_, _, _)
BimQueryFrom(i, n, rok) ==
    IF i > Len(Bims) THEN "none"
    ELSE LET b == Bims[i] IN
         CASE ~Implements(b, "resolve_image_name") \/ ~Implements(b, "detect")
                                   -> BimQueryFrom(i + 1, n, rok)
           [] ~Resolves(b, rok)    -> "none"
           [] Detects(b, n)        -> b
           [] OTHER                -> BimQueryFrom(i + 1, n, rok)

BimQuery(n, rok) == BimQueryFrom(1, n, rok)

\* bim_get: the backend of the type, with the image name resolved if given.
BimGet(t, hasName, rok) ==
    IF GetBimByType(t) # "none" /\ Implements(t, "resolve_image_name")
       /\ (hasName => Resolves(t, rok))
    THEN t ELSE "none"

Serving == phase = "serving" \/ (phase = "sync" /\ ServeDuringSync)

\* The entry points whose result is not the backend operation's: the
\* listing, the count (0 on error) and the two type queries.
UncheckedOps == {"list_ims", "get_image_count", "get_image_type", "config_image_exist"}

\* Record the call: whether its result should be the backend operation's,
\* the entry point's result, whether the backend operation ran, its
\* result, and the backend.
Done(op, b, ret, ran, bret) ==
    last' = [checked |-> op \notin UncheckedOps, ret |-> ret, ran |-> ran,
             bret |-> IF ran THEN bret ELSE 0, bim |-> b]

\* The outcomes of the two backend inits outside the modelled sources.
Outcomes == [oci : BOOLEAN, embedded : BOOLEAN]

\* The result of backend b's operation op on name n: the external
\* backend's stubs return 0, except ext_merge_conf, which needs an
\* absolute rootfs path that realpath resolves, and ext_get_user_conf,
\* which reads the rootfs's user database; the other backends' results
\* are outcomes (ok).
BackendRet(b, op, n, ok) ==
    IF b = "external"
    THEN CASE op = "merge_conf"    -> Ret(n \in ExistingPaths /\ ok)
           [] op = "get_user_conf" -> Ret(ok)
           [] OTHER                -> 0
    ELSE Ret(ok)

(***************************************************************************)
(* The container rootfs entry points start with ret = 0: invalid          *)
(* arguments or no backend set -1, an operation the table leaves NULL     *)
(* only logs and leaves ret at 0, and otherwise the backend's result is   *)
(* returned.  Only the OCI backend's calls change the server's state.     *)
(***************************************************************************)
RootfsCall(op, argsOk, b, bret, ociEffect) ==
    LET runs == argsOk /\ b # "none" /\ Implements(b, op)
    IN /\ Done(op, b, CASE ~argsOk \/ b = "none" -> -1
                        [] ~runs                -> 0
                        [] OTHER                -> bret,
               runs, bret)
       /\ IF runs /\ b = "oci" THEN ociEffect ELSE UNCHANGED remote
       /\ UNCHANGED <<remoteImgs, localImgs, imgRefs, local, ctrHeld, imgSweep, ctrSweep, phase>>

\* im_get_container_filesystem_usage: the backend by type, no resolution.
ImGetContainerFilesystemUsage ==
    \E t \in TypeInputs, ok \in BOOLEAN :
        LET b == IF t = NoName THEN "none" ELSE GetBimByType(t) IN
        RootfsCall("container_fs_usage", t # NoName, b, BackendRet(b, "container_fs_usage", NoName, ok),
                   UNCHANGED remote)

\* im_remove_container_rootfs
ImRemoveContainerRootfs ==
    \E t \in TypeInputs, c \in Containers, ok \in BOOLEAN :
        LET b == IF t = NoName THEN "none" ELSE BimGet(t, FALSE, TRUE) IN
        RootfsCall("delete_rf", t # NoName, b, BackendRet(b, "delete_rf", NoName, ok), IsulaDeleteRf(c, ok))

\* im_umount_container_rootfs: the image name is required and resolved.
ImUmountContainerRootfs ==
    \E t \in TypeInputs, n \in Refs \cup {NoName}, c \in Containers, rok \in BOOLEAN, ok \in BOOLEAN :
        LET argsOk == t # NoName /\ n # NoName
            b == IF argsOk THEN BimGet(t, TRUE, rok) ELSE "none" IN
        RootfsCall("umount_rf", argsOk, b, BackendRet(b, "umount_rf", n, ok), IsulaUmountRf(c, ok))

\* im_mount_container_rootfs
ImMountContainerRootfs ==
    \E t \in TypeInputs, n \in Refs \cup {NoName}, c \in Containers, rok \in BOOLEAN, ok \in BOOLEAN :
        LET argsOk == t # NoName /\ n # NoName
            b == IF argsOk THEN BimGet(t, TRUE, rok) ELSE "none" IN
        RootfsCall("mount_rf", argsOk, b, BackendRet(b, "mount_rf", n, ok), IsulaMountRf(c, ok))

\* im_merge_image_config: the image name (an image or an external rootfs
\* path) is resolved when given; the OCI backend prepares the rootfs and
\* then merges the image's config.
ImMergeImageConfig ==
    \E t \in TypeInputs, n \in Refs \cup Paths \cup {NoName}, c \in Containers,
       rok \in BOOLEAN, prepOk, ok \in BOOLEAN :
        LET b == IF t = NoName THEN "none" ELSE BimGet(t, n # NoName, rok)
            bret == IF b = "oci" THEN Ret(prepOk /\ ok) ELSE BackendRet(b, "merge_conf", n, ok) IN
        RootfsCall("merge_conf", t # NoName, b, bret, IsulaMergeConfRf(c, prepOk, ok))

\* im_get_user_conf
ImGetUserConf ==
    \E t \in TypeInputs, ok \in BOOLEAN :
        LET b == IF t = NoName THEN "none" ELSE BimGet(t, FALSE, TRUE) IN
        RootfsCall("get_user_conf", t # NoName, b, BackendRet(b, "get_user_conf", NoName, ok),
                   UNCHANGED remote)

(***************************************************************************)
(* The request entry points start with ret = -1: invalid arguments, no    *)
(* backend or an operation the table leaves NULL return -1, otherwise the *)
(* backend's result.                                                      *)
(***************************************************************************)
RequestCall(op, argsOk, b, bret, ociEffect) ==
    LET runs == argsOk /\ b # "none" /\ Implements(b, op)
    IN /\ Done(op, b, IF runs THEN bret ELSE -1, runs, bret)
       /\ IF runs /\ b = "oci" THEN ociEffect ELSE UNCHANGED <<remoteImgs, localImgs>>
       /\ UNCHANGED <<imgRefs, remote, local, ctrHeld, imgSweep, ctrSweep, phase>>

\* im_pull_image: the image is required.
ImPullImage ==
    \E t \in TypeInputs, n \in Refs \cup {NoName}, ok \in BOOLEAN :
        LET b == IF n = NoName THEN "none" ELSE BimGet(t, FALSE, TRUE) IN
        RequestCall("pull_image", n # NoName, b, Ret(ok), IsulaPullRf(n, ok))

\* im_load_image: the tarball path and the type are required.
ImLoadImage ==
    \E t \in TypeInputs, argsOk \in BOOLEAN, loaded \in SUBSET Refs, loadOk \in BOOLEAN :
      \E registered \in LoadRegistrations(loaded) :
        LET b == IF argsOk /\ t # NoName THEN BimGet(t, FALSE, TRUE) ELSE "none"
            bret == IF b = "oci" THEN IsualLoadImageRet(loaded, registered, loadOk)
                    ELSE BackendRet(b, "load_image", NoName, loadOk) IN
        RequestCall("load_image", argsOk /\ t # NoName, b, bret, IsualLoadImage(loaded, registered, loadOk))

\* im_login and im_logout: the server, the type (and for login the
\* credentials) are required.
ImLogin ==
    \E t \in TypeInputs, argsOk, ok \in BOOLEAN :
        LET b == IF argsOk /\ t # NoName THEN BimGet(t, FALSE, TRUE) ELSE "none" IN
        RequestCall("login", argsOk /\ t # NoName, b, BackendRet(b, "login", NoName, ok),
                    UNCHANGED <<remoteImgs, localImgs>>)

ImLogout ==
    \E t \in TypeInputs, argsOk, ok \in BOOLEAN :
        LET b == IF argsOk /\ t # NoName THEN BimGet(t, FALSE, TRUE) ELSE "none" IN
        RequestCall("logout", argsOk /\ t # NoName, b, BackendRet(b, "logout", NoName, ok),
                    UNCHANGED <<remoteImgs, localImgs>>)

ImContainerExportNoFail ==
    \E t \in TypeInputs, argsOk, ok \in BOOLEAN :
        LET b == IF argsOk /\ t # NoName THEN BimGet(t, FALSE, TRUE) ELSE "none" IN
        RootfsCall("export_rf", argsOk /\ t # NoName, b, Ret(ok), UNCHANGED remote)

\* im_container_export: ret starts at 0, but every failure, an
\* unimplemented export included, sets -1.
ImContainerExport ==
    \E t \in TypeInputs, argsOk, ok \in BOOLEAN :
        LET b == IF argsOk /\ t # NoName THEN BimGet(t, FALSE, TRUE) ELSE "none" IN
        RequestCall("export_rf", argsOk /\ t # NoName, b, Ret(ok), UNCHANGED <<remoteImgs, localImgs>>)

(***************************************************************************)
(* The entry points that find the backend from the image reference:       *)
(* bim_query, then bim_get on the type found, resolving the name again.   *)
(***************************************************************************)
QueryBim(n, rok) ==
    LET q == IF n = NoName THEN "none" ELSE BimQuery(n, rok)
    IN  IF q = "none" THEN "none" ELSE BimGet(q, TRUE, rok)

\* im_image_status
ImImageStatus ==
    \E n \in Refs \cup Paths \cup {NoName}, rok \in BOOLEAN, ok \in BOOLEAN :
        RequestCall("image_status", n # NoName, QueryBim(n, rok), Ret(ok), UNCHANGED <<remoteImgs, localImgs>>)

\* im_rm_image: the OCI backend's isula_rmi resolves the name once more.
ImRmImage ==
    \E n \in Refs \cup Paths \cup {NoName}, rok \in BOOLEAN, ok, memOk \in BOOLEAN, rmi \in RmiOutcomes :
        LET b == QueryBim(n, rok)
            bret == IF b = "oci" THEN IsulaRmiRet(n, rok, rmi, memOk)
                    ELSE BackendRet(b, "rm_image", n, ok) IN
        RequestCall("rm_image", n # NoName, b, bret, IsulaRmi(n, rok, rmi, memOk))

\* im_inspect_image and do_im_inspect_image
ImInspectImage ==
    \E n \in Refs \cup Paths \cup {NoName}, rok \in BOOLEAN, ok \in BOOLEAN :
        LET b == QueryBim(n, rok) IN
        RequestCall("inspect_image", n # NoName, b, BackendRet(b, "inspect_image", n, ok),
                    UNCHANGED <<remoteImgs, localImgs>>)

\* im_get_image_type (the external rootfs, else the image) and
\* im_config_image_exist: the type bim_query finds, or an error.
QueryCall(op, n, rok) ==
    LET q == IF n = NoName THEN "none" ELSE BimQuery(n, rok) IN
    /\ Done(op, q, IF q = "none" THEN -1 ELSE 0, FALSE, 0)
    /\ UNCHANGED <<isulaVars, phase>>

ImGetImageType ==
    \E n \in Refs \cup Paths \cup {NoName}, rok \in BOOLEAN : QueryCall("get_image_type", n, rok)

ImConfigImageExist ==
    \E n \in Refs \cup Paths, rok \in BOOLEAN : QueryCall("config_image_exist", n, rok)

(***************************************************************************)
(* The entry points that find the backend by type only and start with     *)
(* ret = -1: im_resolv_image_name, im_get_storage_status,                 *)
(* im_get_filesystem_info, im_health_check.                               *)
(***************************************************************************)
ByTypeOps == {"resolve_image_name", "get_storage_status", "get_filesystem_info", "health_check"}

ImByType ==
    \E op \in ByTypeOps, t \in TypeInputs, ok \in BOOLEAN :
        LET b == IF t = NoName THEN "none" ELSE GetBimByType(t) IN
        RequestCall(op, t # NoName, b, IF b = "external" THEN 0 ELSE Ret(ok),
                    UNCHANGED <<remoteImgs, localImgs>>)

\* im_get_image_count: the size of the backend's store, and 0 on any error.
ImGetImageCount ==
    \E t \in TypeInputs :
        LET b == IF t = NoName THEN "none" ELSE GetBimByType(t)
            runs == b # "none" /\ Implements(b, "get_image_count") IN
        /\ Done("get_image_count", b, IF runs THEN Cardinality(localImgs) ELSE 0, runs, 0)
        /\ UNCHANGED <<isulaVars, phase>>

\* im_list_images: every backend that lists is asked; a failure is only
\* logged, and the call returns 0.
ImListImages ==
    /\ Done("list_ims", "none", 0, FALSE, 0)
    /\ UNCHANGED <<isulaVars, phase>>

(***************************************************************************)
(* Startup and shutdown.  bims_init runs each backend's init in table     *)
(* order and stops at the first failure: ext_init returns 0; isula_init   *)
(* sets up the gRPC client, finds the image server's socket or starts     *)
(* the server and waits for it until a deadline, then loads the image     *)
(* store, and fails if any of these fails; the embedded init is outside   *)
(* the modelled sources.  A failed init ends the daemon.                  *)
(***************************************************************************)
RECURSIVE BimsInit(_, _)
BimsInit(i, iok) ==
    IF i > Len(Bims) THEN 0
    ELSE LET b == Bims[i] IN
         IF ~Implements(b, "init") \/ b = "external" \/ iok[b]
         THEN BimsInit(i + 1, iok) ELSE -1

ImageModuleInit ==
    /\ phase = "init"
    /\ \E iok \in Outcomes : phase' = IF BimsInit(1, iok) = 0 THEN "sync" ELSE "exited"
    /\ UNCHANGED <<isulaVars, last>>

\* image_module_exit: each backend's clean_resource (isula_exit).
ImageModuleExit ==
    /\ phase = "serving"
    /\ phase' = "exited"
    /\ UNCHANGED <<isulaVars, last>>

\* The startup sweeps run after the init.
SyncImages ==
    /\ phase = "sync"
    /\ SyncImagesList \/ SyncImagesStep
    /\ UNCHANGED <<phase, last>>

SyncContainers ==
    /\ phase = "sync"
    /\ SyncContainersList \/ SyncContainersCheck \/ SyncContainersAct
    /\ UNCHANGED <<phase, last>>

\* The daemon serves requests once both sweeps are done.
\* The sweeps' locals, and the failures they noted, end with them.
StartServing ==
    /\ phase = "sync"
    /\ SweepsDone
    /\ phase' = "serving"
    /\ imgSweep' = [imgSweep EXCEPT !.ok = FALSE, !.failed = {}]
    /\ ctrSweep' = [ctrSweep EXCEPT !.mounted = {}, !.ok = FALSE, !.failed = {}]
    /\ UNCHANGED <<remoteImgs, localImgs, imgRefs, remote, local, ctrHeld, last>>

\* Container starts and stops, as the callers of the image module make
\* them: a container runs on a mounted rootfs.
ContainerStart ==
    /\ Serving
    /\ \E c \in Containers :
          /\ local[c] = "stopped" /\ remote[c] = "mounted"
          /\ local' = [local EXCEPT ![c] = "running"]
    /\ UNCHANGED <<remoteImgs, localImgs, imgRefs, remote, ctrHeld, imgSweep, ctrSweep, phase, last>>

ContainerStop ==
    /\ Serving
    /\ \E c \in Containers :
          /\ local[c] = "running"
          /\ local' = [local EXCEPT ![c] = "stopped"]
    /\ UNCHANGED <<remoteImgs, localImgs, imgRefs, remote, ctrHeld, imgSweep, ctrSweep, phase, last>>

Request ==
    /\ Serving
    /\ \/ ImGetContainerFilesystemUsage \/ ImRemoveContainerRootfs
       \/ ImUmountContainerRootfs \/ ImMountContainerRootfs
       \/ ImMergeImageConfig \/ ImGetUserConf
       \/ ImPullImage \/ ImLoadImage \/ ImLogin \/ ImLogout \/ ImContainerExport
       \/ ImImageStatus \/ ImRmImage \/ ImInspectImage
       \/ ImGetImageType \/ ImConfigImageExist
       \/ ImByType \/ ImGetImageCount \/ ImListImages

Init ==
    /\ IsulaInitState
    /\ phase = "init"
    /\ last = [checked |-> FALSE, ret |-> 0, ran |-> FALSE, bret |-> 0, bim |-> "none"]

Next ==
    \/ ImageModuleInit \/ SyncImages \/ SyncContainers \/ StartServing
    \/ Request \/ ContainerStart \/ ContainerStop \/ ImageModuleExit

Spec == Init /\ [][Next]_vars

(***************************************************************************)
(* Properties                                                             *)
(***************************************************************************)
TypeOK ==
    /\ remoteImgs \subseteq Refs /\ localImgs \subseteq Refs
    /\ imgRefs \in [Refs -> Nat]
    /\ remote \in [Containers -> RootfsStates]
    /\ local \in [Containers -> LocalStates]
    /\ ctrHeld \subseteq Containers
    /\ phase \in {"init", "sync", "serving", "exited"}
    /\ last.ret \in -1..Cardinality(Refs)
    /\ last.ran \in BOOLEAN /\ last.bret \in {0, -1}
    /\ last.bim \in BimTypeSet \cup {"none"}

\* An entry point reports success only when the backend operation ran and
\* succeeded.  im_mount_container_rootfs and the other rootfs entry points
\* keep ret = 0 when the table leaves the operation NULL, so this holds
\* only because every table built implements those operations.
SuccessMeansBackendRan ==
    /\ last.checked
    /\ last.ret = 0
    => last.ran /\ last.bret = 0

\* No step of isula_sync_containers unmounts or removes the rootfs of a
\* container the daemon has running.
SweepSparesRunning ==
    [][ctrSweep' # ctrSweep =>
         \A c \in Containers : local[c] = "running" => remote'[c] = remote[c]]_vars

\* When isula_sync_containers has walked the whole list, no rootfs is
\* left at the server for a container the daemon does not know, and none
\* is left mounted for one it has stopped, but for the calls that failed.
SyncContainersReconciles ==
    [][ctrSweep.pc # "done" /\ ctrSweep'.pc = "done" /\ ctrSweep'.ok =>
         \A c \in Containers \ ctrSweep'.failed :
            /\ local'[c] = "absent" => remote'[c] = "absent"
            /\ local'[c] = "stopped" => remote'[c] # "mounted"]_vars

\* When isula_sync_images has walked the whole list, every image the
\* server holds is one the daemon's store knows, but for failed removals.
SyncImagesReconciles ==
    [][imgSweep.pc # "done" /\ imgSweep'.pc = "done" /\ imgSweep'.ok =>
         remoteImgs' \subseteq localImgs' \cup imgSweep'.failed]_vars

\* isula_sync_images drops every image reference it takes.
SyncImagesReleasesRefs == imgSweep.pc = "done" => \A r \in Refs : imgRefs[r] = 0

====
