----------------------------- MODULE IsulaImage -----------------------------
(***************************************************************************)
(* The OCI image backend of the daemon (src/image/oci/isula_image.c).      *)
(* Images and container root filesystems live in the isulad-img server;   *)
(* the daemon keeps its own image store (oci_images_store) and container  *)
(* store (containers_store) in memory.  Each backend operation forwards   *)
(* one gRPC call and updates the memory store after it; at startup two    *)
(* sweeps, isula_sync_images and isula_sync_containers, walk the server's *)
(* lists and remove what the daemon no longer knows.                      *)
(*                                                                         *)
(* The gRPC calls (isula_image_rmi, isula_rootfs_mount, ...) and the      *)
(* memory stores are outside the modelled sources: each call's result is   *)
(* a nondeterministic success or failure, and on success it has the       *)
(* effect its name gives it on the server's state.                        *)
(***************************************************************************)
EXTENDS Integers, FiniteSets

CONSTANTS
    Refs,          \* image references (an image id stands for its reference)
    Containers     \* container ids

VARIABLES
    remoteImgs,    \* images held by the isulad-img server
    localImgs,     \* images in the daemon's memory store
    imgRefs,       \* [Refs -> Nat]: references from oci_images_store_get not yet dropped
    remote,        \* [Containers -> RootfsStates]: each container's rootfs at the server
    local,         \* [Containers -> LocalStates]: the daemon's container store
    ctrHeld,       \* containers whose reference isula_sync_containers holds
    imgSweep,      \* isula_sync_images: [pc, todo, ok, failed]
    ctrSweep       \* isula_sync_containers: [pc, todo, mounted, cur, act, ok, failed]

isulaVars == <<remoteImgs, localImgs, imgRefs, remote, local, ctrHeld, imgSweep, ctrSweep>>

RootfsStates == {"absent", "unmounted", "mounted"}
LocalStates  == {"absent", "stopped", "running"}

\* Result of a call: 0 or -1, as the C functions return it.
Ret(ok) == IF ok THEN 0 ELSE -1

(***************************************************************************)
(* Startup state.  The daemon restarts with the server's state left by    *)
(* the previous run, and the two stores may disagree in every way a crash  *)
(* between a server call and the matching store update allows; only a     *)
(* running container always has its rootfs mounted.                       *)
(***************************************************************************)
IsulaInitState ==
    /\ remoteImgs \in SUBSET Refs
    /\ localImgs \in SUBSET Refs
    /\ imgRefs = [r \in Refs |-> 0]
    /\ remote \in [Containers -> RootfsStates]
    /\ local \in [Containers -> LocalStates]
    /\ \A c \in Containers : local[c] = "running" => remote[c] = "mounted"
    /\ ctrHeld = {}
    /\ imgSweep = [pc |-> "list", todo |-> {}, ok |-> FALSE, failed |-> {}]
    /\ ctrSweep = [pc |-> "list", todo |-> {}, mounted |-> {}, cur |-> "none",
                   act |-> "none", ok |-> FALSE, failed |-> {}]

(***************************************************************************)
(* Backend operations.  Each is an action fragment that sets the server   *)
(* and store state; the dispatcher (ImageService) records its result.     *)
(***************************************************************************)

\* isula_pull_rf: the server pulls the image and the daemon registers it.
IsulaPullRf(r, ok) ==
    /\ remoteImgs' = IF ok THEN remoteImgs \cup {r} ELSE remoteImgs
    /\ localImgs' = IF ok THEN localImgs \cup {r} ELSE localImgs

\* isula_merge_conf_rf: the server prepares the rootfs, then the image's
\* config is merged into the container's; a merge failure leaves the
\* prepared rootfs in place.
IsulaMergeConfRf(c, prepOk, mergeOk) ==
    remote' = IF prepOk /\ remote[c] = "absent"
              THEN [remote EXCEPT ![c] = "unmounted"] ELSE remote

\* isula_mount_rf, isula_umount_rf, isula_delete_rf.
IsulaMountRf(c, ok) ==
    remote' = IF ok /\ remote[c] = "unmounted" THEN [remote EXCEPT ![c] = "mounted"] ELSE remote

IsulaUmountRf(c, ok) ==
    remote' = IF ok /\ remote[c] = "mounted" THEN [remote EXCEPT ![c] = "unmounted"] ELSE remote

IsulaDeleteRf(c, ok) ==
    remote' = IF ok THEN [remote EXCEPT ![c] = "absent"] ELSE remote

(***************************************************************************)
(* isula_rmi: resolve the name; an image the memory store does not hold   *)
(* is reported removed without asking the server; otherwise the server    *)
(* removes it ("image not known" counts as removed) and then the memory   *)
(* store drops it.  rmi is one of RmiOutcomes.                            *)
(***************************************************************************)
RmiOutcomes == {"ok", "not_known", "error"}

IsulaRmiRet(r, resolveOk, rmi, memOk) ==
    CASE ~resolveOk           -> -1
      [] r \notin localImgs   -> 0
      [] rmi = "error"        -> -1
      [] OTHER                -> Ret(memOk)

IsulaRmi(r, resolveOk, rmi, memOk) ==
    LET reached == resolveOk /\ r \in localImgs IN
    /\ remoteImgs' = IF reached /\ rmi = "ok" THEN remoteImgs \ {r} ELSE remoteImgs
    /\ localImgs' = IF reached /\ rmi # "error" /\ memOk THEN localImgs \ {r} ELSE localImgs

(***************************************************************************)
(* isual_load_image: the server loads the tarball's images (some of them  *)
(* even when the load fails), then each loaded reference is registered in *)
(* the memory store, stopping at the first registration that fails.       *)
(***************************************************************************)
IsualLoadImage(loaded, registered, loadOk) ==
    /\ remoteImgs' = remoteImgs \cup loaded
    /\ localImgs' = localImgs \cup registered

IsualLoadImageRet(loaded, registered, loadOk) == Ret(loadOk /\ registered = loaded)

\* The registrations a load can complete: all of them, or those before the
\* first failure (the array's order is the server's, so any subset).
LoadRegistrations(loaded) == SUBSET loaded

(***************************************************************************)
(* isula_sync_images.  The remote list is read once; for each image the   *)
(* memory store is asked; an image it does not hold is removed from the    *)
(* server with force.  The reference oci_images_store_get returns for an  *)
(* image it does hold is never dropped: the loop continues before the     *)
(* oci_image_unref that follows.                                           *)
(***************************************************************************)
SyncImagesList ==
    /\ imgSweep.pc = "list"
    /\ \E ok \in BOOLEAN :
          imgSweep' = [imgSweep EXCEPT !.pc = IF ok /\ remoteImgs # {} THEN "loop" ELSE "done",
                                       !.todo = IF ok THEN remoteImgs ELSE {},
                                       !.ok = ok]
    /\ UNCHANGED <<remoteImgs, localImgs, imgRefs, remote, local, ctrHeld, ctrSweep>>

SyncImagesStepInverted ==
    /\ imgSweep.pc = "loop"
    /\ \E r \in imgSweep.todo, rmOk \in BOOLEAN :
          /\ imgRefs' = IF r \in localImgs THEN [imgRefs EXCEPT ![r] = @ + 1] ELSE imgRefs
          /\ remoteImgs' = IF r \in localImgs /\ rmOk THEN remoteImgs \ {r} ELSE remoteImgs
          /\ imgSweep' = [imgSweep EXCEPT
                            !.todo = @ \ {r},
                            !.pc = IF imgSweep.todo = {r} THEN "done" ELSE "loop",
                            !.failed = IF r \in localImgs /\ ~rmOk THEN @ \cup {r} ELSE @]
    /\ UNCHANGED <<localImgs, remote, local, ctrHeld, ctrSweep>>

SyncImagesStep ==
    /\ imgSweep.pc = "loop"
    /\ \E r \in imgSweep.todo, rmOk \in BOOLEAN :
          /\ imgRefs' = IF r \in localImgs THEN [imgRefs EXCEPT ![r] = @ + 1] ELSE imgRefs
          /\ remoteImgs' = IF r \notin localImgs /\ rmOk THEN remoteImgs \ {r} ELSE remoteImgs
          /\ imgSweep' = [imgSweep EXCEPT
                            !.todo = @ \ {r},
                            !.pc = IF imgSweep.todo = {r} THEN "done" ELSE "loop",
                            !.failed = IF r \notin localImgs /\ ~rmOk THEN @ \cup {r} ELSE @]
    /\ UNCHANGED <<localImgs, remote, local, ctrHeld, ctrSweep>>

(***************************************************************************)
(* isula_sync_containers.  The remote list maps each rootfs to whether it *)
(* is mounted, read once.  For each entry the container store is asked:   *)
(* a rootfs of no known container is unmounted with force if it was       *)
(* listed mounted and then removed, each failure only logged               *)
(* (cleanup_container_rootfs); a listed-mounted rootfs of a container not  *)
(* running is unmounted with force; the store's reference is dropped.     *)
(* The check and the server calls are two steps: the container's state is *)
(* read, without its lock, before the calls are made.                     *)
(***************************************************************************)
SyncContainersList ==
    /\ ctrSweep.pc = "list"
    /\ \E ok \in BOOLEAN :
          LET listed == {c \in Containers : remote[c] # "absent"} IN
          ctrSweep' = [ctrSweep EXCEPT !.pc = IF ok /\ listed # {} THEN "loop" ELSE "done",
                                       !.todo = IF ok THEN listed ELSE {},
                                       !.mounted = {c \in Containers : remote[c] = "mounted"},
                                       !.ok = ok]
    /\ UNCHANGED <<remoteImgs, localImgs, imgRefs, remote, local, ctrHeld, imgSweep>>

\* What the sweep will do to a listed rootfs, from the container store.
SyncDecision(c) ==
    CASE local[c] = "absent"                                 -> "cleanup"
      [] local[c] # "running" /\ c \in ctrSweep.mounted     -> "umount"
      [] OTHER                                               -> "keep"

SyncContainersCheck ==
    /\ ctrSweep.pc = "loop"
    /\ ctrSweep.cur = "none"
    /\ \E c \in ctrSweep.todo :
          /\ ctrSweep' = [ctrSweep EXCEPT !.cur = c, !.act = SyncDecision(c)]
          /\ ctrHeld' = IF local[c] # "absent" THEN ctrHeld \cup {c} ELSE ctrHeld
    /\ UNCHANGED <<remoteImgs, localImgs, imgRefs, remote, local, imgSweep>>

CleanupContainerRootfsNoRemove(c, umOk, rmOk) ==
    IF c \in ctrSweep.mounted /\ umOk THEN "unmounted" ELSE remote[c]

\* cleanup_container_rootfs: the removal is tried even when the unmount failed.
CleanupContainerRootfs(c, umOk, rmOk) ==
    LET afterUmount == IF c \in ctrSweep.mounted /\ umOk THEN "unmounted" ELSE remote[c]
    IN  IF rmOk THEN "absent" ELSE afterUmount

\* container_unref: the sweep's reference to the container is dropped.
SyncRelease(c) == ctrHeld \ {c}

SyncContainersAct ==
    /\ ctrSweep.pc = "loop"
    /\ ctrSweep.cur # "none"
    /\ \E umOk, rmOk \in BOOLEAN :
          LET c == ctrSweep.cur
              failed == \/ ctrSweep.act = "cleanup" /\ ~rmOk
                        \/ ctrSweep.act # "keep" /\ c \in ctrSweep.mounted /\ ~umOk
          IN
          /\ remote' = CASE ctrSweep.act = "cleanup" -> [remote EXCEPT ![c] = CleanupContainerRootfs(c, umOk, rmOk)]
                          [] ctrSweep.act = "umount"  -> [remote EXCEPT ![c] = IF umOk THEN "unmounted" ELSE @]
                          [] OTHER                    -> remote
          /\ ctrHeld' = SyncRelease(c)
          /\ ctrSweep' = [ctrSweep EXCEPT !.todo = @ \ {c}, !.cur = "none", !.act = "none",
                                          !.pc = IF ctrSweep.todo = {c} THEN "done" ELSE "loop",
                                          !.failed = IF failed THEN @ \cup {c} ELSE @]
    /\ UNCHANGED <<remoteImgs, localImgs, imgRefs, local, imgSweep>>

SweepsDone == imgSweep.pc = "done" /\ ctrSweep.pc = "done"

====
