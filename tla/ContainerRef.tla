----------------------------- MODULE ContainerRef -----------------------------
(***************************************************************************)
(* The lifetime of one container object, from src/src/services/execution/ *)
(* manager/container_unix.c: the atomic reference count (container_new    *)
(* sets it to 1 for the store, container_refinc, container_unref with     *)
(* atomic_int_dec_test, container_free) and the wait-remove condition     *)
(* variable (container_wait_rm_locking, container_wait_rm_cond_broadcast). *)
(*                                                                         *)
(* Users take a reference with containers_store_get and drop it when done  *)
(* (the handler thread, list, the ipc peer lookup).  Waiters take one and  *)
(* block in container_wait_rm_locking.  The removal path takes the         *)
(* container out of the store, broadcasts wait_rm and drops the store's    *)
(* reference.                                                              *)
(***************************************************************************)
EXTENDS Naturals, FiniteSets

CONSTANTS
    Users,        \* threads that get, use and unref the container
    Waiters,      \* threads that get it and wait for its removal
    WaitRmTimed   \* whether waiters pass a timeout >= 0

Threads == Users \cup Waiters

\* Every holder of a reference: each thread and the store.
MaxRef == Cardinality(Threads) + 1

VARIABLES
    inStore,  \* the container is in containers_store
    refcnt,   \* cont->refcnt
    freed,    \* container_free has run
    pc,       \* thread -> step
    rm        \* step of the removal path

vars == <<inStore, refcnt, freed, pc, rm>>

\* Threads whose code still dereferences the container.
Holding == {"held", "waiting", "woken", "returned"}

\* container_new: one reference, owned by the store.
Init ==
    /\ inStore = TRUE
    /\ refcnt = 1
    /\ freed = FALSE
    /\ pc = [t \in Threads |-> "idle"]
    /\ rm = "remove"

ContainerRefincNoop(n) == n

\* container_refinc: atomic_int_inc.
ContainerRefinc(n) == n + 1

ContainerUnrefOffByOne(n) == [cnt |-> n - 1, free |-> n - 1 <= 1]

\* container_unref: atomic_int_dec_test, and container_free on zero.
ContainerUnref(n) == [cnt |-> n - 1, free |-> n - 1 = 0]

\* Drop one reference in one atomic step.
Unref ==
    LET u == ContainerUnref(refcnt) IN
    /\ refcnt' = u.cnt
    /\ freed' = (freed \/ u.free)

\* containers_store_get: the lookup and container_refinc under the store's
\* lock.  A miss is "already removed".
Get(t) ==
    /\ pc[t] = "idle"
    /\ IF inStore
       THEN refcnt' = ContainerRefinc(refcnt) /\ pc' = [pc EXCEPT ![t] = "held"]
       ELSE pc' = [pc EXCEPT ![t] = "done"] /\ UNCHANGED refcnt
    /\ UNCHANGED <<inStore, freed, rm>>

\* The user is done with the container: container_unref on every path.
Release(t) ==
    /\ \/ t \in Users /\ pc[t] = "held"
       \/ t \in Waiters /\ pc[t] = "returned"
    /\ Unref
    /\ pc' = [pc EXCEPT ![t] = "done"]
    /\ UNCHANGED <<inStore, rm>>

\* container_wait_rm_locking: container_lock, then pthread_cond_wait(_timed)
\* with no predicate, which releases the mutex as it blocks: one step, as
\* no other thread can take the mutex in between.
WaitRmBegin(t) ==
    /\ t \in Waiters /\ pc[t] = "held"
    /\ pc' = [pc EXCEPT ![t] = "waiting"]
    /\ UNCHANGED <<inStore, refcnt, freed, rm>>

\* container_wait_rm_cond_wait with a timeout: the deadline passes.
WaitRmTimeout(t) ==
    /\ WaitRmTimed /\ pc[t] = "waiting"
    /\ pc' = [pc EXCEPT ![t] = "woken"]
    /\ UNCHANGED <<inStore, refcnt, freed, rm>>

\* The wait reacquires the mutex and container_wait_rm_locking unlocks it
\* at once.
WaitRmReturn(t) ==
    /\ pc[t] = "woken"
    /\ pc' = [pc EXCEPT ![t] = "returned"]
    /\ UNCHANGED <<inStore, refcnt, freed, rm>>

\* The removal path, outside src/: containers_store_remove, then
\* container_wait_rm_cond_broadcast under the container lock, then the
\* store's container_unref.
RemoveFromStore ==
    /\ rm = "remove"
    /\ inStore' = FALSE /\ rm' = "broadcast"
    /\ UNCHANGED <<refcnt, freed, pc>>

\* container_wait_rm_cond_broadcast: wakes the threads blocked right now.
WaitRmBroadcast ==
    /\ rm = "broadcast"
    /\ pc' = [t \in Threads |-> IF pc[t] = "waiting" THEN "woken" ELSE pc[t]]
    /\ rm' = "unref"
    /\ UNCHANGED <<inStore, refcnt, freed>>

StoreUnref ==
    /\ rm = "unref"
    /\ Unref
    /\ rm' = "done"
    /\ UNCHANGED <<inStore, pc>>

Next ==
    \/ \E t \in Threads :
         Get(t) \/ Release(t) \/ WaitRmBegin(t) \/ WaitRmTimeout(t) \/ WaitRmReturn(t)
    \/ RemoveFromStore \/ WaitRmBroadcast \/ StoreUnref

\* Every thread that holds a reference runs on (the handler, list and
\* merge paths never block while holding it), a timed wait's deadline
\* passes, and the removal path completes.
Fairness ==
    /\ \A t \in Threads :
         /\ WF_vars(Release(t)) /\ WF_vars(WaitRmBegin(t))
         /\ WF_vars(WaitRmTimeout(t)) /\ WF_vars(WaitRmReturn(t))
    /\ WF_vars(RemoveFromStore) /\ WF_vars(WaitRmBroadcast) /\ WF_vars(StoreUnref)

Spec == Init /\ [][Next]_vars /\ Fairness

(***************************************************************************)
(* Properties.                                                             *)
(***************************************************************************)

TypeOK ==
    /\ inStore \in BOOLEAN /\ freed \in BOOLEAN
    /\ refcnt \in 0..MaxRef
    /\ pc \in [Threads -> {"idle", "done"} \cup Holding]
    /\ rm \in {"remove", "broadcast", "unref", "done"}

\* No thread and no step of the removal path touches the container after
\* container_free: while anyone still holds a reference, the last
\* container_unref has not happened.
NoUseAfterFree ==
    /\ \A t \in Threads : pc[t] \in Holding => ~freed
    /\ rm \in {"remove", "broadcast", "unref"} => ~freed

\* While the container lives, refcnt counts exactly its holders: the
\* store until its container_unref, and every thread between
\* containers_store_get and its container_unref.
RefcntCountsHolders ==
    ~freed =>
        refcnt = Cardinality({t \in Threads : pc[t] \in Holding})
                 + (IF rm = "done" THEN 0 ELSE 1)

\* Once the container has left the store, it is eventually freed: every
\* reference taken is dropped and the last container_unref frees it.
EventuallyFreed == (~inStore) ~> freed

====
