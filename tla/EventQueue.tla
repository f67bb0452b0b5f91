----------------------------- MODULE EventQueue -----------------------------
(***************************************************************************)
(* What a container's event dispatcher promises (design, section 4.8:     *)
(* "each container owns a FIFO event queue and a lazily-spawned single     *)
(* worker"): events are numbered as they are posted, and each one is       *)
(* handled exactly once, in the order of posting, and eventually.          *)
(* Nothing is said about which thread handles an event or when.           *)
(***************************************************************************)
EXTENDS Naturals, Sequences

VARIABLES
    posted,   \* events posted so far; the i-th has number i
    handled   \* the numbers of the events handled, in the order handled

qvars == <<posted, handled>>

Init ==
    /\ posted = 0
    /\ handled = <<>>

\* A producer appends the next event.
Post ==
    /\ posted' = posted + 1
    /\ UNCHANGED handled

\* The oldest event not yet handled is handled.
Handle ==
    /\ Len(handled) < posted
    /\ handled' = Append(handled, Len(handled) + 1)
    /\ UNCHANGED posted

Next == Post \/ Handle

\* A posted event does not wait forever.
Spec == Init /\ [][Next]_qvars /\ WF_qvars(Handle)

TypeOK ==
    /\ posted \in Nat
    /\ handled \in Seq(1..posted)

==============================================================================
