---------------------------- MODULE MC_Console ----------------------------
(* Calls and inputs for Console: a tty client with and without a detach    *)
(* character, a plain client with three streams, and two copy threads.     *)
EXTENDS Console

MC_Streams == {"in", "out", "err"}

AllFd == [t \in MC_Streams |-> "fd"]
Types(o, e, i) == [out |-> o, err |-> e, in |-> i]

ClientCall(tty, exit, streams) ==
  [fn |-> "client", tty |-> tty, exit |-> exit, streams |-> streams,
   src |-> AllFd, dst |-> AllFd, sync |-> FALSE, detach |-> FALSE]

CopyCall(streams, from, to, sync, detach) ==
  [fn |-> "copy", tty |-> FALSE, exit |-> "none", streams |-> streams,
   src |-> from, dst |-> to, sync |-> sync, detach |-> detach]

MC_Calls ==
  { ClientCall(TRUE, "E", {"in", "out"}),
    ClientCall(TRUE, "none", {"in", "out"}),
    ClientCall(FALSE, "none", {"in", "out", "err"}),
    \* a container's stdout and stderr fifos to the client's fifo and fd
    CopyCall({"out", "err"}, Types("fifo", "fifo", "fd"),
             Types("fifo", "fd", "fd"), TRUE, TRUE),
    \* a client's stdin fd into the container's fifo, through write_func
    CopyCall({"in"}, Types("fd", "fd", "fd"),
             Types("fd", "fd", "fifo"), FALSE, FALSE) }

\* Terminal input: every string of up to three characters over the detach
\* character, 'q' and one other.
TtyInputs == UNION {[1..n -> {"E", "q", "x"}] : n \in 0..3}
Data == {<<>>, <<"d">>, <<"d", "d">>}

MC_InputsOf(c) ==
  IF c.fn = "client" /\ c.tty
    THEN {[in |-> t, out |-> o, err |-> <<>>] : t \in TtyInputs, o \in {<<>>, <<"d">>}}
  ELSE IF c.fn = "client"
    THEN {[in |-> i, out |-> o, err |-> e] : i \in Data, o \in Data, e \in {<<>>, <<"d">>}}
  ELSE {[in |-> i, out |-> o, err |-> e] : i \in Data \ {<<>>}, o \in Data \ {<<>>},
                                           e \in {<<"d">>}}
=============================================================================
