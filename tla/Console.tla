------------------------------ MODULE Console ------------------------------
(***************************************************************************)
(* console/console.c: the loops that copy a container's stdio.            *)
(*  - client_console_loop: a client copies its stdin into the container's *)
(*    input fifo and the output fifos to its stdout and stderr.  On a tty *)
(*    stdin is read a byte at a time, and tty_exit followed by 'q' (the   *)
(*    detach sequence) ends the loop.                                      *)
(*  - start_io_copy_thread: the caller puts the thread's argument, and the *)
(*    semaphore in it, on its own stack and waits until the copy thread   *)
(*    has opened its fds.  The thread then runs console_loop_io_copy until *)
(*    a source ends, a write fails or sync_fd becomes readable.            *)
(* Both loops run on epoll_loop, which is not in this repository: it calls *)
(* the callback of a ready fd and returns as soon as one returns > 0.     *)
(* A source is the writer end of a pipe.  It writes its input chunk by    *)
(* chunk and then closes.  A chunk is named by its index in the input.    *)
(***************************************************************************)
EXTENDS Naturals, Sequences, SequencesExt

CONSTANTS
  Streams,     \* the stdio streams "in", "out", "err"
  TtyExit,     \* the character a tty client passes as tty_exit
  NoExit,      \* tty_exit = -1: no detach sequence
  Calls,       \* the calls made: client_console_loop or start_io_copy_thread
  InputsOf(_), \* for a call, what each stream's writer writes
  Faults       \* the failures the environment may produce

VARIABLES
  call,       \* the call and its arguments
  input,      \* [Streams -> Seq]: what each writer end writes
  avail,      \* chunks each writer has written so far
  wclosed,    \* the writer end has closed (EPOLLHUP, read returns 0)
  nread,      \* chunks the loop has read from each source
  dst,        \* what each destination received: [idx, whole] records
  reg,        \* the fds with an epoll handler
  loop,       \* "setup", "running" or "ended"
  endBy,      \* what ended the loop: [why, s]
  sawExit,    \* ts->saw_tty_exit
  errnoAgain, \* errno of the copying thread holds EAGAIN
  syncFired,  \* sync_fd has become readable
  cpc,        \* caller of start_io_copy_thread: "idle", "wait", "returned"
  startRet,   \* what start_io_copy_thread returned
  tpc,        \* the copy thread: "none", "setup", "post", "loop0", "loop",
              \* "exit", "done"
  sem,        \* thread_arg.wait_sem
  posted,     \* io_copy_thread_main's local posted
  frameLive,  \* start_io_copy_thread's frame, thread_arg in it, is live
  staleUse    \* history: the thread touched thread_arg after it died

vars == <<call, input, avail, wclosed, nread, dst, reg, loop, endBy, sawExit,
          errnoAgain, syncFired, cpc, startRet, tpc, sem, posted, frameLive,
          staleUse>>
srcVars  == <<input, avail, wclosed>>
loopVars == <<nread, dst, reg, loop, endBy, sawExit, errnoAgain, syncFired>>
copyVars == <<cpc, startRet, tpc, sem, posted, frameLive, staleUse>>

IsClient == call.fn = "client"

\* The fault f may happen: a choice of TRUE or FALSE, or FALSE only.
May(f) == IF f \in Faults THEN BOOLEAN ELSE {FALSE}

NoEnd == [why |-> "none", s |-> "none"]

\* epoll_loop returns: a callback returned > 0 (or the setup failed).
End(why, s) == loop' = "ended" /\ endBy' = [why |-> why, s |-> s]

-----------------------------------------------------------------------------
(* The callbacks.                                                          *)

\* The fd has data, or its writer end has closed.
Readable(s) == s \in reg /\ (nread[s] < avail[s] \/ wclosed[s])

\* util_read_nointr on a ready fd: the next chunk, or 0 at end of file
\* (EINTR is retried).
ReadNointr(s) == IF nread[s] < avail[s] THEN nread[s] + 1 ELSE 0

\* The client writes with fd_write_function; the copy thread with what
\* io_copy_make_dstfds chose for the destination's type.
WriterKind(s) == IF IsClient THEN "fd" ELSE call.dst[s]

(* What write(2) does with a chunk: all of it, a part ("short"), nothing  *)
(* with EAGAIN (only a non-blocking fifo), or nothing with an error.  A    *)
(* one-byte tty write cannot be short.                                     *)
OutcomesOf(kind, s) ==
  {"ok"} \cup {o \in Faults \cap {"short", "again", "fail"} :
                 /\ o = "again" => kind = "fifo"
                 /\ o = "short" => ~(IsClient /\ call.tty /\ s = "in")}

(* Whether write_func's result equals the length, so the callback goes on, *)
(* given errno after the write.  fd_write_function: only a complete write. *)
(* fifo_write_function returns len whenever errno is EAGAIN: the write     *)
(* failed with it, or a short write left errno at an earlier EAGAIN.       *)
WriteReported(kind, o, again) ==
  \/ o = "ok"
  \/ kind = "fifo" /\ (o = "again" \/ (o = "short" /\ again))

(* Whether errno holds EAGAIN after util_write_nointr: a failing write   *)
(* sets errno; any other keeps the old value, unless an EINTR was retried  *)
(* on the way, which leaves EINTR.                                          *)
ErrnoAfter(o, again) ==
  CASE o = "again" -> {TRUE}
    [] o = "fail"  -> {FALSE}
    [] OTHER       -> {again, FALSE}

Received(o, i) ==
  CASE o = "ok"    -> <<[idx |-> i, whole |-> TRUE]>>
    [] o = "short" -> <<[idx |-> i, whole |-> FALSE]>>
    [] OTHER       -> <<>>

(* console_writer_write_data, and the write of the tty callback: a write   *)
(* that does not report the whole length makes the callback return 1.     *)
WriteChunk(s, i) ==
  \E o \in OutcomesOf(WriterKind(s), s) :
    \E again \in ErrnoAfter(o, errnoAgain) :
      /\ dst' = [dst EXCEPT ![s] = @ \o Received(o, i)]
      /\ errnoAgain' = again
      /\ IF WriteReported(WriterKind(s), o, again)
           THEN UNCHANGED <<loop, endBy>>
           ELSE End("wfail", s)

\* Mutation: saw_tty_exit is not reset by an ordinary character.
EscapeStepNoReset(exit, saw, c) ==
  IF exit = NoExit THEN [act |-> "forward", saw |-> saw]
  ELSE CASE c = exit /\ ~saw -> [act |-> "swallow", saw |-> TRUE]
         [] c = "q" /\ saw   -> [act |-> "detach", saw |-> saw]
         [] OTHER            -> [act |-> "forward", saw |-> saw]

(* The escape logic of console_cb_tty_stdin_with_escape: the first        *)
(* tty_exit is held back, a 'q' after it detaches, and any other character *)
(* clears saw_tty_exit and is forwarded, the held tty_exit not with it.    *)
EscapeStep(exit, saw, c) ==
  IF exit = NoExit THEN [act |-> "forward", saw |-> saw]
  ELSE CASE c = exit /\ ~saw -> [act |-> "swallow", saw |-> TRUE]
         [] c = "q" /\ saw   -> [act |-> "detach", saw |-> saw]
         [] OTHER            -> [act |-> "forward", saw |-> FALSE]

\* console_cb_tty_stdin_with_escape: read one byte from the terminal.
CbTtyStdinWithEscape ==
  LET i == ReadNointr("in")
      e == EscapeStep(call.exit, sawExit, input["in"][i])
  IN  /\ loop = "running" /\ IsClient /\ call.tty /\ Readable("in")
      /\ IF i = 0
           THEN End("eof", "in") /\ UNCHANGED <<nread, dst, sawExit, errnoAgain>>
           ELSE /\ nread' = [nread EXCEPT !["in"] = i]
                /\ sawExit' = e.saw
                /\ CASE e.act = "swallow" ->
                          UNCHANGED <<dst, loop, endBy, errnoAgain>>
                     [] e.act = "detach" ->
                          End("escape", "in") /\ UNCHANGED <<dst, errnoAgain>>
                     [] e.act = "forward" -> WriteChunk("in", i)
      /\ UNCHANGED <<srcVars, reg, syncFired, copyVars, call>>

(* console_cb_stdio_copy on a source fd: read a chunk and write it to the *)
(* stream's writer; end of file or a failed write returns 1.  A failed    *)
(* calloc of the buffer returns -1, which epoll_loop ignores; the fd stays *)
(* ready, so it is not a step of its own.                                  *)
CbStdioCopy(s) ==
  LET i == ReadNointr(s)
  IN  /\ loop = "running" /\ Readable(s)
      /\ ~(IsClient /\ call.tty /\ s = "in")
      /\ IF i = 0
           THEN End("eof", s) /\ UNCHANGED <<nread, dst, errnoAgain>>
           ELSE nread' = [nread EXCEPT ![s] = i] /\ WriteChunk(s, i)
      /\ UNCHANGED <<srcVars, reg, sawExit, syncFired, copyVars, call>>

\* console_cb_stdio_copy on sync_fd: return 1.
CbSync ==
  /\ loop = "running" /\ ~IsClient /\ call.sync /\ syncFired
  /\ End("sync", "none")
  /\ UNCHANGED <<srcVars, nread, dst, reg, sawExit, errnoAgain, syncFired,
                 copyVars, call>>

-----------------------------------------------------------------------------
(* client_console_loop: open the epoll loop, add a handler for each fifo  *)
(* given (a failure for stdin is only logged, one for stdout or stderr    *)
(* ends the call), run the loop, then delete the handlers and close it.  *)
ClientConsoleLoop ==
  /\ loop = "setup" /\ IsClient
  /\ \E openFails \in May("epoll"),
        bad \in IF "add" \in Faults THEN SUBSET call.streams ELSE {{}} :
       IF openFails \/ bad \cap {"out", "err"} # {}
         THEN End("setup", "none") /\ UNCHANGED reg
         ELSE /\ reg' = call.streams \ bad
              /\ loop' = "running"
              /\ UNCHANGED endBy
  /\ UNCHANGED <<srcVars, nread, dst, sawExit, errnoAgain, syncFired,
                 copyVars, call>>

-----------------------------------------------------------------------------
(* start_io_copy_thread and the copy thread.                               *)

\* start_io_copy_thread: sem_init, pthread_create, then sem_wait.
StartIoCopyThread ==
  /\ cpc = "idle" /\ ~IsClient
  /\ \E semFails \in May("sem"), createFails \in May("create") :
       IF semFails \/ createFails
         THEN /\ cpc' = "returned" /\ startRet' = -1 /\ frameLive' = FALSE
              /\ UNCHANGED tpc
         ELSE /\ cpc' = "wait" /\ tpc' = "setup"
              /\ UNCHANGED <<startRet, frameLive>>
  /\ UNCHANGED <<srcVars, loopVars, sem, posted, staleUse, call>>

\* sem_wait returns; sem_destroy; the frame is gone with the return.
StartWaitReturn ==
  /\ cpc = "wait" /\ sem > 0
  /\ sem' = sem - 1
  /\ cpc' = "returned" /\ startRet' = 0 /\ frameLive' = FALSE
  /\ UNCHANGED <<srcVars, loopVars, tpc, posted, staleUse, call>>

\* Where the setup of io_copy_thread_main can fail and jump to err.
SetupFailPoints ==
  IF "setup" \notin Faults THEN {}
  ELSE {"alloc"} \cup (IF call.detach THEN {"detach"} ELSE {})
         \cup {"open_src_" \o s : s \in {t \in call.streams : call.src[t] = "fifo"}}
         \cup {"open_dst_" \o s : s \in {t \in call.streams : call.dst[t] = "fifo"}}

(* io_copy_thread_main reads detach, len, sync_fd and copy_arg from      *)
(* thread_arg, then io_copy_init_fds, io_copy_make_srcfds and             *)
(* io_copy_make_dstfds open the fifos; any failure jumps to err.         *)
IoCopyThreadSetup ==
  /\ tpc = "setup"
  /\ staleUse' = (staleUse \/ ~frameLive)
  /\ \E at \in SetupFailPoints \cup {"none"} :
       tpc' = IF at = "none" THEN "post" ELSE "exit"
  /\ UNCHANGED <<srcVars, loopVars, cpc, startRet, sem, posted, frameLive, call>>

\* sem_post(&thread_arg->wait_sem); posted = true.
IoCopyThreadPost ==
  /\ tpc = "post"
  /\ sem' = sem + 1 /\ posted' = TRUE
  /\ staleUse' = (staleUse \/ ~frameLive)
  /\ tpc' = "loop0"
  /\ UNCHANGED <<srcVars, loopVars, cpc, startRet, frameLive, call>>

(* console_loop_io_copy: calloc the tty states, open the epoll loop, add a *)
(* handler per source and one for sync_fd, whose result is not checked.  *)
ConsoleLoopIoCopy ==
  /\ tpc = "loop0" /\ loop = "setup"
  /\ \E fails \in May("epoll") :
       IF fails
         THEN End("setup", "none") /\ UNCHANGED reg
         ELSE reg' = call.streams /\ loop' = "running" /\ UNCHANGED endBy
  /\ tpc' = "loop"
  /\ UNCHANGED <<srcVars, nread, dst, sawExit, errnoAgain, syncFired, cpc,
                 startRet, sem, posted, frameLive, staleUse, call>>

\* Mutation: the err path does not post, so a failed setup never wakes
\* the caller.
IoCopyThreadExitNoPost ==
  /\ tpc = "exit" \/ (tpc = "loop" /\ loop = "ended")
  /\ tpc' = "done"
  /\ UNCHANGED <<srcVars, loopVars, cpc, startRet, sem, posted, frameLive,
                 staleUse, call>>

\* Mutation: the err path posts whether or not the thread already had.
IoCopyThreadExitAlwaysPost ==
  /\ tpc = "exit" \/ (tpc = "loop" /\ loop = "ended")
  /\ sem' = sem + 1 /\ staleUse' = (staleUse \/ ~frameLive)
  /\ tpc' = "done"
  /\ UNCHANGED <<srcVars, loopVars, cpc, startRet, posted, frameLive, call>>

(* err: post the semaphore if the thread has not, then                    *)
(* io_copy_thread_cleanup closes the writers and the fifos it opened.    *)
IoCopyThreadExit ==
  /\ tpc = "exit" \/ (tpc = "loop" /\ loop = "ended")
  /\ IF ~posted
       THEN sem' = sem + 1 /\ staleUse' = (staleUse \/ ~frameLive)
       ELSE UNCHANGED <<sem, staleUse>>
  /\ tpc' = "done"
  /\ UNCHANGED <<srcVars, loopVars, cpc, startRet, posted, frameLive, call>>

-----------------------------------------------------------------------------
(* The environment.                                                        *)

\* A writer end writes its next chunk, while the loop may still read it.
Produce(s) ==
  /\ s \in call.streams /\ loop # "ended"
  /\ avail[s] < Len(input[s])
  /\ avail' = [avail EXCEPT ![s] = @ + 1]
  /\ UNCHANGED <<input, wclosed, loopVars, copyVars, call>>

\* A writer end that has written everything closes.
CloseWriter(s) ==
  /\ s \in call.streams /\ loop # "ended"
  /\ avail[s] = Len(input[s]) /\ ~wclosed[s]
  /\ wclosed' = [wclosed EXCEPT ![s] = TRUE]
  /\ UNCHANGED <<input, avail, loopVars, copyVars, call>>

\* The owner of sync_fd writes to it to stop the copy.
SyncSignal ==
  /\ ~IsClient /\ call.sync /\ ~syncFired
  /\ syncFired' = TRUE
  /\ UNCHANGED <<srcVars, nread, dst, reg, loop, endBy, sawExit, errnoAgain,
                 copyVars, call>>

-----------------------------------------------------------------------------
Init ==
  /\ call \in Calls
  /\ input \in InputsOf(call)
  /\ avail = [s \in Streams |-> 0]
  /\ wclosed = [s \in Streams |-> FALSE]
  /\ nread = [s \in Streams |-> 0]
  /\ dst = [s \in Streams |-> <<>>]
  /\ reg = {}
  /\ loop = "setup"
  /\ endBy = NoEnd
  /\ sawExit = FALSE
  /\ errnoAgain = FALSE
  /\ syncFired = FALSE
  /\ cpc = "idle" /\ startRet = 0 /\ tpc = "none"
  /\ sem = 0 /\ posted = FALSE /\ frameLive = TRUE /\ staleUse = FALSE

Next ==
  \/ ClientConsoleLoop \/ CbTtyStdinWithEscape \/ CbSync
  \/ StartIoCopyThread \/ StartWaitReturn
  \/ IoCopyThreadSetup \/ IoCopyThreadPost \/ ConsoleLoopIoCopy
  \/ IoCopyThreadExit
  \/ \E s \in Streams : CbStdioCopy(s) \/ Produce(s) \/ CloseWriter(s)
  \/ SyncSignal

(* The copy thread and the waiting caller are runnable threads of the     *)
(* daemon; the writers, the terminal and sync_fd's owner get no fairness. *)
Fairness ==
  /\ WF_vars(IoCopyThreadSetup) /\ WF_vars(IoCopyThreadPost)
  /\ WF_vars(ConsoleLoopIoCopy) /\ WF_vars(IoCopyThreadExit)
  /\ WF_vars(StartWaitReturn)

Spec == Init /\ [][Next]_vars /\ Fairness

-----------------------------------------------------------------------------
(* Properties                                                              *)

\* The chunk indices a destination received, in the order received.
Idx(seq) == [k \in DOMAIN seq |-> seq[k].idx]

\* The length of the run of tty_exit characters ending at position i.
RECURSIVE ExitRun(_, _)
ExitRun(seq, i) ==
  IF i = 0 \/ seq[i] # call.exit THEN 0 ELSE 1 + ExitRun(seq, i - 1)

\* Reference for the detach sequence, by run length: in a run of tty_exit
\* characters the odd ones are held back and the even ones typed through,
\* and a 'q' right after an odd run detaches.
HeldBack(seq, i) == call.exit # NoExit /\ seq[i] = call.exit /\ ExitRun(seq, i) % 2 = 1
DetachAt(seq, i) ==
  call.exit # NoExit /\ i > 1 /\ seq[i] = "q" /\ ExitRun(seq, i - 1) % 2 = 1
TypedThrough(seq, n) ==
  SetToSortSeq({i \in 1..n : ~HeldBack(seq, i) /\ ~DetachAt(seq, i)}, <)

(* On a tty, client_console_loop detaches exactly when the characters read *)
(* end in the detach sequence, and the container's input fifo receives the *)
(* characters read minus those the run-length reference holds back (the    *)
(* last one missing when its write failed).  It is about the saw_tty_exit  *)
(* state of console_cb_tty_stdin_with_escape across many callbacks.        *)
EscapeMatchesSpec ==
  IsClient /\ call.tty =>
    LET n    == nread["in"]
        want == TypedThrough(input["in"], n)
    IN  /\ (endBy.why = "escape") <=> (n > 0 /\ DetachAt(input["in"], n))
        /\ Idx(dst["in"]) = IF endBy = [why |-> "wfail", s |-> "in"]
                              THEN Front(want) ELSE want

(* The copy thread never touches thread_arg, which lives in              *)
(* start_io_copy_thread's stack frame, after start_io_copy_thread has     *)
(* returned: it posts wait_sem exactly once, the err path only when the   *)
(* success path has not.                                                   *)
NoFrameUseAfterReturn == ~staleUse

(* start_io_copy_thread, blocked in sem_wait, eventually returns: every   *)
(* path of io_copy_thread_main, the failing ones included, posts.         *)
StartReturns == (cpc = "wait") ~> (cpc = "returned")

(* A caller of client_console_loop expects the container's output that is *)
(* already in the fifos when the loop returns at an end of file to have   *)
(* been copied.  epoll_loop returns at the first callback that returns 1, *)
(* so stdin's end of file can end it first.  MC_EofDropsOutput.cfg finds  *)
(* this violated.                                                          *)
OutputDrained ==
  loop = "ended" /\ endBy.why = "eof" =>
    \A s \in reg \ {"in"} : nread[s] = avail[s]

(* start_io_copy_thread returns 0 only when the copy thread has opened its *)
(* fds and posted from the success path.  It returns 0 after a failed     *)
(* setup too; MC_CopySetupFails.cfg finds this violated.                  *)
StartSuccessMeansCopying == cpc = "returned" /\ startRet = 0 => posted

=============================================================================
