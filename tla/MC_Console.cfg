\* client_console_loop and start_io_copy_thread under every failure the
\* code handles: short, EAGAIN and failed writes, epoll setup, sem_init,
\* pthread_create and the copy thread's setup.
CONSTANTS
  Streams <- MC_Streams
  TtyExit = "E"
  NoExit = "none"
  Calls <- MC_Calls
  InputsOf <- MC_InputsOf
  Faults = {"short", "again", "fail", "epoll", "add", "sem", "create", "setup"}
SPECIFICATION Spec
\* Both loops return and the copy thread exits: a finished call is final.
CHECK_DEADLOCK FALSE
INVARIANTS
  EscapeMatchesSpec
  NoFrameUseAfterReturn
PROPERTIES
  StartReturns
