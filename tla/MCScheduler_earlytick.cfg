SPECIFICATION FairSpec
CONSTANTS
  NULL = NULL
  Idle = idle
  ReadyQ = ready_threads_queue
  KernelQ = kernel_threads
  editor = editor
  h = h
  w = w
  BootThreads <- Startup
  Masked = {}
PROPERTIES
  EveryThreadRuns
