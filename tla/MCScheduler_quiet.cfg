SPECIFICATION FairQuietSpec
CONSTANTS
  NULL = NULL
  Idle = idle
  ReadyQ = ready_threads_queue
  KernelQ = kernel_threads
  editor = editor
  h = h
  w = w
  BootThreads <- StartupAndTwo
  Masked = {h}
INVARIANTS
  NoAssertionFails
  ReadyQueueComplete
PROPERTIES
  TurnsInOrder
  EveryThreadRuns
  ImplementsRoundRobin
