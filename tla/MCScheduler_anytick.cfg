SPECIFICATION Spec
CONSTANTS
  NULL = NULL
  Idle = idle
  ReadyQ = ready_threads_queue
  KernelQ = kernel_threads
  editor = editor
  h = h
  w = w
  BootThreads <- StartupAndTwo
  Masked <- MaskedTwo
INVARIANTS
  TypeOK
  OneRunning
  NoAssertionFails
