SPECIFICATION FairSpec
CONSTANTS
  boot = boot
  editor = editor
  other = other
  Boot = boot
  Thread = {boot, editor, other}
  Callers = {boot, editor}
  MaxDepth = 2
INVARIANTS TypeOK OneFrame NotPreemptedInside Interruptible ContextFollowsCurrent NoMissingGate
PROPERTIES TimerServed
