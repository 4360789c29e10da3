\* One VM, two calls, two bakes, every failure.
SPECIFICATION FairSpec
CONSTANTS
  VMs = {v1}
  NoVM = NoVM
  MaxCalls = 2
  MaxBakes = 2
  Faults = {"death", "hang", "disk", "copy", "spawn", "restore", "stuck", "bake", "crash"}
  Requests <- MCRequests
INVARIANTS TypeOK NothingStray AnswerIsOwn LastWriteStays
PROPERTIES JoinsReady CallEnds ImplementsBackend
CHECK_DEADLOCK FALSE
