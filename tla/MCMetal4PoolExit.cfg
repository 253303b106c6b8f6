\* Without a timeout, and without an end of the context being needed.
SPECIFICATION Spec
CONSTANTS
  Parts = {"metal"}
  Threads = {t1}
  Queues = {q1}
  Workers = {w1}
  Slots = {1}
  SecSlots = {1}
  None = None
  NoBlocking = TRUE
  MaxSubmits = 1
  MaxErrors = 0
  MetalThreads = {m1}
  MetalWorkers = {c1}
  MetalSlots = {1}
  NoSlot = NoSlot
  NoElement = NoElement
  Capacity = 2
  MaxNumbers = 2
  MaxTimeouts = 0
INVARIANTS
  PoolsOutliveTheirUse
CHECK_DEADLOCK FALSE
