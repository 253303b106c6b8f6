\* Vulkan: two threads on one queue, two completion threads, one failing call: a thread
\* that waits for a failed submission leaves a thread for the others.
\* Metal: a thread, two completion threads that submit themselves in handlers, two
\* command buffers each, more submissions than there is room for, one timeout.
SPECIFICATION Spec
CONSTANTS
  Parts = {"vulkan", "metal"}
  Threads = {t1, t2}
  Queues = {q1}
  Workers = {w1, w2}
  Slots = {1, 2}
  SecSlots = {1}
  None = None
  NoBlocking = TRUE
  MaxSubmits = 2
  MaxErrors = 1
  MetalThreads = {m1}
  MetalWorkers = {c1, c2}
  MetalSlots = {1, 2}
  NoSlot = NoSlot
  NoElement = NoElement
  Capacity = 2
  MaxNumbers = 3
  MaxTimeouts = 1
INVARIANTS
  CommandBuffersAreSafe
  MetalQueueIsSafe
PROPERTIES
  QueuesDrain
\* After the shutdown nothing more happens.
CHECK_DEADLOCK FALSE
