\* A handler adds an event while the main thread handles another one.
SPECIFICATION Spec
CONSTANTS
  Parts = {"events"}
  Cpus = {cpu1, cpu2}
  GroupCount = 3
  LocalSize = 4
  SimdWidth = 2
  MaxOps = 2
  Main = main
  DeviceExecution = TRUE
  Clients = {client1}
  Handlers = {h1}
  MaxEvents = 1
  NoHandler = NoHandler
  Workers = {logger}
  Delayed = {}
  LogThread = logger
  Dtor = dtor
  Callers = {c1, c2}
  MaxMsgs = 1
PROPERTIES
  AddedIsHandled
\* The lock cycle stops both threads.
CHECK_DEADLOCK FALSE
