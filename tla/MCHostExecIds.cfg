\* Functions compiled into the program (execute_host).
SPECIFICATION Spec
CONSTANTS
  Parts = {"launch"}
  Cpus = {cpu1, cpu2}
  GroupCount = 3
  LocalSize = 4
  SimdWidth = 2
  MaxOps = 2
  Main = main
  DeviceExecution = FALSE
  Clients = {client1}
  Handlers = {h1}
  MaxEvents = 1
  NoHandler = NoHandler
  Workers = {logger}
  Delayed = {}
  LogThread = logger
  Dtor = dtor
  Callers = {c1, c2}
  MaxMsgs = 1
INVARIANT
  IdsMatchItem
\* A launch ends.
CHECK_DEADLOCK FALSE
