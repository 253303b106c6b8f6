\* Two workers, two commands: a worker can be busy, waiting or between two
\* calls of run() while commands are added and while the handler is destroyed.
SPECIFICATION Spec
CONSTANTS
  Workers = {w1, w2}
  Delayed = {}
  Cmds = {c1, c2}
  NoCmd = NoCmd
INVARIANTS
  EachPickedOnce
  DestroyedIsQuiet
PROPERTIES
  AddedIsCompleted
  DtorReturns
\* A destroyed handler does nothing more.
CHECK_DEADLOCK FALSE
