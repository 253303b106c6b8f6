\* One thread that sleeps between its runs and one that only yields.
SPECIFICATION ThreadSpec
CONSTANTS
  Workers = {w1, w2}
  Delayed = {w1}
INVARIANTS
  StatusIsTruthful
  FlagsTakeEffect
PROPERTIES
  FinishReturns
\* finish() ends every thread: the system may stop.
CHECK_DEADLOCK FALSE
