\* Four handles compete for three slots, so acquire_slot has to wait; the mask
\* is two 2-bit words with one padding bit, so both words are searched.
SPECIFICATION FairSpec
CONSTANTS
  Handles = {h1, h2, h3, h4}
  ResourceCount = 3
  WordBits = 2
  BitWidth = 4
INVARIANTS
  Exclusive
  UsedCountExact
PROPERTIES
  AcquireLockFree
  ImplementsSlotPool
