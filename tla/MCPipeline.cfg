\* Room for one runner and two slots: memory, slots and the lock all have waiters.
SPECIFICATION FairSpec
CONSTANTS
  warm = warm
  brief = brief
  cold = cold
  raw = raw
  m1 = m1
  m2 = m2
  NoOne = NoOne
  Tasks = {warm, brief, cold}
  Raws = {raw}
  Runners = {m1, m2}
  ModelOf <- MCModelOf
  Unloaders = {brief}
  Slots = 2
  Room = 1
  Arrivals = 3
CHECK_DEADLOCK FALSE
INVARIANTS
  ColdAlone
  NoCircularWait
PROPERTIES
  OnlyMemoryBlocks
  UsesSlots
