\* A wide and a narrow interactive request and a normal one, without end.
\* Reloads, resource waits, cancellation and timeouts are all enabled.
SPECIFICATION FairSpec
CONSTANTS
  wide = wide
  narrow = narrow
  other = other
  NoTicket = NoTicket
  Requests <- MCRequests
  Cost <- MCCost
  Priority <- MCWideFirst
  Weights <- MCWeights
  MaxBypasses = 1
  Ceilings = {1,2}
  Limits = {1, 2}
  QueueLimits = {2}
INVARIANTS
  UnitsAccounted
  NoLostWakeup
  BypassBound
PROPERTIES
  ImplementsSlotPool
  InteractiveProgress
