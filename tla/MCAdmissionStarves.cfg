\* A full pool, a normal request and two interactive ones that keep coming back.
SPECIFICATION FairSpec
CONSTANTS
  wide = wide
  narrow = narrow
  other = other
  NoTicket = NoTicket
  Requests <- MCRequests
  Cost <- MCUnitCost
  Priority <- MCOneNormal
  Weights <- MCSourceWeights
  MaxBypasses = 6
  Ceilings = {1}
  Limits = {1}
  QueueLimits = {3}
PROPERTIES
  NoStarvation
