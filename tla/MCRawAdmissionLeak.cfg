SPECIFICATION Spec
CONSTANTS
  Requests = {r1, r2, r3}
  Impatient = {r1, r2, r3}
  QueueFactor = 1
  Limits = {1}
PROPERTIES
  RefusedOnlyWhenFull
