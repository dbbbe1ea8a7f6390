\* Clients may go away while they wait: each one leaves a stale count behind.
SPECIFICATION Spec
CONSTANTS
  Requests = {r1, r2, r3, r4}
  Impatient = {r1, r2, r3, r4}
  QueueFactor = 2
  Limits = {0, 2}
SYMMETRY Symmetry
INVARIANTS
  SlotsAccounted
  WaitersCounted
  NoLostWakeup
