\* Two cold loads, of which one fits at a time.
SPECIFICATION Spec
CONSTANTS
  Requests = {r1, r2}
  Bytes <- MCBytes
  Total = 4
  HoldReserve = 1
  ResumeReserve = 2
  Advisory = FALSE
  MaxBytes = 20
  NoOne = NoOne
  NoSample = NoSample
  Running = Running
SYMMETRY Symmetry
INVARIANTS
  ReservedAccounted
  NoLostWakeup
