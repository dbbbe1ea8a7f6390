SPECIFICATION Spec
CONSTANTS
  Requests = {r1, r2, r3}
  Bytes <- MCBytes
  Total = 6
  HoldReserve = 1
  ResumeReserve = 2
  Advisory = FALSE
  MaxBytes = 20
  NoOne = NoOne
  NoSample = NoSample
  Running = Running
SYMMETRY Symmetry
PROPERTIES
  FreshAfterInvalidate
