SPECIFICATION Spec
CONSTANTS
  chat = chat
  note = note
  embed = embed
  index = index
  s1 = s1
  s2 = s2
  n1 = n1
  NoOne = NoOne
  Tasks = {chat, note}
  Scopes = {s1, s2}
  Sessions = {n1}
  MaxSessions = 1
  MaxCount = 2
  MaxMessages = 4
  TotalMax = 5
  MaxJobs = 1
  Deferred <- MCDeferred
  Recalled <- MCRecalled
  ScopeOf <- MCScopeOf
  SessionOf <- MCSessionOf
CHECK_DEADLOCK FALSE
INVARIANTS LeaseHeld
PROPERTIES KilledNeverAppends KeepsPromise
