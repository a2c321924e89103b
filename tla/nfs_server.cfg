CONSTANTS
  A = A
  F = F
  Connections = {c1, c2}
  Files = {F}
  StateIds = {s1, s2}
  FileHandles = {fh1}
  Operations <- MixedOperations
  Requests <- MixedRequests
  Shared = TRUE
  Offsets <- OneOffset
  Huge = Huge
  Data = {A}
  Slots <- OneSlot
  Faults = {"open", "clone", "read", "write", "sync", "reply"}
  NoState = NoState
  NoHandle = NoHandle
  NoWrite = NoWrite
  Blank = Blank
  Nothing = Nothing
SYMMETRY Symmetry
SPECIFICATION Spec
INVARIANTS
  TypeOK
  StopsAtFirstError
  BusyStateidStaysOpen
  NoSelfDeadlock
  IInv
PROPERTY
  GoesOnlyByClose
