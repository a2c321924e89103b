CONSTANTS
  A = A
  B = B
  F = F
  Connections = {c1, c2}
  Files = {F}
  StateIds = {s1, s2}
  FileHandles = {fh1}
  Operations <- DataOperations
  Requests <- DataRequests
  Shared = FALSE
  Offsets <- TwoOffsets
  Huge = Huge
  Data = {A, B}
  Slots <- TwoSlots
  Faults = {"open", "clone", "read", "write", "sync", "reply"}
  NoState = NoState
  NoHandle = NoHandle
  NoWrite = NoWrite
  Blank = Blank
  Nothing = Nothing
SPECIFICATION FairSpec
INVARIANT
  FilesInv
PROPERTIES
  ImplementsFiles
  RequestServed
