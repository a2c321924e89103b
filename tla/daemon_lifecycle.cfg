SPECIFICATION FairSpec
CONSTANTS
  p1 = p1
  p2 = p2
  p3 = p3
  f1 = f1
  NoFile = NoFile
  Processes <- MCProcesses
  Foreground <- MCForeground
INVARIANTS TypeOK IInv LockedFileNamesHolder PidFileNamesLoneServer
PROPERTIES StartServes
CHECK_DEADLOCK FALSE
