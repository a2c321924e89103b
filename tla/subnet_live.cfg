CONSTANTS
  Width = 4
  Allowed <- MCAllowed
  Protected <- MCProtected
  Handlers = {h1, h2}
  Shutdown = shutdown
  MaxDummy = 2
  Nets <- TwoNets
  Foreign = {}
  ForeignNet <- MCForeignNet
  LabelShown = FALSE
  Faults = {}
  NoNet = NoNet
  NoIface = NoIface
  NoTask = NoTask
  CidrText = CidrText
SPECIFICATION FairSpec
PROPERTIES
  LeakOnlyByCollision
  RequestAnswered
  ShutdownCompletes
