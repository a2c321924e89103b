CONSTANTS
  Width = 4
  Allowed <- MCAllowed
  Protected <- MCProtected
  Handlers = {h1}
  Shutdown = shutdown
  MaxDummy = 2
  Nets <- TwoNets
  Foreign = {}
  ForeignNet <- MCForeignNet
  LabelShown = TRUE
  Faults = {"crash"}
  NoNet = NoNet
  NoIface = NoIface
  NoTask = NoTask
  CidrText = CidrText
SPECIFICATION Spec
PROPERTY StartRegisters
