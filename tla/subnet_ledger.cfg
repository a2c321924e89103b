CONSTANTS
  Width = 4
  Allowed <- MCAllowed
  Protected <- MCProtected
  Handlers = {h1}
  Shutdown = shutdown
  MaxDummy = 2
  Nets <- ThreeNets
  Foreign <- TwoForeign
  ForeignNet <- MCForeignNet
  LabelShown = TRUE
  Faults = {"command", "disconnect", "crash"}
  NoNet = NoNet
  NoIface = NoIface
  NoTask = NoTask
  CidrText = CidrText
SPECIFICATION Spec
INVARIANT DetectionHarmless
PROPERTY ImplementsLedger
