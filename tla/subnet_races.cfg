CONSTANTS
  Width = 4
  Allowed <- MCAllowed
  Protected <- MCProtected
  Handlers = {h1, h2}
  Shutdown = shutdown
  MaxDummy = 2
  Nets <- TwoNets
  Foreign <- OneForeign
  ForeignNet <- MCForeignNet
  LabelShown = FALSE
  Faults = {"command", "disconnect", "crash"}
  NoNet = NoNet
  NoIface = NoIface
  NoTask = NoTask
  CidrText = CidrText
SYMMETRY Symmetry
SPECIFICATION Spec
INVARIANTS
  TypeOK
  StoreBacked
  OneCreatorPerInterface
  IInv
PROPERTIES
  DeletesOwnLinkOnly
