CONSTANTS
  Width = 4
  Allowed <- MCAllowed
  Protected <- MCProtected
  Handlers = {h1, h2}
  Nets <- MCNets
  ForeignNets <- MCForeignNets
  Faults = {"command", "disconnect", "crash"}
  NoNet = NoNet
SYMMETRY Symmetry
SPECIFICATION Spec
INVARIANTS
  TypeOK
  StoreTellsLo0
  IInv
PROPERTIES
  SweepClears
  AcceptsAllowedOnly
  AcceptsFreeOnly
