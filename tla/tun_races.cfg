CONSTANTS
  Handlers = {h1, h2, h3}
  Width = 6
  Octet = 2
  Allowed <- MCAllowed
  Protected = {}
  OtherNets <- MCOtherNets
  OldRuns = {old}
  Blocks <- TwoBlocks
  Names <- TwoNames
  Faults = {"device", "disconnect", "crash"}
  NoName = NoName
  NoBlock = NoBlock
  NoDevice = NoDevice
SYMMETRY Symmetry
SPECIFICATION Spec
INVARIANTS
  TypeOK
  EveryDeviceHeldOnce
PROPERTY ChoosesFree
