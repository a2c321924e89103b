CONSTANTS
  Handlers = {h1}
  Width = 6
  Octet = 2
  Allowed <- MCAllowed
  Protected = {}
  OtherNets <- MCOtherNets
  OldRuns = {}
  Blocks <- TwoBlocks
  Names <- TwoNames
  Faults = {}
  NoName = NoName
  NoBlock = NoBlock
  NoDevice = NoDevice
SPECIFICATION Spec
INVARIANT ListedDeviceExists
