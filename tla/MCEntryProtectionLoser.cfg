SPECIFICATION Spec
CONSTANTS
  Devices <- MCDevices
  Plains <- MCPlains
  Seals <- MCSeals
  X = x
  Ids = {x}
  Root = Root
  NoValue = NoValue
  NoNode = NoNode
  NoTomb = NoTomb
  TombTTL = 9
  Kinds = {pw, note}
  LegacyKinds = {pw}
  Setups <- Whole
PROPERTY LoserIsKept
CHECK_DEADLOCK FALSE
