SPECIFICATION Spec
CONSTANTS
  Devices <- MCDevices
  Plains <- MCPlains
  Seals <- MCSeals
  X = x
  Ids = {x}
  Root = Root
  NoValue = NoValue
  NoNode = NoNode
  NoTomb = NoTomb
  TombTTL = 9
  Kinds = {pw, note}
  LegacyKinds = {pw}
  Setups <- All
INVARIANTS TypeOK NoMixedEntry OnlyRemovalUnprotects Settles MarkAndEpochTogether
PROPERTY LegacyDropsNothing
CHECK_DEADLOCK FALSE
