SPECIFICATION Spec
CONSTANTS
  Devices <- MCDevices
  Ids = {x, y}
  x = x
  y = y
  Root = Root
  Kinds = {}
  Plains = {}
  Seals = {}
  NoValue = NoValue
  NoNode = NoNode
  NoTomb = NoTomb
  TombTTL = 1
  Lanes = {bg}
  Setups <- Unfailing
INVARIANT NeverVanishes
CHECK_DEADLOCK FALSE
