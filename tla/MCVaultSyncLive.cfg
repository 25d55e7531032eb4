SPECIFICATION FairSpec
CONSTANTS
  Devices <- MCDevices
  Ids = {x, y}
  x = x
  y = y
  Root = Root
  Kinds = {}
  Plains = {}
  Seals = {}
  NoValue = NoValue
  NoNode = NoNode
  NoTomb = NoTomb
  TombTTL = 1
  Lanes = {bg}
  Setups <- Untied
PROPERTY Convergence
CHECK_DEADLOCK FALSE
