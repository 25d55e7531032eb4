SPECIFICATION Spec
CONSTANTS
  Devices <- MCDevices
  Ids = {x, y}
  x = x
  y = y
  Root = Root
  Kinds = {}
  Plains = {}
  Seals = {}
  NoValue = NoValue
  NoNode = NoNode
  NoTomb = NoTomb
  TombTTL = 0
  Lanes = {bg}
  Setups <- Situations
INVARIANTS TypeOK NeverVanishesBetweenCycles
PROPERTIES VaultNeverForgets NoBlindOverwrite DeletedStaysDeleted TombstoneStands
CHECK_DEADLOCK FALSE
