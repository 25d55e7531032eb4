SPECIFICATION FairSpec
CONSTANTS
  Ids = {x, y}
  Slots <- MCSlots
  Deleters <- MCDeleters
  MaxAsks = 2
  MaxFaults = 3
  Callers = {c1, c2}
  Used = x
  Scenes = {"writes", "uses"}
INVARIANTS TypeOK NoHollowEntry UsedOnce
PROPERTY RemovalFinishes
CHECK_DEADLOCK FALSE
