SPECIFICATION Spec
CONSTANTS
  Ids = {x, y}
  Slots <- MCSlots
  Deleters <- MCDeleters
  MaxAsks = 3
  MaxFaults = 1
  Callers = {}
  Used = x
  Scenes = {"writes"}
PROPERTY RecordNeverForgets
CHECK_DEADLOCK FALSE
