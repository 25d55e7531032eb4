SPECIFICATION Spec
CONSTANTS
  Rotations = {"r1", "r2"}
  Hands = {"h1"}
  First = "first"
  Doors = {"d1"}
  NoText = "none"
  NoHold = NoHold
  Setups <- Turns
INVARIANTS TypeOK AcceptedIsKept HeldIsListed
PROPERTIES NoPlainBesideASeal HeldGoesIn
CHECK_DEADLOCK FALSE
