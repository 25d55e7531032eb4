SPECIFICATION FairSpec
CONSTANTS
  People = {"ann", "bob"}
  Procs = {"main", "next"}
  Bodies = {"b0", "b1", "b2"}
  Shares = {"s1", "s2"}
  From <- MCFrom
  To <- MCTo
  Absent = Absent
  Free = Free
  MaxRefusals = 1
  MaxInboxItems = 1
  Scenes <- AllScenes
  MaxCrashes = 1
INVARIANTS TypeOK NoGateLeft OneKeyHandedOut PendingCanBeWithdrawn
PROPERTIES VaultIsARegister NoKeyTakenFromAVault SyncKeepsAnEdit ReceiptsSettle
CHECK_DEADLOCK FALSE
