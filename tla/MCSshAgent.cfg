SPECIFICATION FairSpec
CONSTANTS
  k1 = k1
  Requests <- MCRequests
  Keys = {k1}
  KeyOf <- MCKeyOf
  MaxWaiting = 1
  MaxRetained = 2
  Bound = 1
  Floor = 1
  None = None
  NoWindow = NoWindow
  AllLen = 1
  LoginLen = 2
  Claims = {"login", "not-login"}
  AutoLockAtStart = TRUE
  MaxTime = 2
  MaxEvents = 2
INVARIANTS TypeOK SlotAccounts OnePromptPerKey
PROPERTIES SilentOnlyInsideAGrant SignedAsAsked EveryRequestIsAnswered
CHECK_DEADLOCK FALSE
