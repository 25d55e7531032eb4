SPECIFICATION Spec
CONSTANTS
  People = {"ann", "bob"}
  Procs = {"main", "next"}
  Bodies = {"b0", "b1", "b2"}
  Shares = {"s1", "s2"}
  From <- MCFrom
  To <- MCTo
  Absent = Absent
  Free = Free
  MaxRefusals = 1
  MaxInboxItems = 1
  Scenes <- AnswerScenes
  MaxCrashes = 1
CHECK_DEADLOCK FALSE
INVARIANT OneDeparture
