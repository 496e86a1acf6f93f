SPECIFICATION Spec
CONSTANTS
  Applies = {s1}
  Directs = {}
  Admins = {p1}
  Crons = {}
  SessionLife = 1
  ApprovalLife = 2
  MaxTime = 2
  MaxFaults = 0
  None = None
PROPERTY ApprovalMakesMember
CHECK_DEADLOCK FALSE
