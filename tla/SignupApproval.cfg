SPECIFICATION FairSpec
CONSTANTS
  Applies = {s1, s2}
  Directs = {d1, d2}
  Admins = {p1}
  Crons = {k1}
  SessionLife = 1
  ApprovalLife = 2
  MaxTime = 2
  MaxFaults = 1
  None = None
INVARIANTS TypeOK OneMember CompleteOrRolledBack MemberKeepsImage
PROPERTIES RequestKeepsImage RequestsAreDecided
CHECK_DEADLOCK FALSE
