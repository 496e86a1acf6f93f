SPECIFICATION FairSpec
CONSTANTS
  Completes = {c1}
  Attaches = {a1}
  Retains = {t1}
  Discards = {d1}
  Sweeps = {s1}
  Assets = {x1}
  UrlLife = 1
  SessionLife = 2
  ApprovalLife = 2
  MaxTime = 3
  MaxFaults = 2
  None = None
PROPERTY SessionsClose
CHECK_DEADLOCK FALSE
