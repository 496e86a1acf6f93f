SPECIFICATION Spec
CONSTANTS
  Completes = {c1, c2}
  Attaches = {a1, a2}
  Retains = {}
  Discards = {d1}
  Sweeps = {s1}
  Assets = {x1, x2}
  UrlLife = 1
  SessionLife = 2
  ApprovalLife = 2
  MaxTime = 2
  MaxFaults = 1
  None = None
SYMMETRY CallSymmetry
INVARIANTS TypeOK OneAsset AttachedIsStored
PROPERTIES ReadyIsNotUndone KeepsUploadPromise
CHECK_DEADLOCK FALSE
