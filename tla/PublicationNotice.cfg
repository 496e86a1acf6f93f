SPECIFICATION FairSpec
CONSTANTS
  Crons = {c1, c2}
  Editors = {e1}
  Lease = 1
  ClaimDelay = 1
  MaxEdits = 3
  MaxFaults = 2
  None = None
INVARIANTS TypeOK RepeatsAreExcused RecordIsCurrent
PROPERTY AnnouncedInTheEnd
