SPECIFICATION Spec
CONSTANTS
  Runs = {r1, r2, r3}
  Members = {m1}
  Subscriptions = {s1}
  Owner <- OneOwner
  Toggled = {s1}
  Lanes = 1
  CampaignLease = 2
  DeliveryLease = 1
  MaxTime = 3
  None = None
SYMMETRY PushSymmetry
INVARIANTS TypeOK AcceptedOnce SentIsTrue ResendIsSafe
PROPERTIES KeepsPromise LeaseIsExclusive
CHECK_DEADLOCK FALSE
