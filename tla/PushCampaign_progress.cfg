SPECIFICATION FairSpec
CONSTANTS
  Runs = {r1, r2}
  Members = {m1}
  Subscriptions = {s1, s2}
  Owner <- OneOwner
  Toggled = {}
  Lanes = 1
  CampaignLease = 1
  DeliveryLease = 1
  MaxTime = 0
  None = None
INVARIANT ClosedMeansDelivered
PROPERTY RunsEnd
CHECK_DEADLOCK FALSE
