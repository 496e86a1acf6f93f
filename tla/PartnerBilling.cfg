SPECIFICATION Spec
CONSTANTS
  Partners = {p1, p2}
  Requests = {r1, r2}
  Companies = {c1, c2}
  Backends = {b1, b2}
  Tiers = {basic, partner, boost}
  Basic = basic
  MaxEdits = 1
  None = None
SYMMETRY Symmetry
INVARIANTS TypeOK PricedOnPlan InvoicesFollowRequests DecisionsDoNotDeadlock
PROPERTIES MoneyIsKept
