SPECIFICATION Spec
CONSTANTS
  Members = {m1, m2}
  Emails = {e1, e2}
  Purposes = {email_verify, email_recovery}
  Sends = {s1}
  Links = {l1, l2}
  Forms = {f1}
  None = None
SYMMETRY AccessSymmetry
INVARIANTS TypeOK VerifiedByMail MovesOwnTheirAddress
PROPERTY VoidedLinksAreDead
CHECK_DEADLOCK FALSE
