SPECIFICATION FairSpec
CONSTANTS
  s1 = s1  a = a  b = b  r1 = r1  l1 = l1  l2 = l2  p1 = p1  p2 = p2
  Sales = {s1}
  Emails = {a, b}
  normalizeEmail <- LowerCase
  StartsAt <- OpensAt1
  EndsAt <- ClosesAt2
  TotalStock <- OneUnit
  Horizon = 2
  Replicas = {r1}
  Lookups = {l1, l2}
  Shown = s1
  Users = {a, b}
  NoUser = NoUser
  Posts = {p1, p2}
  MaxClicks = 2
INVARIANTS TypeOK ListingsPartition OneSubmission NeverLockedOut ShownOutcomeIsOwn OrdersShownAreOwn
PROPERTIES PanelRecovers
CHECK_DEADLOCK FALSE
