SPECIFICATION Spec
CONSTANTS
  d1 = d1
  d2 = d2
  p1 = p1
  u1 = u1
  u2 = u2
  g1 = g1
  g2 = g2
  c1 = c1
  c2 = c2
  r1 = r1
  a1 = a1
  a2 = a2
  Callers = {c1}
  Requests = {r1}
  Accounts = {a1, a2}
  Caches = {d1, d2}
  Paths = {p1}
  Ups = {u1, u2}
  Games = {g1, g2}
  Bad = Bad
  None = None
  Absent = Absent
  Documents <- MCDocuments
  DefaultDir = d1
  DefaultUp = u1
  DefaultGame = g1
  MaxApplies = 2
  MaxMishaps = 2
INVARIANTS Settled AccountsFollow AnsweredIsSaved PanelFollows
