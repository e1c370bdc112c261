SPECIFICATION RoomsSpec
CONSTANTS
  Conns = {c1, c2}
  m1 = m1
  m2 = m2
  Members = {m1, m2}
  Sessions = {s1, s2}
  Rooms = {r1, r2}
  Names = {"den", "DEN", "HALL"}
  Upper <- MCUpper
  Offers <- MCOffers
  Prefs <- MCPrefs
  MaxEdits = 2
  Login = Login
  NoConn = NoConn
  NoMember = NoMember
  NoSession = NoSession
  NoRoom = NoRoom
  NoData = NoData
SYMMETRY MCSymmetry
INVARIANTS MembershipAgrees HeardInside ViewsAgree NoGhosts SearchTellsTruth LooksHandedOn
CHECK_DEADLOCK FALSE
