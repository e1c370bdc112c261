SPECIFICATION RelationsSpec
CONSTANTS
  m1 = m1
  m2 = m2
  m3 = m3
  Members = {m1, m2, m3}
  Nobody = Nobody
  MaxLovers = 1
  Black <- MCBlack
  Extreme = {m3}
  Begin <- MCBegin
  MaxActs = 3
  MaxMoves = 2
  MaxBoth = 4
  MaxTime = 2
  NoData = NoData
  Live = Live
INVARIANTS Settled LoversAgree WithinLimit
PROPERTY OwnersChange
SYMMETRY Symm
CHECK_DEADLOCK FALSE
