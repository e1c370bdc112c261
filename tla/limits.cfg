SPECIFICATION LimitsSpec
CONSTANTS
  c1 = c1
  c2 = c2
  c3 = c3
  home = home
  other = other
  Sockets = {c1, c2, c3}
  Addresses = {home}
  Home <- MCHome
  Second = 1
  Hour = 2
  Settings <- MCSettings
  MaxTime = 7
  MaxChanges = 2
  MaxActs = 3
INVARIANTS KeptAreLatest WithinLimits
PROPERTY DroppedExactly
CHECK_DEADLOCK FALSE
SYMMETRY Alike
