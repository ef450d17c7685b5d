SPECIFICATION Spec
CONSTANTS
  y1 = y1
  d1 = d1
  a1 = a1
  a2 = a2
  a3 = a3
  c1 = c1
  c2 = c2
  Years <- OneYear
  Draws <- OneDraw
  YearOf <- OneDrawsYear
  Applications <- Filed
  DrawOf <- FiledIn
  Pairs <- OnePair
  Clients <- TwoClients
  MaxSpots = 2
  MaxRevision = 4
CHECK_DEADLOCK FALSE
SYMMETRY Symmetry
INVARIANT PoolLocksDraw
