SPECIFICATION Spec
CONSTANTS
  c1 = c1
  c2 = c2
  c3 = c3
  c4 = c4
  c5 = c5
  Clients <- MCClients
  nireq = 3
SYMMETRY Symm
INVARIANTS TypeOK NoStreamShared NoStreamLost
PROPERTY PoolSpec
