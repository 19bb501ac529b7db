CONSTANTS
  Word = 4
  Epoch = 0
  MaxOrders = 3
  MaxMade = 1
  MaxSubmits = 1
  OrderIds = {1}
  Prices = {1, 2}
  Volumes = {0, 1, 2}
  Clients = {jpm}
  NoClient = NoClient
  Addrs = {a1, a2, a3}
  NoAddr = NoAddr
  Freed = Freed
  NoOrder = NoOrder
  NoSnapshot = NoSnapshot
SPECIFICATION Spec
SYMMETRY AddrSymmetry
INVARIANT RejectedIsExclusive
CHECK_DEADLOCK FALSE
