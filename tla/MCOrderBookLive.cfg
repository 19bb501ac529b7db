CONSTANTS
  Word = 4
  Epoch = 3
  MaxOrders = 2
  MaxMade = 2
  MaxSubmits = 2
  OrderIds = {3}
  Prices = {0, 1, 2}
  Volumes = {1, 2}
  Clients = {jpm, NoClient}
  NoClient = NoClient
  Addrs = {a1, a2, a3, a4}
  NoAddr = NoAddr
  Freed = Freed
  NoOrder = NoOrder
  NoSnapshot = NoSnapshot
SPECIFICATION FairSpec
INVARIANTS
  IInv
  VolumeInv
PROPERTIES EveryCallReturns ImplementsHandleBook
CHECK_DEADLOCK FALSE
