CONSTANTS
  NUM_SHARDS = 2
  Producers = {c1, c2}
  NoTask = NoTask
  Symbols = {0, 2}
  Handles = {h1, h2}
  NoSymbol = NoSymbol
  Readers = {c1}
  MaxCalls = 3
SPECIFICATION Spec
INVARIANT NoDataRace
CHECK_DEADLOCK FALSE
