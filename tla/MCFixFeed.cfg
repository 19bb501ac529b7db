SPECIFICATION FairSpec
CONSTANTS
  MaxNumber = 99
  OtherNumbers <- MCOtherNumbers
  KnownTags <- MCTags
  Defs <- MCDefs
  SizeOfFieldMap = 32
  Word16 = 64
  MaxFields = 6
  MaxMessage = 54
  MaxParses = 2
  Bodies <- MCBodies
  CutBodies <- MCCutBodies
  MaxMessages = 2
INVARIANTS ParserTypeOK GroupsAreATree ParsedIsSent InStep
PROPERTIES EveryParseReturns ImplementsGroupTree
CHECK_DEADLOCK FALSE
