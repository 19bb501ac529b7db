SPECIFICATION Spec
CONSTANTS
  Builders = {main, scratch}
  NewFields <- MCFields
  max_message_size = 24
  MaxNumber = 99
  OtherNumbers <- MCOtherNumbers
  KnownTags <- MCTags
  Defs <- MCDefs
  SizeOfFieldMap = 72
  Word16 = 64
  MaxFields = 8
  MaxMessage = 48
  MaxParses = 2
  MaxMessages = 2
  MaxCalls = 7
INVARIANT ChecksumEndsMessage
CHECK_DEADLOCK FALSE
