SPECIFICATION FairSpec
CONSTANTS
  CommandLines <- MCCommandLines
  KeyStreams <- MCKeyStreams
INVARIANTS
  TypeOK
  ListToItself
  KeysBalance
  LengthIsOwn
  NeverCorrupt
PROPERTIES
  Termination
