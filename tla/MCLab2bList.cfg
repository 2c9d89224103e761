SPECIFICATION FairSpec
CONSTANTS
  CommandLines <- MCCommandLines
  KeyStreams <- MCKeyStreams
INVARIANTS
  TypeOK
  SublistExclusion
  KeysBalance
  LengthCountsOwn
  NeverCorrupt
PROPERTIES
  Termination
