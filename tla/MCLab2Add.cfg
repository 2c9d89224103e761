SPECIFICATION FairSpec
CONSTANT CommandLines <- MCCommandLines
INVARIANTS
  TypeOK
  MutualExclusion
  NoLostUpdate
  DriftBounded
PROPERTIES
  RefinesSharedCounter
  Termination
