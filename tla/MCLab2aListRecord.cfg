SPECIFICATION Spec
CONSTANTS
  CommandLines <- MCRacingLines
  KeyStreams <- MCKeyStreams
INVARIANTS
  RecordOnlyIfEmpty
