\* The user need not type: a session may stand still for ever.
SPECIFICATION FairSpec
CHECK_DEADLOCK FALSE
CONSTANTS
  Scripts <- MCScripts
  OutputPieces <- MCOutputPieces
  MaxOutput <- MCMaxOutput
  Compress <- MCCompress
INVARIANTS
  TypeOK
  OutputInOrder
  InputInOrder
  NothingLostAtEnd
  ShutdownOrder
PROPERTIES
  ClosingEndsAll
