\* The user need not type: a session may stand still for ever.
SPECIFICATION Spec
CHECK_DEADLOCK FALSE
CONSTANTS
  Scripts <- MCScripts
  OutputPieces <- MCOutputPieces
  MaxOutput <- MCMaxOutput
INVARIANTS
  TypeOK
  OutputInOrder
  InputInOrder
  LeftBehind
PROPERTIES
  EndOfInputEnds
