\* The program ends.
SPECIFICATION Spec0
CHECK_DEADLOCK FALSE
CONSTANTS
  FileNames <- MCNames
  Bytes <- MCBytes
  Contents <- MCContents
  Errnos <- MCErrnos
INVARIANTS
  Lab0TypeOK
  EndingTells
