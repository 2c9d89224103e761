\* Both programs end; then nothing more may happen.
SPECIFICATION Spec
CHECK_DEADLOCK FALSE
CONSTANTS
  Disks <- MCDisks
  Pointers <- MCPointers
INVARIANTS
  TypeOK
  EveryPointerListed
  AuditAgrees
PROPERTIES
  Ends
