\* The process ends; then nothing more may happen.
SPECIFICATION Spec
CHECK_DEADLOCK FALSE
CONSTANTS
  Scripts <- MCScripts
  Periods <- MCPeriods
  Names <- MCNames
  MaxTime <- MCMaxTime
  MaxLog <- MCMaxLog
INVARIANTS
  TypeOK
  LogTellsReports
  CommandsAsSent
  ShutdownLogged
PROPERTIES
  EndsWhenTold
