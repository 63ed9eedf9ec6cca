\* Any two edits: of the wiring of a guard or of a new one, or of any file.
CONSTANTS
  Editable <- WatchedFiles
  Subjects <- MCSubjects
  NewGuards <- MCNewGuards
  MaxEdits = 2
SPECIFICATION Spec
INVARIANTS
  LossNeedsAccomplice
  CalledByAllOrNone
  HealthCheckForetellsBackup
CHECK_DEADLOCK FALSE
