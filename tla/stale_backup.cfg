\* One night without power is enough for a stale backup to stop the next one.
CONSTANTS
  DrillDays = 2
  BackupMaxHours = 30
  DrillMaxHours = 50
  MaxDisturbances = 0
  MaxOutages = 1
SPECIFICATION Spec
INVARIANT StaleBackupBlocksNone
CHECK_DEADLOCK FALSE
