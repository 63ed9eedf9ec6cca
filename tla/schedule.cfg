\* A drill every other day; its limit is two hours over that, as 170 hours are over 7 days.
CONSTANTS
  DrillDays = 2
  BackupMaxHours = 30
  DrillMaxHours = 50
  MaxDisturbances = 2
  MaxOutages = 1
SPECIFICATION FairSpec
INVARIANTS
  GreenUntilDisturbed
PROPERTIES
  FailuresSeen
  LatchedUntilReset
  DrillRecovers
CHECK_DEADLOCK FALSE
