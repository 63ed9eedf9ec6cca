\* Two backups, one drill and one guard that lists snapshots, at any times; one
\* local dump and one snapshot are kept, so that both rotations bite.
CONSTANTS
  Runs = {x1, x2}
  Answers = {a1}
  DumpKeep = 1
  KeepLast = 1
  Drills = {d1}
  Listings = {g1}
SPECIFICATION DrillSpec
SYMMETRY RunSymmetry
INVARIANTS
  SnapshotsSelfContained
  FreshMeansRestorable
  SomeoneFinishes
  RestoringSnapshotKept
  DrilledSnapshotKept
  RestoredExportsHaveFiles
CHECK_DEADLOCK FALSE
