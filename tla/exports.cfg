\* Three runs of any kinds over one answer and one draft.
SPECIFICATION Spec
CONSTANTS
  Answers = {a1}
  Drafts = {d1}
  Runs = {x1, x2, x3}
SYMMETRY RunSymmetry
CHECK_DEADLOCK FALSE
INVARIANTS
  PathsHaveFiles
  ManifestTrue
  ExportOnRecord
  UncitedNeverExported
