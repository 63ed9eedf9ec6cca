\* Two exports of one answer, both run to their end.
CONSTANTS
  Answers = {a1}
  Drafts = {}
  Runs = {x1, x2}
SPECIFICATION CalmSpec
INVARIANT ManifestMatchesWhenQuiet
CHECK_DEADLOCK FALSE
