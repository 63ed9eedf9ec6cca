\* A BAG decision, an EVG page and the members' download: every class at once.
\* Two rewrites of a source, so that cited chunks are replaced; one approval.
CONSTANTS
  Sources <- HintSources
  ImporterOf <- HintImporterOf
  ClassOf <- HintClassOf
  Locators = {"l1"}
  MaxGen = 2
  MaxImported = 3
  MaxAdminOps = 1
  Requests = {r1}
  MaxPicks = 2
SPECIFICATION KBSpec
INVARIANTS
  AnswersComplete
  CitedWhileApproved
  ClassFitsGenerator
  StatementExportedOnce
CHECK_DEADLOCK FALSE
