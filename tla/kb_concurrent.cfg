\* Two requests at a time and importers that delete what they are about to cite.
CONSTANTS
  Sources <- OfficialSources
  ImporterOf <- OfficialImporterOf
  ClassOf <- OfficialClassOf
  Locators = {"l1"}
  MaxGen = 2
  MaxImported = 2
  MaxAdminOps = 0
  Requests = {r1, r2}
  MaxPicks = 2
SPECIFICATION KBFairSpec
INVARIANTS
  LinkedChunksExist
PROPERTIES
  StoreImplemented
  RequestsEnd
CHECK_DEADLOCK FALSE
