\* A source of every importer, any two of which are imported, each up to twice,
\* one locator; two approval requests may interleave with the imports.
CONSTANTS
  Sources <- MCSources
  ImporterOf <- MCImporterOf
  ClassOf <- MCClassOf
  Locators = {"loc"}
  MaxGen = 2
  MaxImported = 2
  MaxAdminOps = 2
SPECIFICATION CatalogSpec
INVARIANTS
  ApprovalConsistent
  ApprovedSinceImport
  OneChunkPerLocator
  ChunkClassMatches
  OfficialHasChunks
CHECK_DEADLOCK FALSE
