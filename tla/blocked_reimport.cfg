\* One BAG decision, imported, blocked and imported again.
CONSTANTS
  Sources = {"bag"}
  ImporterOf <- BagImporterOf
  ClassOf <- BagClassOf
  Locators = {"loc"}
  MaxGen = 2
  MaxImported = 1
  MaxAdminOps = 1
SPECIFICATION CatalogSpec
INVARIANT BlockedStaysUnusable
CHECK_DEADLOCK FALSE
