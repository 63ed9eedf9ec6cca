\* Every list of up to five hits of seven chunks; the class cap of two is below
\* what two sources could fill, the answer has room for three.
CONSTANTS
  Chunks <- MCChunks
  SourceUids <- MCSourceUids
  SourceUidOf <- MCSourceUidOf
  DocumentShas <- MCDocumentShas
  DocumentShaOf <- MCDocumentShaOf
  SourceClassOf <- MCSourceClassOf
  LimitedClasses = {"BLAU"}
  ClassLimit <- MCClassLimit
  PerSourceLimit = 2
  MaxTotal = 3
  MaxHits = 5
SPECIFICATION Spec
INVARIANTS
  NoSourceDominates
  OneSourcePerDocument
  OmissionsJustified
CHECK_DEADLOCK FALSE
