\* Two batches, each with any feed of the two decisions, so that they can
\* wait for each other; a decision is published anew once.
CONSTANTS
  Batches = {b1, b2}
  Items = {i1, i2}
  MaxVersion = 2
SPECIFICATION Spec
INVARIANTS
  BatchTypeOK
  AcceptedLogTrue
PROPERTIES
  CommitsWhatIsOnDisk
  BatchesEnd
CHECK_DEADLOCK FALSE
