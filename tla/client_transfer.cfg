SPECIFICATION FairSpec
CONSTANTS
  Zero = Zero
  None = None
  MaxVersion = 1
  Length <- Lengths
  Sizes = {2, 4}
  Chunks = 3
INVARIANTS
  NothingSkipped
  UploadConcluded
  AssembledInPlace
  OneVersion
PROPERTIES
  TransferEnds
\* A transfer that is done does nothing more.
CHECK_DEADLOCK FALSE
