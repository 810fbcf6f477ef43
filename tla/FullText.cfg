\* Counterexample: three operations in one transaction.
CONSTANTS
  FtsIds = {1, 2}
  FtsFields = {f}
  Words = {x}
  NoText = NoText
  NoFile = NoFile
  FtsBuilders = {b1}
  FtsBatchSize = 1
  FtsMaxOps = 3
SPECIFICATION FullTextSpec
INVARIANT SearchFindsAll
