SPECIFICATION Spec
CONSTANTS
  NumBlocks = 2
  ChunkSize = 1
  Values = {v1, v2}
  Files = {f1, f2}
  NoName = NoName
  MaxSeq = 2
  MaxChain = 1
  MaxErrors = 1
  PartialTail = TRUE
INVARIANT UpdatedWithoutErrors
