CONSTANTS
  InitialSize = 1
  Total <- Known
  LIMIT = 2
  SizeFirst = {"i"}
  Sids <- TwoSids
  Replies <- OnlyGood
  AnyCut = FALSE
  Tricky <- None
  MaxBad = 1
  MaxChunk = 4
  MaxTokens = 20
  MaxRequests = 4
SPECIFICATION Spec
INVARIANTS Fits
