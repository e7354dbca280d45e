CONSTANTS
  InitialSize = 8
  Total <- Known
  LIMIT = 2
  SizeFirst = {"i", "n", "j"}
  Sids <- TwoSids
  Replies <- OnlyGood
  AnyCut = FALSE
  Tricky <- Semicolon
  MaxBad = 1
  MaxChunk = 12
  MaxTokens = 20
  MaxRequests = 4
SPECIFICATION Spec
INVARIANTS EndBehindStart
