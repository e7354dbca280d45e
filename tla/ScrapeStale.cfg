CONSTANTS
  InitialSize = 8
  Total <- Known
  LIMIT = 2
  SizeFirst = {"i", "n", "j"}
  Sids <- TwoSids
  Replies <- Unwell
  AnyCut = TRUE
  Tricky <- None
  MaxBad = 1
  MaxChunk = 12
  MaxTokens = 20
  MaxRequests = 4
SPECIFICATION Spec
INVARIANTS RightSid
