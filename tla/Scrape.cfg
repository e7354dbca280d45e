CONSTANTS
  InitialSize = 3
  Total <- Known
  LIMIT = 2
  SizeFirst = {"i"}
  Sids <- InJin
  Replies <- AnyReply
  AnyCut = TRUE
  Tricky <- None
  MaxBad = 1
  MaxChunk = 12
  MaxTokens = 20
  MaxRequests = 4
SPECIFICATION FairSpec
INVARIANTS InOrderOnce Complete Assembled
PROPERTIES PrintsAnswer Terminates
