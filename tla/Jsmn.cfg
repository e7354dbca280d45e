CONSTANTS
  Texts <- AllTexts
  NumTokens = 9
  Depth = 4
  Symbols = 4
SPECIFICATION FairSpec
INVARIANTS SizesCount FindsTokens
PROPERTIES MatchesBrackets Returns
