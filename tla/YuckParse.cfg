CONSTANTS
  Arguments <- MCArguments
  MaxArgs = 4
  Parsers <- MCParsers
SPECIFICATION FairSpec
INVARIANTS UsedOnce OptionsSeen CommandFirst
PROPERTIES Returns
