CONSTANTS
  MAX_GN = 8
  Quads <- AllQuads
SPECIFICATION Spec
INVARIANTS ScanAgrees NameAgrees NameIsPlain GraphFound
