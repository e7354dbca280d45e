SPECIFICATION Spec
CONSTANTS
  L1 = L1 L2 = L2 C1 = C1 C2 = C2 S1 = S1
  I1 = I1 I2 = I2 G1 = G1 G2 = G2 F1 = F1 F2 = F2
  Listings = {L1, L2}
  Composites = {C1, C2}
  Classes = {S1}
  Issuers = {I1, I2}
  Gics = {G1, G2}
  SubIndustries = {G1, G2}
  Cfi = {F1, F2}
  OpenFigi = OpenFigi
  None = None
  Statements = {p0, p1}
  Elsewhere = {p0}
  VendorOf <- MCVendorOf
  Listed <- MCListed
  Given <- MCGiven
  Coded <- MCCoded
  MaxFiles = 2
  MaxRecords = 3
  MaxIssuers = 2
  MaxCodes = 2
CHECK_DEADLOCK FALSE
INVARIANTS LevelsOK CfiSettled ConflictsFound IssuersKept GicsSettled LastWord
