----------------------------- MODULE MCSymbology -----------------------------
(***************************************************************************)
(* Instance of Symbology: a share class, two composites, two listings, one *)
(* of which is listed again under another composite and one of which goes, *)
(* a composite with a field left empty, and two issuers, CFIs and          *)
(* sub-industries.                                                         *)
(***************************************************************************)
EXTENDS Symbology, TLC

CONSTANTS L1, L2, C1, C2, S1, I1, I2, G1, G2, F1, F2

Rec(f, c, s)  == [gone |-> FALSE, figi |-> f, comp |-> c, shcl |-> s]
Left(f)       == [gone |-> TRUE, figi |-> f, comp |-> None, shcl |-> None]
MCListed == {Rec(L1, C1, S1), Rec(L2, C2, S1), Rec(L2, C1, S1), Left(L1),
             Rec(C1, C1, S1), Rec(C2, C2, None), Rec(S1, C1, S1)}
MCVendorOf == [i \in {I1, I2} |-> OpenFigi]
MCGiven == {<<L1, I1>>, <<L2, I2>>, <<S1, I2>>}
MCCoded == {<<L1, F1>>, <<C1, F2>>, <<L1, G1>>, <<L2, G2>>, <<I1, G2>>}
=============================================================================
