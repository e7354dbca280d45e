-------------------------------- MODULE Store --------------------------------
(***************************************************************************)
(* The triples about FIGIs that the scripts print and the queries of sql/  *)
(* look at, one variable for each predicate, and their provenance.         *)
(***************************************************************************)
CONSTANTS
  Listings, Composites, Classes,  \* FIGIs, by the level they stand for
  Issuers,
  Gics, SubIndustries,            \* classifications; sub-industries have a definition
  Cfi,
  VendorOf,                       \* the symbology of every issuer
  OpenFigi,                       \* <http://openfigi.com/>
  Statements, Elsewhere           \* provenance records, and those about other facts

Figis    == Listings \cup Composites \cup Classes
Subjects == Figis \cup Issuers
Codes    == Gics \cup Cfi
Vendors  == {VendorOf[i] : i \in Issuers} \cup {OpenFigi}
Levels   == {"GlobalIdentifier", "CompositeGlobalIdentifier", "ShareClassGlobalIdentifier"}

ASSUME FigiAssumption ==
  /\ Listings \cap Composites = {} /\ Composites \cap Classes = {} /\ Classes \cap Listings = {}
  /\ Figis \cap Issuers = {}
ASSUME StatementAssumption == Elsewhere \subseteq Statements
ASSUME CodeAssumption == SubIndustries \subseteq Gics /\ Gics \cap Cfi = {}

VARIABLES
  type,          \* <<FIGI, level>>
  componentOf,   \* <<FIGI, FIGI>>
  symbolOf,      \* <<FIGI, symbology>>; that of issuers is VendorOf
  issuedBy,      \* <<FIGI, issuer>>
  classifiedAs,  \* <<FIGI or issuer, code>>
  prov,          \* <<statement, subject, object>>
  invalidated    \* statements that were invalidated by another
storeVars == <<type, componentOf, symbolOf, issuedBy, classifiedAs, prov, invalidated>>

StoreOK ==
  /\ type \subseteq Figis \X Levels
  /\ componentOf \subseteq Figis \X Figis
  /\ symbolOf \subseteq Figis \X {OpenFigi}
  /\ issuedBy \subseteq Figis \X Issuers
  /\ classifiedAs \subseteq Subjects \X Codes
  /\ prov \subseteq Statements \X Subjects \X Codes
  /\ invalidated \subseteq Statements

StoreInit ==
  /\ type = {} /\ componentOf = {} /\ symbolOf = {} /\ issuedBy = {}
  /\ classifiedAs = {} /\ prov = {} /\ invalidated \in SUBSET Elsewhere
==============================================================================
