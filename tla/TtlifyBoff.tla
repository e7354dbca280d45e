------------------------------ MODULE TtlifyBoff ------------------------------
(***************************************************************************)
(* ttlify-boff.awk --diff, as ttlify-boff.sh calls it: what it prints for  *)
(* a stream of files.  A file is announced by a line FILE=, says when it   *)
(* was made in a line TIMESTARTED=, and lists FIGIs that came or went.     *)
(*                                                                         *)
(* The fields comp ($13) and shcl ($20) count in the Equity sector and if  *)
(* they hold a FIGI only; otherwise they are None here.  Tickers, names,   *)
(* exchanges and types are left out.                                       *)
(***************************************************************************)
EXTENDS Store, Naturals

CONSTANTS None,
          Listed     \* the records of the files: [gone, figi, comp, shcl]

ASSUME RecordAssumption ==
  \A r \in Listed :
    /\ r.figi \in Listings   => r.comp \in Composites \cup {None} /\ r.shcl \in Classes \cup {None}
    /\ r.figi \in Composites => r.comp \in {r.figi, None} /\ r.shcl \in Classes \cup {None}
    /\ r.figi \in Classes    => r.comp \in Composites \cup {None} /\ r.shcl = r.figi
    /\ r.figi \in Figis /\ r.gone \in BOOLEAN
ASSUME NoneAssumption == None \notin Figis

VARIABLES
  date,    \* of the last TIMESTARTED line; 0 before the first one
  since,   \* <<FIGI, date>>, gas:listedSince
  till     \* <<FIGI, date>>, gas:listedTill
boffVars == <<date, since, till>>

Named(r) == {r.comp, r.shcl} \ {None, r.figi}

LevelOf(r) ==
  IF r.figi = r.shcl THEN "ShareClassGlobalIdentifier"
  ELSE IF r.figi = r.comp THEN "CompositeGlobalIdentifier"
  ELSE "GlobalIdentifier"

\* Variant of Link: share classes are not told apart.
LinkAll(r) == IF r.figi = r.comp THEN {r.shcl} ELSE {r.comp}
\* The field that says what a FIGI is a component of.
Link(r) ==
  IF r.figi = r.shcl THEN {} ELSE IF r.figi = r.comp THEN {r.shcl} ELSE {r.comp}
Up(r) == Link(r) \ {None}

\* Variant of Symbols: what is named in passing is not declared.
SymbolsOwn(r) == {r.figi}
Symbols(r) == {r.figi} \cup Named(r)

Types(r) == {<<r.figi, LevelOf(r)>>}
            \cup {<<s, "ShareClassGlobalIdentifier">> : s \in {r.shcl} \cap Named(r)}
            \cup {<<c, "CompositeGlobalIdentifier">>  : c \in {r.comp} \cap Named(r)}

-----------------------------------------------------------------------------
BoffInit == date = 0 /\ since = {} /\ till = {}

\* Variant of DateOf: the first date stays.
DateOnce(d) == IF date = 0 THEN d ELSE date
DateOf(d) == d
TimeStarted(d) == /\ date' = DateOf(d)
                  /\ UNCHANGED <<since, till, storeVars>>

\* A FIGI has gone ($2 < 0): nothing but that is said.
Gone(r) == /\ r.gone
           /\ till' = till \cup {<<r.figi, date>>}
           /\ UNCHANGED <<date, since, storeVars>>

Came(r) == /\ ~r.gone
           /\ type' = type \cup Types(r)
           /\ componentOf' = componentOf \cup ({r.figi} \X Up(r))
           /\ symbolOf' = symbolOf \cup (Symbols(r) \X {OpenFigi})
           /\ since' = since \cup {<<r.figi, date>>}
           /\ UNCHANGED <<date, till, issuedBy, classifiedAs, prov, invalidated>>
==============================================================================
