------------------------------ MODULE Symbology ------------------------------
(***************************************************************************)
(* A store of symbols over time: files of listings are added by            *)
(* ttlify-boff.awk, issuers and classifications by others, and the rows of *)
(* the transclo queries are applied, one at a time and in any order, as    *)
(* the comments in sql/ say: CFIs are handed down, issuers are moved to    *)
(* the share class, GICS codes are moved to the issuer.                    *)
(***************************************************************************)
EXTENDS Queries, TtlifyBoff

CONSTANTS MaxFiles, MaxRecords, MaxIssuers, MaxCodes,
          Given, Coded    \* <<FIGI, issuer>> and <<subject, code>> others may tell of

ASSUME GivenAssumption == Given \subseteq Figis \X Issuers /\ Coded \subseteq Subjects \X Codes
ASSUME MaxAssumption == MaxFiles \in Nat /\ MaxRecords \in Nat
                        /\ MaxIssuers \in Nat /\ MaxCodes \in Nat

VARIABLES
  told,     \* the issuers that were told of, moved or not
  files, records, issuers, codes,  \* counters
  last,     \* what the records said last of each FIGI
  seen      \* FIGIs in this file
countVars == <<files, records, issuers, codes>>
vars == <<storeVars, boffVars, told, countVars, last, seen>>

Init == /\ StoreInit /\ BoffInit
        /\ told = {} /\ files = 0 /\ records = 0 /\ issuers = 0 /\ codes = 0
        /\ last = [f \in Figis |-> "never"] /\ seen = {}

\* Files come in the order of their dates.
NextFile == /\ files < MaxFiles
            /\ files' = files + 1
            /\ TimeStarted(files + 1)
            /\ seen' = {}
            /\ UNCHANGED <<told, records, issuers, codes, last>>

\* A file says one thing of a FIGI.
Record(r) ==
  /\ files > 0 /\ records < MaxRecords /\ r.figi \notin seen
  /\ \/ Came(r) /\ last' = [last EXCEPT ![r.figi] = "came"]
     \/ Gone(r) /\ last' = [last EXCEPT ![r.figi] = "gone"]
  /\ records' = records + 1
  /\ seen' = seen \cup {r.figi}
  /\ UNCHANGED <<told, files, issuers, codes>>

-----------------------------------------------------------------------------
\* What other sources and their records add.
Other == UNCHANGED <<boffVars, type, componentOf, symbolOf, files, records, last, seen>>
TellIssuer(f, i) ==
  /\ issuers < MaxIssuers /\ <<f, i>> \notin told
  /\ issuedBy' = issuedBy \cup {<<f, i>>} /\ told' = told \cup {<<f, i>>}
  /\ issuers' = issuers + 1
  /\ Other /\ UNCHANGED <<classifiedAs, prov, invalidated, codes>>
TellCode(x, c, ps) ==
  /\ codes < MaxCodes /\ <<x, c>> \notin classifiedAs
  /\ classifiedAs' = classifiedAs \cup {<<x, c>>}
  /\ prov' = prov \cup {<<p, x, c>> : p \in ps}
  /\ codes' = codes + 1
  /\ Other /\ UNCHANGED <<issuedBy, told, invalidated, issuers>>
Invalidate(p) ==
  /\ codes < MaxCodes /\ p \notin invalidated
  /\ invalidated' = invalidated \cup {p}
  /\ codes' = codes + 1
  /\ Other /\ UNCHANGED <<issuedBy, told, classifiedAs, prov, issuers>>

-----------------------------------------------------------------------------
\* The rows of the transclo queries are applied.
Apply == UNCHANGED <<boffVars, type, componentOf, symbolOf, invalidated, told, countVars, last, seen>>

HandDownCfi == \E r \in transclo_cfi :
  /\ r \notin classifiedAs
  /\ classifiedAs' = classifiedAs \cup {r}
  /\ Apply /\ UNCHANGED <<issuedBy, prov>>

\* Variant of Moved: it is taken away only.
MovedAway(fact) == issuedBy \ {fact}
\* An issuer goes to every share class the rows name.
Moved(fact) == (issuedBy \ {fact}) \cup {<<r[2], fact[2]>> : r \in {q \in transclo_issr : q[1] = fact}}
MoveIssuer == \E r \in transclo_issr :
  /\ issuedBy' = Moved(r[1])
  /\ Apply /\ UNCHANGED <<classifiedAs, prov>>

\* The records that still hold go along with the code.
MoveGics == \E r \in transclo_gics :
  LET kept == Records(r[1]) \ invalidated
      to   == <<r[2], r[1][2]>>
  IN  /\ classifiedAs' = (classifiedAs \ {r[1]}) \cup {to}
      /\ prov' = (prov \ {<<p, r[1][1], r[1][2]>> : p \in kept}) \cup {<<p, to[1], to[2]>> : p \in kept}
      /\ Apply /\ UNCHANGED issuedBy

Next == \/ NextFile
        \/ \E r \in Listed : Record(r)
        \/ \E g \in Given : TellIssuer(g[1], g[2])
        \/ \E c \in Coded : TellCode(c[1], c[2], {})
        \/ \E c \in Coded, p \in Statements \ Elsewhere : TellCode(c[1], c[2], {p})
        \/ \E p \in Statements \ Elsewhere : Invalidate(p)
        \/ HandDownCfi \/ MoveIssuer \/ MoveGics
Spec == Init /\ [][Next]_vars

-----------------------------------------------------------------------------
TypeOK == /\ StoreOK
          /\ date \in Nat /\ since \subseteq Figis \X Nat /\ till \subseteq Figis \X Nat
          /\ told \subseteq Figis \X Issuers
          /\ files \in Nat /\ records \in Nat /\ issuers \in Nat /\ codes \in Nat
          /\ last \in [Figis -> {"never", "came", "gone"}] /\ seen \subseteq Figis

(* The links the script prints go up by one level each, whatever fields of *)
(* a record are missing and however often a FIGI is listed: componentOf+   *)
(* has at most two steps, and ends at the share class.                     *)
LevelsOK ==
  /\ componentOf \subseteq (Listings \X Composites) \cup (Composites \X Classes)
  /\ \A s \in Figis : IsShareClass(s) => s \in Classes

(* When transclo-cfi has no row left to hand down, inconsistent-cfi has    *)
(* none either, whatever the provenance of the CFIs.                       *)
CfiSettled ==
  transclo_cfi \subseteq classifiedAs => inconsistent_cfi = {}

(* No conflict gets lost on the way: two issuers of one symbology that     *)
(* were told of for related FIGIs are found by one of the issuer queries   *)
(* at any time, those told of first perhaps moved and others not, unless   *)
(* inconsistent-composite has something to say.                            *)
Related(f, g) == SelfAbove(f) \cap SelfAbove(g) # {}
ConflictsFound ==
  inconsistent_composite = {} =>
    \A s, t \in told :
      (s[2] # t[2] /\ SameVendor(s[2], t[2]) /\ Related(s[1], t[1]))
      => inconsistent_issr_01 # {} \/ inconsistent_issr_02 # {} \/ inconsistent_issr_03 # {}

(* An issuer is where it was told of, or at a share class above.           *)
IssuersKept ==
  \A s \in told :
    s \in issuedBy \/ \E c \in Above(s[1]) : IsShareClass(c) /\ <<c, s[2]>> \in issuedBy

(* Once the GICS codes have been moved, an issue that inconsistent-gics_02 *)
(* or inconsistent-gics_04 still reports has no issuer of its own          *)
(* symbology, or the code is not its own.                                  *)
GicsSettled ==
  transclo_gics = {} =>
    /\ \A r \in inconsistent_gics_02 :
         \/ r[2][1] \notin Issued(r[1][1]) \/ r[1] \notin classifiedAs
         \/ VendorOf[r[2][1]] \notin VendorsOf(r[1][1])
    /\ \A r \in inconsistent_gics_04 :
         \A i \in Issued(r[1][1]) \cap Issued(r[2][1]) :
           VendorOf[i] \notin VendorsOf(r[1][1]) \cup VendorsOf(r[2][1])

(* From the dates printed one can tell what was said last of a FIGI.       *)
LastWord ==
  \A f \in Figis :
    /\ last[f] = "came" <=> \E s \in since : s[1] = f /\ \A t \in till : t[1] = f => t[2] < s[2]
    /\ last[f] = "gone" <=> \E t \in till : t[1] = f /\ \A s \in since : s[1] = f => s[2] < t[2]
=============================================================================
