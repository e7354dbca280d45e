--------------------------- MODULE SymbologyProofs ---------------------------
(***************************************************************************)
(* Proofs about Symbology: for all listings, facts, provenance and bounds. *)
(***************************************************************************)
EXTENDS Symbology, TLAPS

(* What the script prints with a link: the level of its lower end, the     *)
(* symbology of both ends, and that its upper end is a share class.        *)
LinksTold ==
  \A l \in componentOf :
    /\ {l[1], l[2]} \X {OpenFigi} \subseteq symbolOf
    /\ l[1] \in Listings   => <<l[1], "GlobalIdentifier">> \in type
    /\ l[1] \in Composites => <<l[1], "CompositeGlobalIdentifier">> \in type
    /\ l[2] \in Classes    => IsShareClass(l[2])

(* Dates grow, and what this file has not mentioned is dated before it.    *)
DatesGrow ==
  /\ date = files
  /\ \A s \in since \cup till : s[2] <= date /\ (s[1] \notin seen => s[2] < date)

IInv == TypeOK /\ LevelsOK /\ LinksTold /\ IssuersKept /\ DatesGrow /\ LastWord

-----------------------------------------------------------------------------
(* What a record makes known is well typed, and levelled.                  *)
LEMMA RecordTold ==
  ASSUME NEW r \in Listed
  PROVE  /\ r.figi \in Figis /\ Named(r) \subseteq Figis /\ Up(r) \subseteq Symbols(r)
         /\ Symbols(r) \subseteq Figis
         /\ Types(r) \subseteq Figis \X Levels
         /\ {r.figi} \X Up(r) \subseteq (Listings \X Composites) \cup (Composites \X Classes)
         /\ \A s \in Figis : <<s, "ShareClassGlobalIdentifier">> \in Types(r) => s \in Classes
         /\ Up(r) # {} => /\ r.figi \in Listings   => <<r.figi, "GlobalIdentifier">> \in Types(r)
                          /\ r.figi \in Composites => <<r.figi, "CompositeGlobalIdentifier">> \in Types(r)
         /\ \A s \in Up(r) \cap Classes : <<s, "ShareClassGlobalIdentifier">> \in Types(r)
<1> USE RecordAssumption, NoneAssumption, FigiAssumption DEF Figis
<1>1. CASE r.figi \in Listings
  <2>1. r.figi # r.shcl /\ r.figi # r.comp
    BY <1>1
  <2>2. LevelOf(r) = "GlobalIdentifier" /\ Up(r) = {r.comp} \ {None}
    BY <2>1 DEF LevelOf, Up, Link
  <2> QED
    BY <1>1, <2>1, <2>2 DEF Named, Symbols, Types, Levels
<1>2. CASE r.figi \in Composites /\ r.comp = r.figi
  <2>1. r.figi # r.shcl
    BY <1>2
  <2>2. LevelOf(r) = "CompositeGlobalIdentifier" /\ Up(r) = {r.shcl} \ {None}
    BY <1>2, <2>1 DEF LevelOf, Up, Link
  <2> QED
    BY <1>2, <2>1, <2>2 DEF Named, Symbols, Types, Levels
<1>3. CASE r.figi \in Composites /\ r.comp = None
  <2>1. r.figi # r.shcl /\ r.figi # r.comp
    BY <1>3
  <2>2. LevelOf(r) = "GlobalIdentifier" /\ Up(r) = {}
    BY <1>3, <2>1 DEF LevelOf, Up, Link
  <2> QED
    BY <1>3, <2>1, <2>2 DEF Named, Symbols, Types, Levels
<1>4. CASE r.figi \in Classes
  <2>1. LevelOf(r) = "ShareClassGlobalIdentifier" /\ Up(r) = {}
    BY <1>4 DEF LevelOf, Up, Link
  <2> QED
    BY <1>4, <2>1 DEF Named, Symbols, Types, Levels
<1> QED
  BY <1>1, <1>2, <1>3, <1>4

-----------------------------------------------------------------------------
LEMMA InitOK == Init => IInv
<1> SUFFICES ASSUME Init PROVE IInv
  OBVIOUS
<1> USE DEF Init, StoreInit, BoffInit
<1>1. TypeOK
  BY StatementAssumption DEF TypeOK, StoreOK
<1>2. LevelsOK /\ LinksTold /\ IssuersKept
  BY DEF LevelsOK, LinksTold, IssuersKept, IsShareClass
<1>3. DatesGrow /\ LastWord
  BY DEF DatesGrow, LastWord
<1> QED
  BY <1>1, <1>2, <1>3 DEF IInv

(* Steps that leave the files alone keep what is said of links and dates.  *)
LEMMA FilesAlone ==
  ASSUME IInv, UNCHANGED <<boffVars, type, componentOf, symbolOf, files, last, seen>>
  PROVE  LevelsOK' /\ LinksTold' /\ DatesGrow' /\ LastWord'
BY DEF IInv, LevelsOK, LinksTold, DatesGrow, LastWord, boffVars, IsShareClass

(* Above is made of links alone.                                           *)
LEMMA AboveGrows ==
  ASSUME componentOf \subseteq componentOf', type \subseteq type',
         IssuersKept, issuedBy \subseteq issuedBy', UNCHANGED told
  PROVE  IssuersKept'
<1>1. \A f : Parents(f) \subseteq Parents(f)'
  BY DEF Parents
<1>2. \A f : Above(f) \subseteq Above(f)'
  BY <1>1 DEF Above
<1>3. \A c : IsShareClass(c) => IsShareClass(c)'
  BY DEF IsShareClass
<1> QED
  BY <1>2, <1>3 DEF IssuersKept

LEMMA NextFileKeeps == IInv /\ NextFile => IInv'
<1> SUFFICES ASSUME IInv, NextFile PROVE IInv'
  OBVIOUS
<1> USE DEF NextFile, TimeStarted, DateOf, storeVars, countVars
<1>1. TypeOK'
  BY DEF IInv, TypeOK, StoreOK
<1>2. LevelsOK' /\ LinksTold'
  BY DEF IInv, LevelsOK, LinksTold, IsShareClass
<1>3. IssuersKept'
  BY AboveGrows DEF IInv
<1>4. DatesGrow' /\ LastWord'
  <2>1. \A s \in since \cup till : s[2] \in Nat
    BY DEF IInv, TypeOK
  <2> QED
    BY <2>1 DEF IInv, TypeOK, DatesGrow, LastWord
<1> QED
  BY <1>1, <1>2, <1>3, <1>4 DEF IInv

LEMMA CameKeeps ==
  ASSUME NEW r \in Listed, IInv, r.figi \notin seen, Came(r),
         last' = [last EXCEPT ![r.figi] = "came"], seen' = seen \cup {r.figi},
         records' = records + 1, UNCHANGED <<told, files, issuers, codes>>
  PROVE  IInv'
<1> USE RecordTold DEF Came
<1>1. TypeOK'
  <2>1. componentOf' \subseteq Figis \X Figis
    BY DEF IInv, TypeOK, StoreOK
  <2>2. symbolOf' \subseteq Figis \X {OpenFigi} /\ type' \subseteq Figis \X Levels
    BY DEF IInv, TypeOK, StoreOK
  <2> HIDE DEF Came
  <2>3. since' = since \cup {<<r.figi, date>>} /\ r.figi \in Figis
    BY DEF Came
  <2>4. since' \subseteq Figis \X Nat /\ seen' \subseteq Figis
    BY <2>3 DEF IInv, TypeOK
  <2>5. last' \in [Figis -> {"never", "came", "gone"}]
    BY <2>3 DEF IInv, TypeOK
  <2> QED
    BY <2>1, <2>2, <2>4, <2>5 DEF IInv, TypeOK, StoreOK, Came
<1>2. LevelsOK'
  BY DEF IInv, LevelsOK, IsShareClass
<1>3. LinksTold'
  <2> SUFFICES ASSUME NEW l \in componentOf'
               PROVE  /\ {l[1], l[2]} \X {OpenFigi} \subseteq symbolOf'
                      /\ l[1] \in Listings   => <<l[1], "GlobalIdentifier">> \in type'
                      /\ l[1] \in Composites => <<l[1], "CompositeGlobalIdentifier">> \in type'
                      /\ l[2] \in Classes    => <<l[2], "ShareClassGlobalIdentifier">> \in type'
    BY DEF LinksTold, IsShareClass
  <2>1. CASE l \in componentOf
    BY <2>1 DEF IInv, LinksTold, IsShareClass
  <2>2. CASE l \in {r.figi} \X Up(r)
    <3>1. l[1] = r.figi /\ l[2] \in Up(r)
      BY <2>2
    <3>2. {l[1], l[2]} \subseteq Symbols(r)
      BY <3>1 DEF Symbols
    <3> QED
      BY <3>1, <3>2
  <2> QED
    BY <2>1, <2>2
<1>4. IssuersKept'
  BY AboveGrows DEF IInv
<1>5. DatesGrow' /\ LastWord'
  <2>1. \A s \in since \cup till : s[2] \in Nat
    BY DEF IInv, TypeOK
  <2>2. since' = since \cup {<<r.figi, date>>} /\ date \in Nat
    BY DEF IInv, TypeOK
  <2>3. last \in [Figis -> {"never", "came", "gone"}]
    BY DEF IInv, TypeOK
  <2>4. \A t \in till : t[1] = r.figi => t[2] < date
    BY DEF IInv, DatesGrow
  <2>5. DatesGrow'
    BY <2>1, <2>2 DEF IInv, DatesGrow
  <2>6. ASSUME NEW f \in Figis, f # r.figi
        PROVE  /\ last'[f] = last[f]
               /\ \A s \in since' : s[1] = f <=> s \in since /\ s[1] = f
    BY <2>2, <2>3, <2>6
  <2>7. LastWord'
    <3> SUFFICES ASSUME NEW f \in Figis
                 PROVE  /\ last'[f] = "came" <=> \E s \in since' : s[1] = f /\ \A t \in till : t[1] = f => t[2] < s[2]
                        /\ last'[f] = "gone" <=> \E t \in till : t[1] = f /\ \A s \in since' : s[1] = f => s[2] < t[2]
      BY DEF LastWord
    <3>1. CASE f = r.figi
      <4>1. last'[f] = "came"
        BY <2>3, <3>1
      <4>2. <<f, date>> \in since'
        BY <2>2, <3>1
      <4>3. \A t \in till : t[1] = f => t[2] < date /\ ~(date < t[2])
        BY <2>1, <2>2, <2>4, <3>1
      <4> QED
        BY <4>1, <4>2, <4>3
    <3>2. CASE f # r.figi
      BY <2>2, <2>6, <3>2 DEF IInv, LastWord
    <3> QED
      BY <3>1, <3>2
  <2> QED
    BY <2>5, <2>7
<1> QED
  BY <1>1, <1>2, <1>3, <1>4, <1>5 DEF IInv

LEMMA GoneKeeps ==
  ASSUME NEW r \in Listed, IInv, r.figi \notin seen, Gone(r),
         last' = [last EXCEPT ![r.figi] = "gone"], seen' = seen \cup {r.figi},
         records' = records + 1, UNCHANGED <<told, files, issuers, codes>>
  PROVE  IInv'
<1>1. /\ till' = till \cup {<<r.figi, date>>} /\ r.figi \in Figis /\ date \in Nat
      /\ UNCHANGED <<date, since, type, componentOf, symbolOf, issuedBy, classifiedAs, prov, invalidated>>
      /\ last \in [Figis -> {"never", "came", "gone"}]
  BY RecordTold DEF Gone, storeVars, IInv, TypeOK
<1>2. TypeOK'
  <2>1. till' \subseteq Figis \X Nat /\ seen' \subseteq Figis
    BY <1>1 DEF IInv, TypeOK
  <2>2. last' \in [Figis -> {"never", "came", "gone"}]
    BY <1>1
  <2> QED
    BY <1>1, <2>1, <2>2 DEF IInv, TypeOK, StoreOK
<1>3. LevelsOK' /\ LinksTold'
  BY <1>1 DEF IInv, LevelsOK, LinksTold, IsShareClass
<1>4. IssuersKept'
  BY <1>1, AboveGrows DEF IInv
<1>5. \A s \in since \cup till : s[2] \in Nat
  BY DEF IInv, TypeOK
<1>6. DatesGrow'
  BY <1>1, <1>5 DEF IInv, DatesGrow
<1>7. LastWord'
  <2> SUFFICES ASSUME NEW f \in Figis
               PROVE  /\ last'[f] = "came" <=> \E s \in since : s[1] = f /\ \A t \in till' : t[1] = f => t[2] < s[2]
                      /\ last'[f] = "gone" <=> \E t \in till' : t[1] = f /\ \A s \in since : s[1] = f => s[2] < t[2]
    BY <1>1 DEF LastWord
  <2>1. CASE f = r.figi
    <3>1. last'[f] = "gone" /\ <<f, date>> \in till'
      BY <1>1, <2>1
    <3>2. \A s \in since : s[1] = f => s[2] < date /\ ~(date < s[2])
      BY <1>1, <1>5, <2>1 DEF IInv, DatesGrow
    <3> QED
      BY <3>1, <3>2
  <2>2. CASE f # r.figi
    <3>1. last'[f] = last[f] /\ \A t \in till' : t[1] = f <=> t \in till /\ t[1] = f
      BY <1>1, <2>2
    <3> QED
      BY <1>1, <3>1, <2>2 DEF IInv, LastWord
  <2> QED
    BY <2>1, <2>2
<1> QED
  BY <1>2, <1>3, <1>4, <1>6, <1>7 DEF IInv

LEMMA RecordKeeps ==
  ASSUME NEW r \in Listed, IInv, Record(r)
  PROVE  IInv'
<1>1. CASE Came(r) /\ last' = [last EXCEPT ![r.figi] = "came"]
  BY <1>1, CameKeeps DEF Record
<1>2. CASE Gone(r) /\ last' = [last EXCEPT ![r.figi] = "gone"]
  BY <1>2, GoneKeeps DEF Record
<1> QED
  BY <1>1, <1>2 DEF Record

LEMMA TellIssuerKeeps ==
  ASSUME NEW g \in Given, IInv, TellIssuer(g[1], g[2])
  PROVE  IInv'
<1> USE DEF TellIssuer, Other
<1>1. <<g[1], g[2]>> = g /\ g \in Figis \X Issuers
  BY GivenAssumption
<1>2. TypeOK'
  BY <1>1 DEF IInv, TypeOK, StoreOK, boffVars
<1>3. LevelsOK' /\ LinksTold' /\ DatesGrow' /\ LastWord'
  BY FilesAlone
<1>4. IssuersKept'
  <2>1. \A f : Above(f) = Above(f)'
    BY DEF Above, Parents
  <2> QED
    BY <2>1, <1>1 DEF IInv, IssuersKept, IsShareClass
<1> QED
  BY <1>2, <1>3, <1>4 DEF IInv

(* Steps that write neither links nor issuers.                             *)
LEMMA IssuersAlone ==
  ASSUME IInv, TypeOK', UNCHANGED <<boffVars, type, componentOf, symbolOf, files, last, seen, issuedBy, told>>
  PROVE  IInv'
<1>1. LevelsOK' /\ LinksTold' /\ DatesGrow' /\ LastWord'
  BY FilesAlone
<1>2. IssuersKept'
  BY AboveGrows DEF IInv
<1> QED
  BY <1>1, <1>2 DEF IInv

LEMMA TellCodeKeeps ==
  ASSUME NEW c \in Coded, NEW ps \in SUBSET Statements, IInv, TellCode(c[1], c[2], ps)
  PROVE  IInv'
<1> USE DEF TellCode, Other
<1>1. <<c[1], c[2]>> = c /\ c \in Subjects \X Codes
  BY GivenAssumption
<1>2. prov' \subseteq Statements \X Subjects \X Codes
  BY <1>1 DEF IInv, TypeOK, StoreOK
<1>3. TypeOK'
  BY <1>1, <1>2 DEF IInv, TypeOK, StoreOK, boffVars
<1> QED
  BY <1>3, IssuersAlone

LEMMA InvalidateKeeps ==
  ASSUME NEW p \in Statements, IInv, Invalidate(p)
  PROVE  IInv'
<1> USE DEF Invalidate, Other
<1>1. TypeOK'
  BY DEF IInv, TypeOK, StoreOK, boffVars
<1> QED
  BY <1>1, IssuersAlone

LEMMA HandDownCfiKeeps == IInv /\ HandDownCfi => IInv'
<1> SUFFICES ASSUME IInv, HandDownCfi PROVE IInv'
  OBVIOUS
<1>1. PICK r \in transclo_cfi :
        classifiedAs' = classifiedAs \cup {r} /\ Apply /\ UNCHANGED <<issuedBy, prov>>
  BY DEF HandDownCfi
<1>2. r \in Subjects \X Codes
  BY DEF transclo_cfi, Subjects, Codes
<1>3. TypeOK'
  BY <1>1, <1>2 DEF Apply, IInv, TypeOK, StoreOK, boffVars, countVars
<1> QED
  BY <1>1, <1>3, IssuersAlone DEF Apply, countVars

LEMMA MoveGicsKeeps == IInv /\ MoveGics => IInv'
<1> SUFFICES ASSUME IInv, MoveGics PROVE IInv'
  OBVIOUS
<1>1. PICK r \in transclo_gics :
        LET kept == Records(r[1]) \ invalidated
            to   == <<r[2], r[1][2]>>
        IN  /\ classifiedAs' = (classifiedAs \ {r[1]}) \cup {to}
            /\ prov' = (prov \ {<<p, r[1][1], r[1][2]>> : p \in kept}) \cup {<<p, to[1], to[2]>> : p \in kept}
            /\ Apply /\ UNCHANGED issuedBy
  BY DEF MoveGics
<1>2. r[2] \in Subjects /\ r[1][2] \in Codes
  BY CodeAssumption DEF transclo_gics, Subjects, Codes
<1>3. classifiedAs' \subseteq Subjects \X Codes
  BY <1>1, <1>2 DEF IInv, TypeOK, StoreOK
<1>4. prov' \subseteq Statements \X Subjects \X Codes
  <2> DEFINE kept == Records(r[1]) \ invalidated
  <2>1. kept \subseteq Statements
    BY DEF Records
  <2>2. \A p \in kept : <<p, r[2], r[1][2]>> \in Statements \X Subjects \X Codes
    BY <1>2, <2>1
  <2>3. prov' = (prov \ {<<p, r[1][1], r[1][2]>> : p \in kept}) \cup {<<p, r[2], r[1][2]>> : p \in kept}
    BY <1>1
  <2> HIDE DEF kept
  <2> QED
    BY <2>2, <2>3 DEF IInv, TypeOK, StoreOK
<1>5. TypeOK'
  BY <1>1, <1>3, <1>4 DEF Apply, IInv, TypeOK, StoreOK, boffVars, countVars
<1> QED
  BY <1>1, <1>5, IssuersAlone DEF Apply, countVars

(* An issuer that is moved has a share class above to go to; one that is   *)
(* at a share class already is not moved, since there is nothing above.    *)
LEMMA MoveIssuerKeeps == IInv /\ MoveIssuer => IInv'
<1> SUFFICES ASSUME IInv, MoveIssuer PROVE IInv'
  OBVIOUS
<1>1. PICK r \in transclo_issr :
        issuedBy' = Moved(r[1]) /\ Apply /\ UNCHANGED <<classifiedAs, prov>>
  BY DEF MoveIssuer
<1>2. /\ r[1] \in issuedBy /\ r[2] \in Figis /\ r[2] \in Above(r[1][1]) /\ IsShareClass(r[2])
      /\ r = <<r[1], r[2]>>
  BY DEF transclo_issr
<1>3. TypeOK'
  <2>1. r[1][2] \in Issuers
    BY <1>2 DEF IInv, TypeOK, StoreOK
  <2>2. issuedBy' \subseteq Figis \X Issuers
    BY <1>1, <1>2, <2>1 DEF Moved, transclo_issr, IInv, TypeOK, StoreOK
  <2> QED
    BY <1>1, <2>2 DEF Apply, IInv, TypeOK, StoreOK, boffVars, countVars
<1>4. LevelsOK' /\ LinksTold' /\ DatesGrow' /\ LastWord'
  BY <1>1, FilesAlone DEF Apply, countVars
<1>5. IssuersKept'
  <2>1. /\ \A f : Above(f) = Above(f)'
        /\ \A c : IsShareClass(c) = IsShareClass(c)'
        /\ told' = told
    BY <1>1 DEF Apply, Above, Parents, IsShareClass
  <2>2. <<r[2], r[1][2]>> \in issuedBy'
    BY <1>1, <1>2 DEF Moved
  <2> SUFFICES ASSUME NEW s \in told
               PROVE  s \in issuedBy' \/ \E c \in Above(s[1]) : IsShareClass(c) /\ <<c, s[2]>> \in issuedBy'
    BY <2>1 DEF IssuersKept
  <2>3. CASE s = r[1]
    BY <1>2, <2>2, <2>3
  <2>4. CASE s \in issuedBy /\ s # r[1]
    BY <1>1, <2>4 DEF Moved
  <2>5. CASE s \notin issuedBy
    <3>1. PICK c \in Above(s[1]) : IsShareClass(c) /\ <<c, s[2]>> \in issuedBy
      BY <2>5 DEF IInv, IssuersKept
    <3>2. c \in Classes
      BY <3>1 DEF IInv, LevelsOK, Above, Parents
    <3>3. Above(c) = {}
      BY <3>2, FigiAssumption DEF IInv, LevelsOK, Above, Parents
    <3>4. <<c, s[2]>> # r[1]
      BY <1>2, <3>3
    <3> QED
      BY <1>1, <3>1, <3>4 DEF Moved
  <2> QED
    BY <2>3, <2>4, <2>5
<1> QED
  BY <1>3, <1>4, <1>5 DEF IInv

-----------------------------------------------------------------------------
(* Every step keeps the invariant.                                         *)
LEMMA StepKeeps == IInv /\ [Next]_vars => IInv'
<1> SUFFICES ASSUME IInv, [Next]_vars PROVE IInv'
  OBVIOUS
<1>1. CASE NextFile
  BY <1>1, NextFileKeeps
<1>2. ASSUME NEW r \in Listed, Record(r) PROVE IInv'
  BY <1>2, RecordKeeps
<1>3. ASSUME NEW g \in Given, TellIssuer(g[1], g[2]) PROVE IInv'
  BY <1>3, TellIssuerKeeps
<1>4. ASSUME NEW c \in Coded, TellCode(c[1], c[2], {}) PROVE IInv'
  BY <1>4, TellCodeKeeps
<1>5. ASSUME NEW c \in Coded, NEW p \in Statements \ Elsewhere, TellCode(c[1], c[2], {p}) PROVE IInv'
  BY <1>5, TellCodeKeeps
<1>6. ASSUME NEW p \in Statements \ Elsewhere, Invalidate(p) PROVE IInv'
  BY <1>6, InvalidateKeeps
<1>7. CASE HandDownCfi
  BY <1>7, HandDownCfiKeeps
<1>8. CASE MoveIssuer
  BY <1>8, MoveIssuerKeeps
<1>9. CASE MoveGics
  BY <1>9, MoveGicsKeeps
<1>10. CASE UNCHANGED vars
  <2> USE <1>10 DEF vars, storeVars, boffVars, countVars
  <2>1. TypeOK'
    BY DEF IInv, TypeOK, StoreOK
  <2> QED
    BY <2>1, IssuersAlone
<1> QED
  BY <1>1, <1>2, <1>3, <1>4, <1>5, <1>6, <1>7, <1>8, <1>9, <1>10 DEF Next

THEOREM Inductive == Spec => []IInv
BY InitOK, StepKeeps, PTL DEF Spec

(* The triples and counters stay well typed, however the steps interleave. *)
THEOREM WellTyped == Spec => []TypeOK
<1>1. IInv => TypeOK
  BY DEF IInv
<1> QED
  BY <1>1, Inductive, PTL

(* Links go up one level at a time: two steps are all of componentOf+.     *)
THEOREM Levelled == Spec => []LevelsOK
<1>1. IInv => LevelsOK
  BY DEF IInv
<1> QED
  BY <1>1, Inductive, PTL

(* No issuer gets lost when issuers are moved to the share class.          *)
THEOREM Kept == Spec => []IssuersKept
<1>1. IInv => IssuersKept
  BY DEF IInv
<1> QED
  BY <1>1, Inductive, PTL

(* The printed dates tell what was said last of a FIGI.                    *)
THEOREM Dated == Spec => []LastWord
<1>1. IInv => LastWord
  BY DEF IInv
<1> QED
  BY <1>1, Inductive, PTL

-----------------------------------------------------------------------------
(* What inconsistent-cfi asks of the upper fact is what transclo-cfi asks: *)
(* had it been handed down, the two sides would not be apart.              *)
THEOREM CfiSettles == Spec => []CfiSettled
<1>1. IInv => CfiSettled
  <2> SUFFICES ASSUME IInv, transclo_cfi \subseteq classifiedAs, NEW r \in inconsistent_cfi
               PROVE  FALSE
    BY DEF CfiSettled
  <2>1. /\ r[1] \in classifiedAs /\ r[2] \in classifiedAs
        /\ r[2][1] \in Parents(r[1][1]) /\ r[2][2] \in Cfi
        /\ <<r[1][1], r[2][2]>> \notin classifiedAs
        /\ Checked(r[2])
    BY DEF inconsistent_cfi, Apart
  <2>2. r[2] = <<r[2][1], r[2][2]>> /\ r[2][2] \in Codes /\ r[1][1] \in Subjects
    BY <2>1 DEF IInv, TypeOK, StoreOK
  <2>3. r[1][1] \in Figis
    BY <2>1 DEF Parents, IInv, TypeOK, StoreOK
  <2>4. r[2][2] \in Classed(r[2][1])
    BY <2>1, <2>2 DEF Classed
  <2>5. <<r[1][1], r[2][2]>> \in transclo_cfi
    BY <2>1, <2>2, <2>3, <2>4 DEF transclo_cfi
  <2> QED
    BY <2>1, <2>5
<1> QED
  BY <1>1, Inductive, PTL

(* What is left to gics_02 and gics_04 is what transclo-gics cannot move.  *)
THEOREM GicsSettles == Spec => []GicsSettled
<1>1. IInv => GicsSettled
  <2> SUFFICES ASSUME IInv, transclo_gics = {} PROVE GicsSettled
    BY DEF GicsSettled
  <2>1. ASSUME NEW a \in classifiedAs, NEW i \in Issuers, i \in Issued(a[1]),
               a[2] \in SubIndustries, Checked(a), VendorOf[i] \in VendorsOf(a[1])
        PROVE  FALSE
    <3>1. <<a, i>> \in transclo_gics
      BY <2>1 DEF transclo_gics
    <3> QED
      BY <3>1
  <2>2. ASSUME NEW r \in inconsistent_gics_02
        PROVE  \/ r[2][1] \notin Issued(r[1][1]) \/ r[1] \notin classifiedAs
               \/ VendorOf[r[2][1]] \notin VendorsOf(r[1][1])
    <3>1. r[1][2] \in SubIndustries /\ Checked(r[1])
      BY DEF inconsistent_gics_02
    <3> QED
      BY <2>1, <3>1 DEF Issued
  <2>3. ASSUME NEW r \in inconsistent_gics_04, NEW i \in Issued(r[1][1]) \cap Issued(r[2][1])
        PROVE  VendorOf[i] \notin VendorsOf(r[1][1]) \cup VendorsOf(r[2][1])
    <3>1. /\ r[1] \in classifiedAs /\ r[1][2] \in SubIndustries /\ Checked(r[1])
          /\ r[2] \in classifiedAs /\ r[2][2] \in SubIndustries /\ Checked(r[2])
      BY DEF inconsistent_gics_04
    <3>2. i \in Issuers
      BY DEF Issued
    <3> QED
      BY <2>1, <3>1, <3>2
  <2> QED
    BY <2>2, <2>3 DEF GicsSettled
<1> QED
  BY <1>1, Inductive, PTL

-----------------------------------------------------------------------------
(* One parent each, unless inconsistent-composite says otherwise.          *)
OneParent == \A f, g, h : g \in Parents(f) /\ h \in Parents(f) => g = h

LEMMA CompositeTells == IInv /\ inconsistent_composite = {} => OneParent
<1> SUFFICES ASSUME IInv, inconsistent_composite = {}, NEW f, NEW g \in Parents(f), NEW h \in Parents(f), g # h
             PROVE  FALSE
  BY DEF OneParent
<1>1. <<f, g>> \in componentOf /\ <<f, g>> \in (Listings \X Composites) \cup (Composites \X Classes)
  BY DEF Parents, IInv, LevelsOK
<1>2. f \in Figis /\ (f \in Listings \/ f \in Composites)
  BY <1>1 DEF Figis
<1>3. <<f, "GlobalIdentifier">> \in type \/ <<f, "CompositeGlobalIdentifier">> \in type
  BY <1>1, <1>2 DEF IInv, LinksTold
<1> QED
  BY <1>2, <1>3 DEF inconsistent_composite, OfTwo

(* Nothing is above a share class, and what is above it is above.          *)
LEMMA Upwards ==
  ASSUME LevelsOK, NEW f
  PROVE  /\ Above(f) \subseteq Figis
         /\ f \in Classes => Parents(f) = {}
         /\ \A g \in Parents(f) : \A h \in Parents(g) : Parents(h) = {}
         /\ \A z \in SelfAbove(f) : SelfAbove(z) \subseteq SelfAbove(f)
<1>1. Above(f) \subseteq Figis
  BY DEF Above, Parents
<1>2. \A c \in Classes : Parents(c) = {}
  BY FigiAssumption DEF LevelsOK, Parents
<1>3. \A g \in Parents(f) : \A h \in Parents(g) : h \in Classes
  BY FigiAssumption DEF LevelsOK, Parents
<1>4. \A g \in Parents(f) : \A h \in Parents(g) : Parents(h) = {}
  BY <1>2, <1>3
<1>5. ASSUME NEW z \in SelfAbove(f) PROVE SelfAbove(z) \subseteq SelfAbove(f)
  <2>1. CASE z \in Parents(f)
    <3>1. Above(z) = Parents(z)
      BY <1>4, <2>1 DEF Above
    <3> QED
      BY <2>1, <3>1 DEF SelfAbove, Above
  <2>2. CASE \E g \in Parents(f) : z \in Parents(g)
    <3>1. Above(z) = {}
      BY <1>4, <2>2 DEF Above
    <3> QED
      BY <1>5, <3>1 DEF SelfAbove
  <2> QED
    BY <1>5, <2>1, <2>2 DEF SelfAbove, Above
<1> QED
  BY <1>1, <1>2, <1>4, <1>5

(* With one parent each, what lies above a FIGI leads to its share class.  *)
LEMMA Chain ==
  ASSUME LevelsOK, OneParent, NEW f, NEW c \in Classes, c \in Above(f), NEW z \in SelfAbove(f)
  PROVE  c \in SelfAbove(z)
<1>1. CASE z = f
  BY <1>1 DEF SelfAbove
<1>2. CASE z \in Parents(f)
  BY <1>2 DEF OneParent, SelfAbove, Above
<1>3. CASE \E g \in Parents(f) : z \in Parents(g)
  <2>1. PICK g \in Parents(f) : z \in Parents(g)
    BY <1>3
  <2>2. c # g
    BY <2>1, Upwards
  <2>3. c \in Parents(g)
    BY <2>1, <2>2 DEF OneParent, Above
  <2> QED
    BY <2>1, <2>3 DEF OneParent, SelfAbove
<1> QED
  BY <1>1, <1>2, <1>3 DEF SelfAbove, Above

(* Two issuers of one symbology at related FIGIs are a row of a query.     *)
LEMMA RelatedFound ==
  ASSUME IInv, NEW x \in Figis, NEW y \in Figis, NEW i \in Issuers, NEW j \in Issuers,
         <<x, i>> \in issuedBy, <<y, j>> \in issuedBy, i # j, SameVendor(i, j), Related(x, y)
  PROVE  inconsistent_issr_01 # {} \/ inconsistent_issr_02 # {} \/ inconsistent_issr_03 # {}
<1>1. ASSUME NEW z \in Figis, <<z, i>> \in issuedBy, <<z, j>> \in issuedBy
      PROVE  inconsistent_issr_03 # {}
  <2>1. <<<<z, i>>, <<z, j>>>> \in inconsistent_issr_03
    BY <1>1 DEF inconsistent_issr_03
  <2> QED
    BY <2>1
<1>2. ASSUME NEW a \in Figis, NEW b \in Figis, NEW k \in Issuers, NEW l \in Issuers,
             <<a, k>> \in issuedBy, <<b, l>> \in issuedBy, SameVendor(k, l),
             k \notin Issued(b), l \notin Issued(a), b \in Above(a)
      PROVE  inconsistent_issr_01 # {}
  <2>1. \E g \in Figis : <<a, g>> \in componentOf
    BY <1>2 DEF Above, Parents
  <2>2. \E g \in Figis : <<g, b>> \in componentOf
    BY <1>2 DEF Above, Parents
  <2>3. <<a, OpenFigi>> \in symbolOf /\ <<b, OpenFigi>> \in symbolOf
    BY <2>1, <2>2 DEF IInv, LinksTold
  <2>4. OpenFigi \in VendorsOf(a) \cap VendorsOf(b)
    BY <2>3 DEF VendorsOf, Vendors
  <2>5. Apart(<<a, k>>, <<b, l>>, issuedBy)
    BY <1>2 DEF Apart, Issued
  <2>6. <<<<a, k>>, <<b, l>>>> \in inconsistent_issr_01
    BY <1>2, <2>4, <2>5 DEF inconsistent_issr_01
  <2> QED
    BY <2>6
<1>3. CASE x = y
  BY <1>1, <1>3
<1>4. CASE i \in Issued(y) \/ j \in Issued(x)
  BY <1>1, <1>4 DEF Issued
<1>5. CASE x # y /\ i \notin Issued(y) /\ j \notin Issued(x)
  <2>1. PICK w : w \in SelfAbove(x) /\ w \in SelfAbove(y)
    BY DEF Related
  <2>2. CASE y \in Above(x)
    BY <1>2, <1>5, <2>2
  <2>3. CASE x \in Above(y)
    BY <1>2, <1>5, <2>3 DEF SameVendor
  <2>4. CASE w \in Above(x) \cap Above(y)
    <3>1. Apart(<<x, i>>, <<y, j>>, issuedBy)
      BY <1>5 DEF Apart, Issued
    <3>2. <<<<x, i>>, <<y, j>>>> \in inconsistent_issr_02
      BY <2>4, <3>1 DEF inconsistent_issr_02
    <3> QED
      BY <3>2
  <2> QED
    BY <1>5, <2>1, <2>2, <2>3, <2>4 DEF SelfAbove
<1> QED
  BY <1>3, <1>4, <1>5

(* No conflict of issuers hides while issuers are moved one by one: the    *)
(* FIGIs they are at now are as related as those they were told of for.    *)
THEOREM Found == Spec => []ConflictsFound
<1>1. IInv => ConflictsFound
  <2> SUFFICES ASSUME IInv, inconsistent_composite = {}, NEW s \in told, NEW t \in told,
                      s[2] # t[2], SameVendor(s[2], t[2]), Related(s[1], t[1])
               PROVE  inconsistent_issr_01 # {} \/ inconsistent_issr_02 # {} \/ inconsistent_issr_03 # {}
    BY DEF ConflictsFound
  <2> USE DEF IInv
  <2>1. OneParent
    BY CompositeTells
  <2>2. ASSUME NEW u \in told
        PROVE  \E x \in Figis : <<x, u[2]>> \in issuedBy /\ (x = u[1] \/ x \in Above(u[1]) \cap Classes)
    <3>1. u = <<u[1], u[2]>> /\ u[1] \in Figis
      BY <2>2 DEF TypeOK
    <3>2. CASE u \in issuedBy
      BY <3>1, <3>2
    <3>3. CASE \E c \in Above(u[1]) : IsShareClass(c) /\ <<c, u[2]>> \in issuedBy
      BY <3>3, Upwards DEF LevelsOK
    <3> QED
      BY <3>2, <3>3 DEF IssuersKept
  <2>3. PICK x \in Figis : <<x, s[2]>> \in issuedBy /\ (x = s[1] \/ x \in Above(s[1]) \cap Classes)
    BY <2>2
  <2>4. PICK y \in Figis : <<y, t[2]>> \in issuedBy /\ (y = t[1] \/ y \in Above(t[1]) \cap Classes)
    BY <2>2
  <2>5. PICK z : z \in SelfAbove(s[1]) /\ z \in SelfAbove(t[1])
    BY DEF Related
  <2>6. z \in SelfAbove(x) \/ (x \in Classes /\ x \in SelfAbove(z))
    BY <2>1, <2>3, <2>5, Chain
  <2>7. z \in SelfAbove(y) \/ (y \in Classes /\ y \in SelfAbove(z))
    BY <2>1, <2>4, <2>5, Chain
  <2>8. Related(x, y)
    <3>1. \A f : f \in SelfAbove(f)
      BY DEF SelfAbove
    <3>2. CASE z \in SelfAbove(x) /\ z \in SelfAbove(y)
      BY <3>2 DEF Related
    <3>3. CASE z \in SelfAbove(x) /\ y \in SelfAbove(z)
      BY <3>1, <3>3, Upwards DEF Related
    <3>4. CASE z \in SelfAbove(y) /\ x \in SelfAbove(z)
      BY <3>1, <3>4, Upwards DEF Related
    <3>5. CASE x \in SelfAbove(z) /\ y \in SelfAbove(z) /\ x \in Classes /\ y \in Classes
      <4>1. y \in SelfAbove(x) \/ x \in SelfAbove(y)
        BY <2>1, <3>5, Chain DEF SelfAbove
      <4> QED
        BY <3>1, <4>1 DEF Related
    <3> QED
      BY <2>6, <2>7, <3>2, <3>3, <3>4, <3>5
  <2>9. s[2] \in Issuers /\ t[2] \in Issuers
    BY DEF TypeOK
  <2> QED
    BY <2>3, <2>4, <2>8, <2>9, RelatedFound
<1> QED
  BY <1>1, Inductive, PTL
==============================================================================
