-------------------------------- MODULE Gics ---------------------------------
(***************************************************************************)
(* How gics.owl.ttl is made: each language's table goes through a process  *)
(* ttlify-gics-xls.awk of its own, all they print is sorted, uniq drops    *)
(* what several said, sed takes the language off the predicates and        *)
(* statementify.awk makes statements of the rest.                          *)
(*                                                                         *)
(* A table has a code and a name in each of four levels; a level that is   *)
(* not listed in a row is that of a row above.  Where the code of the last *)
(* level is blank its name is the definition of the class above.           *)
(***************************************************************************)
EXTENDS Statementify

CONSTANTS
  Codes, Names, Langs,
  None,         \* a blank cell
  Parent,       \* the code a code begins with, None for one of the first level
  Rank,         \* how sort orders codes, predicates and languages
  Tables        \* sequences of tables: [lang, rows], rows of [code, name]

ASSUME TableAssumption ==
  /\ {None, NoTerm} \cap (Codes \cup Names) = {}
  /\ Tables \subseteq Seq([lang : Langs,
                          rows : Seq([code : [1..4 -> Codes \cup {None}],
                                      name : [1..4 -> Names \cup {None}]])])

\* No two terms are equal for sort: it compares their bytes in the end.
Preds == {"a", "subClassOf", "symbolOf", "label", "name", "definition"}
ASSUME RankAssumption ==
  /\ Codes \cup Preds \cup Langs \cup {""} \subseteq DOMAIN Rank
  /\ \A x, y \in DOMAIN Rank : Rank[x] \in Nat /\ (x # y => Rank[x] # Rank[y])

VARIABLES
  tables, table, row, \* what there is to read, and where it is read
  last,               \* l1, l3, l5 and l7: the codes listed last
  triples,            \* [s, p, lang, o]; lang is "" but for names and definitions
  left                \* those that statementify has not read
gicsVars == <<tables, table, row, last, triples, left, statementVars>>

Top == "gas:Classification"

GicsInit ==
  /\ tables \in Tables
  /\ table = 1 /\ row = 1 /\ last = [l \in 1..4 |-> None]
  /\ triples = {} /\ left = {}
  /\ StatementInit

-----------------------------------------------------------------------------
IsListed(r, l) == r.code[l] # None /\ r.name[l] # None

Listed(r) == {l \in 1..4 : IsListed(r, l)}
LastOf(r) == [l \in 1..4 |-> IF IsListed(r, l) THEN r.code[l] ELSE last[l]]

\* Variant of Above: of the row above.
AboveBefore(r, l) == IF l = 1 THEN Top ELSE last[l - 1]
\* The rules run in order, so that the level above is that of this row if it is listed.
Above(r, l) == IF l = 1 THEN Top ELSE LastOf(r)[l - 1]

ClassTriples(r, l, lang) ==
  LET Says(p, lg, o) == [s |-> r.code[l], p |-> p, lang |-> lg, o |-> o]
  IN  {Says("a", "", "owl:Class"), Says("subClassOf", "", Above(r, l)),
       Says("symbolOf", "", "msci"),
       Says("label", lang, r.name[l]), Says("name", lang, r.name[l])}

Definition(r, lang) ==
  IF r.code[4] = None /\ last[4] # None /\ r.name[4] # None
  THEN {[s |-> last[4], p |-> "definition", lang |-> lang, o |-> r.name[4]]} ELSE {}

Row ==
  /\ table <= Len(tables) /\ row <= Len(tables[table].rows)
  /\ LET r == tables[table].rows[row]
         lang == tables[table].lang
     IN  /\ triples' = triples \cup Definition(r, lang)
                               \cup UNION {ClassTriples(r, l, lang) : l \in Listed(r)}
         /\ last' = LastOf(r)
  /\ row' = row + 1
  /\ UNCHANGED <<tables, table, left, statementVars>>

NextTable ==
  /\ table <= Len(tables) /\ row > Len(tables[table].rows)
  /\ table' = table + 1 /\ row' = 1 /\ last' = [l \in 1..4 |-> None]
  /\ UNCHANGED <<tables, triples, left, statementVars>>

Before(t, u) ==
  LET Key(x) == <<Rank[x.s], Rank[x.p], Rank[x.lang]>>
  IN  \E i \in 1..3 : Key(t)[i] < Key(u)[i] /\ \A j \in 1..(i - 1) : Key(t)[j] = Key(u)[j]

Sort == /\ table = Len(tables) + 1
        /\ left' = triples
        /\ table' = table + 1
        /\ UNCHANGED <<tables, row, last, triples, statementVars>>

\* What is left when sed has taken the language off the predicate.
Sed(t) == [s |-> t.s, p |-> t.p, o |-> <<t.o, t.lang>>]

Statement == /\ table = Len(tables) + 2
             /\ \/ \E t \in left : /\ \A u \in left : ~Before(u, t)
                                   /\ Triple(Sed(t)) /\ left' = left \ {t}
                \/ left = {} /\ End /\ UNCHANGED left
             /\ UNCHANGED <<tables, table, row, last, triples>>

GicsNext == Row \/ NextTable \/ Sort \/ Statement
GicsSpec == GicsInit /\ [][GicsNext]_gicsVars

-----------------------------------------------------------------------------
\* In table t every code has its name, and is below the one listed last in the level above,
\* but for those of the first level.
ListedIn(t, k, l) == {j \in 1..k : t.rows[j].code[l] # None}
LastIn(ks) == CHOOSE j \in ks : \A i \in ks : i <= j
CodeAt(t, k, l) ==
  IF ListedIn(t, k, l) = {} THEN None ELSE t.rows[LastIn(ListedIn(t, k, l))].code[l]
Proper(t) ==
  \A k \in DOMAIN t.rows, l \in 1..4 : t.rows[k].code[l] # None =>
    LET c == t.rows[k].code[l] IN
    /\ t.rows[k].name[l] # None
    /\ Parent[c] = None <=> l = 1
    /\ l > 1 => Parent[c] = CodeAt(t, k, l - 1)

(* Of proper tables every class gets one parent, the one its code begins   *)
(* with, whatever the languages and the rows in which its level was listed *)
(* before; and every definition stands right below the class it belongs to.*)
Hierarchy ==
  (\A i \in DOMAIN tables : Proper(tables[i])) =>
    \A t \in triples :
      /\ t.p = "subClassOf" => t.o = IF Parent[t.s] = None THEN Top ELSE Parent[t.s]
      /\ t.p = "definition" =>
           \E i \in DOMAIN tables : \E k \in DOMAIN tables[i].rows :
             /\ t.o = tables[i].rows[k].name[4] /\ t.lang = tables[i].lang
             /\ tables[i].rows[k].code[4] = None /\ CodeAt(tables[i], k, 4) = t.s
=============================================================================
