---------------------------- MODULE FilterProofs ----------------------------
(***************************************************************************)
(* Proofs about the programs that read and print lines: the pipeline for   *)
(* GICS and meld-cfi, for all tables, lines and widths, and yuck's line    *)
(* reader, for all files.                                                  *)
(***************************************************************************)
EXTENDS MeldCfi, Gics, YuckReader, SequenceTheorems, WellFoundedInduction, TLAPS

-----------------------------------------------------------------------------
(* GICS.  What triples are made of.                                        *)
Tongues == Langs \cup {""}
Objects == Codes \cup Names \cup {None, Top, "owl:Class", "msci"}
Raw     == [s : Codes, p : Preds, lang : Tongues, o : Objects]
Triples == [s : Codes, p : Preds, o : Objects \X Tongues]
Printable == [terms : Seq(Codes \cup Preds \cup (Objects \X Tongues)), sep : {",", ";", "."}]

GicsTypes ==
  /\ tables \in Tables /\ table \in Nat \ {0} /\ row \in Nat \ {0}
  /\ last \in [1..4 -> Codes \cup {None}]
  /\ triples \subseteq Raw /\ left \subseteq Raw

StatementTypes ==
  /\ read \in Seq(Triples) /\ printed \in Seq(Printable)
  /\ held \in Seq(Codes \cup Preds \cup (Objects \X Tongues))
  /\ ended \in BOOLEAN

\* s, p and x are those of the line read last.
LastRead ==
  IF read = <<>> THEN held = <<>> /\ subj = NoTerm /\ (~ended => printed = <<>>)
  ELSE /\ held # <<>>
       /\ subj = read[Len(read)].s /\ pred = read[Len(read)].p
       /\ Len(printed) = IF ended THEN Len(read) ELSE Len(read) - 1
       /\ ended => printed[Len(read)].sep = "."

\* Line k can be read.
Readable(k) ==
  LET t == read[k]
      full == k = 1 \/ printed[k - 1].sep = "."
  IN  \/ full /\ TermsOf(k) = <<t.s, t.p, t.o>>
      \/ ~full /\ t.s = read[k - 1].s /\ printed[k - 1].sep = ";" /\ TermsOf(k) = <<t.p, t.o>>
      \/ ~full /\ t.s = read[k - 1].s /\ t.p = read[k - 1].p /\ printed[k - 1].sep = ","
               /\ TermsOf(k) = <<t.o>>

StatementInv == StatementTypes /\ LastRead /\ \A k \in 1..Len(read) : Readable(k)

(* statementify.awk tells the first line by its subject, which is not the  *)
(* empty one; of every other line it repeats what is new.                  *)
LEMMA TripleInv ==
  ASSUME StatementInv, NEW t \in Triples, Triple(t)
  PROVE  StatementInv'
<1>0. PICK n \in Nat : n = Len(read)
  BY LenProperties DEF StatementInv, StatementTypes
<1>1. /\ n = Len(read) /\ read' = Append(read, t) /\ read' \in Seq(Triples) /\ Len(read') = n + 1
      /\ read'[n + 1] = t /\ (\A k \in 1..n : read'[k] = read[k]) /\ read' # <<>>
  BY <1>0, AppendProperties, EmptySeq, LenProperties DEF StatementInv, StatementTypes, Triple
<1>2. /\ ~ended /\ ended' = FALSE /\ subj' = t.s /\ pred' = t.p /\ held' = Terms(t)
      /\ t.s # NoTerm
  BY TableAssumption DEF Triple, PredOf, StatementInv, StatementTypes, Triples
<1>3. held' \in Seq(Codes \cup Preds \cup (Objects \X Tongues)) /\ held' # <<>>
  <2>1. t.s \in Codes /\ t.p \in Preds /\ t.o \in Objects \X Tongues
    BY DEF Triples
  <2> DEFINE T == Codes \cup Preds \cup (Objects \X Tongues)
  <2>2. t.s \in T /\ t.p \in T /\ t.o \in T
    BY <2>1
  <2> HIDE DEF T
  <2>3. /\ <<t.o>> \in Seq(T) /\ <<t.p, t.o>> \in Seq(T) /\ <<t.s, t.p, t.o>> \in Seq(T)
        /\ <<t.o>> # <<>> /\ <<t.p, t.o>> # <<>> /\ <<t.s, t.p, t.o>> # <<>>
    BY <2>2
  <2>4. Terms(t) \in {<<t.o>>, <<t.p, t.o>>, <<t.s, t.p, t.o>>}
    BY DEF Terms
  <2> QED
    BY <1>2, <2>3, <2>4 DEF T
<1>4. Separator(t) \in {",", ";", "."}
  BY DEF Separator
<1>5. CASE read = <<>>
  <2>1. n = 0 /\ held = <<>> /\ subj = NoTerm /\ printed = <<>> /\ printed' = <<>>
    BY <1>1, <1>2, <1>5, EmptySeq DEF StatementInv, LastRead, Triple
  <2>2. held' = <<t.s, t.p, t.o>>
    BY <1>2, <2>1 DEF Terms, Separator, Same
  <2>3. \A k \in 1..Len(read') : Readable(k)'
    BY <1>1, <2>1, <2>2 DEF Readable, TermsOf
  <2>4. StatementTypes'
    BY <1>1, <1>2, <1>3, <2>1 DEF StatementTypes, StatementInv
  <2>5. LastRead'
    BY <1>1, <1>2, <1>3, <2>1 DEF LastRead
  <2> QED
    BY <2>3, <2>4, <2>5 DEF StatementInv
<1>6. CASE read # <<>>
  <2> DEFINE x == [terms |-> held, sep |-> Separator(t)]
  <2>1. n \in Nat \ {0} /\ held # <<>> /\ subj = read[n].s /\ pred = read[n].p /\ Len(printed) = n - 1
    BY <1>1, <1>2, <1>6, EmptySeq DEF StatementInv, StatementTypes, LastRead
  <2>2. x \in Printable
    BY <1>4 DEF Printable, StatementInv, StatementTypes
  <2>3. printed' = Append(printed, x)
    BY <2>1 DEF Triple, Flushed
  <2>4. /\ printed' \in Seq(Printable) /\ Len(printed') = n
        /\ printed'[n] = x /\ \A k \in 1..(n - 1) : printed'[k] = printed[k]
    BY <2>1, <2>2, <2>3, AppendProperties DEF StatementInv, StatementTypes
  <2>5. ASSUME NEW k \in 1..n PROVE Readable(k)'
    <3>1. Readable(k) /\ read'[k] = read[k] /\ (k > 1 => read'[k - 1] = read[k - 1])
      BY <1>1, <2>5 DEF StatementInv
    <3>2. TermsOf(k)' = TermsOf(k)
      BY <2>1, <2>4 DEF TermsOf
    <3>3. k > 1 => printed'[k - 1] = printed[k - 1]
      BY <2>1, <2>4
    <3>4. CASE k = 1
      BY <3>1, <3>2, <3>4 DEF Readable
    <3>5. CASE k # 1
      <4>1. k > 1
        BY <2>5, <3>5
      <4> QED
        BY <3>1, <3>2, <3>3, <4>1 DEF Readable
    <3> QED
      BY <3>4, <3>5
  <2>6. Readable(n + 1)'
    <3>1. TermsOf(n + 1)' = Terms(t)
      BY <1>2, <2>1, <2>4 DEF TermsOf
    <3>2. /\ read'[n + 1] = t /\ read'[(n + 1) - 1] = read[n]
          /\ printed'[(n + 1) - 1].sep = Separator(t)
      BY <1>1, <2>1, <2>4
    <3>3. n + 1 # 1
      BY <2>1
    <3>4. CASE Separator(t) = ","
      <4>1. t.s = subj /\ t.p = pred /\ Terms(t) = <<t.o>>
        BY <3>4 DEF Separator, Same, Terms
      <4> QED
        BY <2>1, <3>1, <3>2, <3>3, <3>4, <4>1 DEF Readable
    <3>5. CASE Separator(t) = ";"
      <4>1. t.s = subj /\ Terms(t) = <<t.p, t.o>>
        BY <3>5 DEF Separator, Terms
      <4> QED
        BY <2>1, <3>1, <3>2, <3>3, <3>5, <4>1 DEF Readable
    <3>6. CASE Separator(t) = "."
      <4>1. Terms(t) = <<t.s, t.p, t.o>>
        BY <3>6 DEF Terms
      <4> QED
        BY <3>1, <3>2, <3>6, <4>1 DEF Readable
    <3> QED
      BY <1>4, <3>4, <3>5, <3>6
  <2>7. StatementTypes'
    BY <1>1, <1>2, <1>3, <2>4 DEF StatementTypes
  <2>8. LastRead'
    BY <1>1, <1>2, <1>3, <2>1, <2>4 DEF LastRead
  <2> QED
    <3>1. \A k \in 1..Len(read') : k \in 1..n \/ k = n + 1
      BY <1>1
    <3>2. \A k \in 1..Len(read') : Readable(k)'
      BY <2>5, <2>6, <3>1
    <3> QED
      BY <2>7, <2>8, <3>2 DEF StatementInv
<1> QED
  BY <1>5, <1>6

LEMMA EndInv ==
  ASSUME StatementInv, End
  PROVE  StatementInv'
<1> DEFINE n == Len(read)
           x == [terms |-> held, sep |-> "."]
<1>1. /\ ~ended /\ ended' = TRUE /\ UNCHANGED <<subj, pred, held, read>>
      /\ printed' = Append(printed, x) /\ n \in Nat
  BY DEF End, Flushed, StatementInv, StatementTypes
<1>2. x \in Printable /\ printed \in Seq(Printable)
  BY DEF Printable, StatementInv, StatementTypes
<1>3. /\ printed' \in Seq(Printable) /\ Len(printed') = Len(printed) + 1
      /\ printed'[Len(printed) + 1] = x /\ \A k \in 1..Len(printed) : printed'[k] = printed[k]
  BY <1>1, <1>2, AppendProperties
<1>4. StatementTypes'
  BY <1>1, <1>3 DEF StatementInv, StatementTypes
<1>5. LastRead'
  BY <1>1, <1>2, <1>3, EmptySeq DEF StatementInv, LastRead
<1>6. ASSUME NEW k \in 1..n PROVE Readable(k)'
  <2>1. Readable(k) /\ Len(printed) = n - 1
    BY <1>1, <1>6, EmptySeq DEF StatementInv, LastRead
  <2>2. TermsOf(k)' = TermsOf(k)
    BY <1>1, <1>3, <2>1 DEF TermsOf
  <2>3. k > 1 => printed'[k - 1] = printed[k - 1]
    BY <1>3, <2>1
  <2> QED
    <3>1. CASE k = 1
      BY <1>1, <2>1, <2>2, <3>1 DEF Readable
    <3>2. CASE k # 1
      <4>1. k > 1
        BY <1>6, <3>2
      <4> QED
        BY <1>1, <2>1, <2>2, <2>3, <4>1 DEF Readable
    <3> QED
      BY <3>1, <3>2
<1> QED
  BY <1>1, <1>4, <1>5, <1>6 DEF StatementInv

(* Every table gives triples about codes.                                  *)
LEMMA RowTypes ==
  ASSUME GicsTypes, Row
  PROVE  GicsTypes'
<1> DEFINE Cell == [code : [1..4 -> Codes \cup {None}], name : [1..4 -> Names \cup {None}]]
           Table == [lang : Langs, rows : Seq(Cell)]
           t == tables[table]
           r == t.rows[row]
<1>1. tables \in Seq(Table)
  BY TableAssumption DEF GicsTypes
<1>2. t \in Table /\ r \in Cell
  <2>1. table \in 1..Len(tables) /\ row \in 1..Len(t.rows)
    BY <1>1 DEF Row, GicsTypes
  <2>2. t \in Table
    BY <1>1, <2>1, ElementOfSeq
  <2> QED
    BY <2>1, <2>2, ElementOfSeq
<1>3. t.lang \in Langs /\ r.code \in [1..4 -> Codes \cup {None}] /\ r.name \in [1..4 -> Names \cup {None}]
  BY <1>2
<1>4. /\ triples' = triples \cup Definition(r, t.lang) \cup UNION {ClassTriples(r, l, t.lang) : l \in Listed(r)}
      /\ last' = LastOf(r) /\ row' = row + 1 /\ UNCHANGED <<tables, table, left>>
  BY DEF Row
<1> HIDE DEF r, t
<1>5. last' \in [1..4 -> Codes \cup {None}]
  BY <1>3, <1>4 DEF LastOf, GicsTypes
<1>6. ASSUME NEW l \in Listed(r) PROVE ClassTriples(r, l, t.lang) \subseteq Raw
  <2>1. l \in 1..4 /\ r.code[l] \in Codes /\ r.name[l] \in Names
    BY <1>3, <1>6 DEF Listed, IsListed
  <2>2. Above(r, l) \in Codes \cup {None, Top}
    BY <1>4, <1>5, <2>1 DEF Above
  <2> QED
    <3> DEFINE x == r.code[l]
               lg == t.lang
    <3>1. [s |-> x, p |-> "a", lang |-> "", o |-> "owl:Class"] \in Raw
      BY <2>1 DEF Raw, Preds, Tongues, Objects
    <3>2. [s |-> x, p |-> "subClassOf", lang |-> "", o |-> Above(r, l)] \in Raw
      BY <2>1, <2>2 DEF Raw, Preds, Tongues, Objects
    <3>3. [s |-> x, p |-> "symbolOf", lang |-> "", o |-> "msci"] \in Raw
      BY <2>1 DEF Raw, Preds, Tongues, Objects
    <3>4. \A p \in {"label", "name"} : [s |-> x, p |-> p, lang |-> lg, o |-> r.name[l]] \in Raw
      BY <1>3, <2>1 DEF Raw, Preds, Tongues, Objects
    <3> QED
      BY <3>1, <3>2, <3>3, <3>4 DEF ClassTriples
<1>7. Definition(r, t.lang) \subseteq Raw
  <2> SUFFICES ASSUME r.code[4] = None /\ last[4] # None /\ r.name[4] # None
               PROVE  [s |-> last[4], p |-> "definition", lang |-> t.lang, o |-> r.name[4]] \in Raw
    BY DEF Definition
  <2>1. last[4] \in Codes /\ r.name[4] \in Names
    BY <1>3 DEF GicsTypes
  <2> QED
    BY <1>3, <2>1 DEF Raw, Preds, Tongues, Objects
<1>8. triples' \subseteq Raw
  <2> SUFFICES ASSUME NEW x \in triples' PROVE x \in Raw
    OBVIOUS
  <2>1. \/ x \in triples
        \/ \E l \in Listed(r) : x \in ClassTriples(r, l, t.lang)
        \/ x \in Definition(r, t.lang)
    BY <1>4
  <2> QED
    BY <1>6, <1>7, <2>1 DEF GicsTypes
<1> QED
  BY <1>4, <1>5, <1>8 DEF GicsTypes

LEMMA SedTypes == \A t \in Raw : Sed(t) \in Triples
  BY DEF Raw, Triples, Sed

LEMMA GicsAlways == GicsSpec => [](GicsTypes /\ StatementInv)
<1> DEFINE I == GicsTypes /\ StatementInv
<1>1. GicsInit => I
  <2> SUFFICES ASSUME GicsInit PROVE I
    OBVIOUS
  <2>1. GicsTypes
    BY DEF GicsInit, GicsTypes
  <2>2. StatementInv
    <3>1. /\ subj = NoTerm /\ held = <<>> /\ printed = <<>> /\ read = <<>> /\ ended = FALSE
          /\ 1..Len(read) = {}
      BY EmptySeq DEF GicsInit, StatementInit
    <3>2. StatementTypes /\ LastRead
      BY <3>1, EmptySeq DEF StatementTypes, LastRead
    <3> QED
      BY <3>1, <3>2 DEF StatementInv
  <2> QED
    BY <2>1, <2>2
<1>2. I /\ [GicsNext]_gicsVars => I'
  <2> SUFFICES ASSUME I, [GicsNext]_gicsVars PROVE I'
    OBVIOUS
  <2>1. ASSUME UNCHANGED statementVars PROVE StatementInv'
    BY <2>1 DEF statementVars, StatementInv, StatementTypes, LastRead, Readable, TermsOf
  <2>2. CASE Row
    BY <2>1, <2>2, RowTypes DEF Row
  <2>3. CASE NextTable
    BY <2>1, <2>3 DEF NextTable, GicsTypes
  <2>4. CASE Sort
    BY <2>1, <2>4 DEF Sort, GicsTypes
  <2>5. CASE Statement
    <3>1. GicsTypes'
      BY <2>5 DEF Statement, GicsTypes
    <3>2. StatementInv'
      <4>1. ASSUME NEW t \in left, Triple(Sed(t)) PROVE StatementInv'
        BY <4>1, SedTypes, TripleInv DEF GicsTypes
      <4> QED
        BY <2>5, <4>1, EndInv DEF Statement
    <3> QED
      BY <3>1, <3>2
  <2>6. CASE UNCHANGED gicsVars
    BY <2>1, <2>6 DEF gicsVars, GicsTypes
  <2> QED
    BY <2>2, <2>3, <2>4, <2>5, <2>6 DEF GicsNext
<1> QED
  BY <1>1, <1>2, PTL DEF GicsSpec

(* What is printed can be read back, whatever the tables: the statements   *)
(* are the triples, one by one.                                            *)
THEOREM StatementsReadBack == GicsSpec => []ReadsBack
<1>1. GicsTypes /\ StatementInv => ReadsBack
  <2> SUFFICES ASSUME GicsTypes /\ StatementInv PROVE ReadsBack
    OBVIOUS
  <2>1. Len(printed) + (IF ended THEN 0 ELSE 1) >= Len(read)
    BY EmptySeq, LenProperties DEF StatementInv, StatementTypes, LastRead
  <2>2. \A k \in 1..Len(read) : Readable(k)
    BY DEF StatementInv
  <2>3. ended /\ read # <<>> => printed[Len(read)].sep = "."
    BY DEF StatementInv, LastRead
  <2> QED
    BY <2>1, <2>2, <2>3 DEF ReadsBack, Readable
<1> QED
  BY <1>1, GicsAlways, PTL

-----------------------------------------------------------------------------
(* Sorted triples.                                                         *)

\* Line k is not behind what follows it, by subject and predicate.
InOrder(t, u) == Rank[t.s] < Rank[u.s] \/ (t.s = u.s /\ Rank[t.p] <= Rank[u.p])

\* What has been read is sorted, and in front of what is left.
Sorted ==
  /\ table # Len(tables) + 2 => read = <<>>
  /\ \A k \in 1..Len(read) : /\ \A j \in 1..(k - 1) : InOrder(read[j], read[k])
                             /\ \A u \in left : InOrder(read[k], u)

\* The separators tell what a line has in common with the one before.
SeparatorOf(t, u) == IF t.s = u.s /\ t.p = u.p THEN "," ELSE IF t.s = u.s THEN ";" ELSE "."
Separated == \A k \in 2..Len(read) : printed[k - 1].sep = SeparatorOf(read[k - 1], read[k])

LEMMA TripleSeparated ==
  ASSUME StatementInv, Separated, NEW t \in Triples, Triple(t)
  PROVE  Separated'
<1> DEFINE n == Len(read)
<1>1. /\ n \in Nat /\ Len(read') = n + 1 /\ read'[n + 1] = t
      /\ \A k \in 1..n : read'[k] = read[k]
  BY AppendProperties, LenProperties DEF StatementInv, StatementTypes, Triple
<1>2. SUFFICES ASSUME NEW k \in 2..(n + 1) PROVE printed'[k - 1].sep = SeparatorOf(read'[k - 1], read'[k])
  BY <1>1 DEF Separated
<1>3. n # 0 /\ read # <<>> /\ ~ended
  BY <1>1, <1>2 DEF Triple
<1>4. held # <<>> /\ subj = read[n].s /\ pred = read[n].p /\ Len(printed) = n - 1
  BY <1>3 DEF StatementInv, LastRead
<1>5. /\ printed' = Append(printed, [terms |-> held, sep |-> Separator(t)])
      /\ printed \in Seq(Printable)
  BY <1>4 DEF Triple, Flushed, StatementInv, StatementTypes
<1>6. /\ printed'[n] = [terms |-> held, sep |-> Separator(t)]
      /\ \A j \in 1..(n - 1) : printed'[j] = printed[j]
  <2>1. [terms |-> held, sep |-> Separator(t)] \in Printable
    BY DEF Printable, Separator, StatementInv, StatementTypes
  <2> QED
    BY <1>1, <1>4, <1>5, <2>1, AppendProperties
<1>7. CASE k = n + 1
  <2>1. Separator(t) = SeparatorOf(read[n], t)
    BY <1>4 DEF Separator, Same, SeparatorOf
  <2>2. k - 1 = n /\ read'[k - 1] = read[n] /\ read'[k] = t
    BY <1>1, <1>3, <1>7
  <2> QED
    BY <1>6, <2>1, <2>2
<1>8. CASE k # n + 1
  <2>1. k \in 2..n /\ k - 1 \in 1..(n - 1)
    BY <1>1, <1>2, <1>8
  <2>2. read'[k - 1] = read[k - 1] /\ read'[k] = read[k]
    BY <1>1, <2>1
  <2> QED
    BY <1>6, <2>1, <2>2 DEF Separated
<1> QED
  BY <1>7, <1>8

LEMMA EndSeparated ==
  ASSUME StatementInv, Separated, End
  PROVE  Separated'
<1>1. printed' = Flushed(".") /\ UNCHANGED <<held, read>> /\ ~ended
  BY DEF End
<1>2. [terms |-> held, sep |-> "."] \in Printable /\ printed \in Seq(Printable)
  BY DEF Printable, StatementInv, StatementTypes
<1>3. \A j \in 1..Len(printed) : printed'[j] = printed[j]
  BY <1>1, <1>2, AppendProperties DEF Flushed
<1>4. \A k \in 2..Len(read) : k - 1 \in 1..Len(printed)
  <2>1. read # <<>> => Len(printed) = Len(read) - 1
    BY <1>1 DEF StatementInv, LastRead
  <2>2. read = <<>> => Len(read) = 0
    OBVIOUS
  <2>3. Len(read) \in Nat /\ Len(printed) \in Nat
    BY LenProperties DEF StatementInv, StatementTypes
  <2> QED
    BY <2>1, <2>2, <2>3
<1> QED
  BY <1>1, <1>3, <1>4 DEF Separated

\* The first one for sort is in order with the others.
LEMMA FirstInOrder ==
  ASSUME NEW t \in Raw, NEW u \in Raw, ~Before(u, t)
  PROVE  InOrder(Sed(t), Sed(u))
<1> DEFINE Key(x) == <<Rank[x.s], Rank[x.p], Rank[x.lang]>>
<1>1. /\ Rank[t.s] \in Nat /\ Rank[u.s] \in Nat /\ Rank[t.p] \in Nat /\ Rank[u.p] \in Nat
      /\ Rank[t.s] = Rank[u.s] => t.s = u.s
  BY RankAssumption DEF Raw
<1>2. ~(Key(u)[1] < Key(t)[1])
  BY DEF Before
<1>3. ~(Key(u)[2] < Key(t)[2] /\ Key(u)[1] = Key(t)[1])
  <2>1. \A j \in 1..(2 - 1) : j = 1
    OBVIOUS
  <2> QED
    BY <2>1 DEF Before
<1>4. ~(Rank[u.s] < Rank[t.s]) /\ ~(Rank[u.p] < Rank[t.p] /\ Rank[u.s] = Rank[t.s])
  BY <1>2, <1>3
<1>5. Rank[t.s] < Rank[u.s] \/ (t.s = u.s /\ Rank[t.p] <= Rank[u.p])
  BY <1>1, <1>4
<1> QED
  BY <1>5 DEF InOrder, Sed

\* Reading the first of what is left keeps the order.
LEMMA StatementSorted ==
  ASSUME GicsTypes, StatementInv, Sorted, NEW t \in left, \A u \in left : ~Before(u, t),
         Triple(Sed(t)), left' = left \ {t}, UNCHANGED <<table, tables>>, table = Len(tables) + 2
  PROVE  Sorted'
<1> DEFINE n == Len(read)
           s == Sed(t)
<1>0. s \in Triples /\ t \in Raw
  BY SedTypes DEF GicsTypes
<1>1. /\ n \in Nat /\ Len(read') = n + 1 /\ read'[n + 1] = s
      /\ \A k \in 1..n : read'[k] = read[k]
  BY <1>0, AppendProperties, LenProperties DEF StatementInv, StatementTypes, Triple
<1>2. \A u \in left : InOrder(s, Sed(u)) /\ u \in Raw
  BY <1>0, FirstInOrder DEF GicsTypes
<1>3. \A u \in Raw : \A x : (InOrder(x, u) <=> InOrder(x, Sed(u))) /\ (InOrder(u, x) <=> InOrder(Sed(u), x))
  BY DEF InOrder, Sed
<1> HIDE DEF s
<1>4. ASSUME NEW k \in 1..(n + 1)
      PROVE  /\ \A j \in 1..(k - 1) : InOrder(read'[j], read'[k])
             /\ \A u \in left' : InOrder(read'[k], u)
  <2>1. CASE k = n + 1
    <3>1. \A j \in 1..n : InOrder(read[j], t)
      BY DEF Sorted
    <3>2. \A j \in 1..n : InOrder(read[j], s)
      BY <1>0, <1>3, <3>1 DEF s
    <3> QED
      BY <1>1, <1>2, <1>3, <2>1, <3>2
  <2>2. CASE k # n + 1
    <3>1. k \in 1..n
      BY <1>1, <1>4, <2>2
    <3> QED
      BY <1>1, <3>1 DEF Sorted
  <2> QED
    BY <2>1, <2>2
<1> QED
  BY <1>1, <1>4 DEF Sorted

\* What a line repeats is what it does not have in common with the one before.
LEMMA ShortLines ==
  ASSUME StatementInv, Separated, NEW k \in 2..Len(read), read[k - 1].s = read[k].s
  PROVE  /\ Len(TermsOf(k)) < 3
         /\ read[k - 1].p = read[k].p => Len(TermsOf(k)) < 2
<1> DEFINE t == read[k]
<1>1. Readable(k) /\ k # 1
  BY DEF StatementInv
<1>2. printed[k - 1].sep = SeparatorOf(read[k - 1], t)
  BY DEF Separated
<1>3. printed[k - 1].sep = IF read[k - 1].p = t.p THEN "," ELSE ";"
  BY <1>2 DEF SeparatorOf
<1>4. CASE read[k - 1].p = t.p
  <2>1. TermsOf(k) = <<t.o>>
    BY <1>1, <1>3, <1>4 DEF Readable
  <2> HIDE DEF t
  <2> QED
    BY <2>1
<1>5. CASE read[k - 1].p # t.p
  <2>1. TermsOf(k) = <<t.p, t.o>>
    BY <1>1, <1>3, <1>5 DEF Readable
  <2> HIDE DEF t
  <2> QED
    BY <1>5, <2>1 DEF t
<1> QED
  BY <1>4, <1>5

\* Of lines in order those about one subject are together, those with its predicate too.
LEMMA Together ==
  ASSUME GicsTypes, StatementInv, Sorted, Separated,
         NEW j \in 1..Len(read), NEW k \in 1..Len(read), j < k, read[j].s = read[k].s
  PROVE  /\ Len(TermsOf(k)) < 3
         /\ read[j].p = read[k].p => Len(TermsOf(k)) < 2
<1> DEFINE m == k - 1
<1>1. Len(read) \in Nat /\ read \in Seq(Triples)
  BY LenProperties DEF StatementInv, StatementTypes
<1>2. m \in 1..Len(read) /\ k \in 2..Len(read) /\ (j = m \/ j \in 1..(m - 1)) /\ m \in 1..(k - 1)
  BY <1>1
<1>3. read[j] \in Triples /\ read[m] \in Triples /\ read[k] \in Triples
  BY <1>1, <1>2, ElementOfSeq
<1>4. InOrder(read[m], read[k]) /\ (j # m => InOrder(read[j], read[m]))
  BY <1>2 DEF Sorted
<1>5. \A x \in {read[j], read[m], read[k]} : Rank[x.s] \in Nat /\ Rank[x.p] \in Nat /\ x.p \in DOMAIN Rank /\ x.s \in DOMAIN Rank
  BY <1>3, RankAssumption DEF Triples
<1> HIDE DEF m
<1>6. read[m].s = read[k].s
  BY <1>4, <1>5 DEF InOrder
<1>7. read[j].p = read[k].p => Rank[read[m].p] = Rank[read[k].p]
  BY <1>4, <1>5, <1>6 DEF InOrder
<1>8. read[j].p = read[k].p => read[m].p = read[k].p
  BY <1>5, <1>7, RankAssumption
<1> QED
  BY <1>2, <1>6, <1>8, ShortLines DEF m

(* Sorted as they are, the triples of all languages give every class one   *)
(* statement, and every predicate in it one list of objects.               *)
THEOREM StatedOnce == GicsSpec => []OneStatement
<1> DEFINE I == Sorted /\ Separated
<1>1. GicsInit => I
  <2> SUFFICES ASSUME GicsInit PROVE I
    OBVIOUS
  <2>1. read = <<>> /\ 1..Len(read) = {} /\ 2..Len(read) = {}
    BY DEF GicsInit, StatementInit
  <2> QED
    BY <2>1 DEF Sorted, Separated
<1>2. GicsTypes /\ StatementInv /\ I /\ [GicsNext]_gicsVars => I'
  <2> SUFFICES ASSUME GicsTypes, StatementInv, I, [GicsNext]_gicsVars PROVE I'
    OBVIOUS
  <2>0. table \in Nat /\ Len(tables) \in Nat
    <3>1. tables \in Seq([lang : Langs, rows : Seq([code : [1..4 -> Codes \cup {None}],
                                                    name : [1..4 -> Names \cup {None}]])])
      BY TableAssumption DEF GicsTypes
    <3> QED
      BY <3>1, LenProperties DEF GicsTypes
  <2>1. ASSUME UNCHANGED statementVars PROVE Separated'
    BY <2>1 DEF statementVars, Separated
  <2>2. ASSUME UNCHANGED <<statementVars, tables>>, table <= Len(tables) + 1 PROVE Sorted'
    <3>1. read = <<>> /\ read' = <<>>
      BY <2>0, <2>2 DEF Sorted, statementVars
    <3> QED
      BY <3>1 DEF Sorted
  <2>3. CASE Row
    BY <2>0, <2>1, <2>2, <2>3 DEF Row
  <2>4. CASE NextTable
    BY <2>0, <2>1, <2>2, <2>4 DEF NextTable
  <2>5. CASE Sort
    BY <2>0, <2>1, <2>2, <2>5 DEF Sort
  <2>6. CASE Statement
    <3>1. ASSUME NEW t \in left, \A u \in left : ~Before(u, t), Triple(Sed(t)), left' = left \ {t}
          PROVE  I'
      <4>1. table = Len(tables) + 2 /\ UNCHANGED <<table, tables>>
        BY <2>6 DEF Statement
      <4>2. Sed(t) \in Triples
        BY SedTypes DEF GicsTypes
      <4> QED
        BY <3>1, <4>1, <4>2, StatementSorted, TripleSeparated
    <3>2. CASE End /\ UNCHANGED left
      <4>1. Separated'
        BY <3>2, EndSeparated
      <4>2. UNCHANGED <<read, left, table, tables>>
        BY <2>6, <3>2 DEF End, Statement
      <4>3. Sorted'
        BY <4>2 DEF Sorted
      <4> QED
        BY <4>1, <4>3
    <3> QED
      BY <2>6, <3>1, <3>2 DEF Statement
  <2>7. CASE UNCHANGED gicsVars
    <3>1. UNCHANGED <<read, left, table, tables, printed>>
      BY <2>7 DEF gicsVars, statementVars
    <3> QED
      BY <3>1 DEF Sorted, Separated
  <2> QED
    BY <2>3, <2>4, <2>5, <2>6, <2>7 DEF GicsNext
<1>3. GicsTypes /\ StatementInv /\ I => OneStatement
  <2> SUFFICES ASSUME GicsTypes, StatementInv, I,
                      NEW j \in 1..Len(read), NEW k \in 1..Len(read), j # k, read[j].s = read[k].s
               PROVE  /\ Len(TermsOf(j)) < 3 \/ Len(TermsOf(k)) < 3
                      /\ read[j].p = read[k].p => Len(TermsOf(j)) < 2 \/ Len(TermsOf(k)) < 2
    BY DEF OneStatement
  <2>1. CASE j < k
    BY <2>1, Together
  <2>2. CASE k < j
    BY <2>2, Together
  <2>3. j \in Int /\ k \in Int
    BY LenProperties DEF StatementInv, StatementTypes
  <2> QED
    BY <2>1, <2>2, <2>3
<1> QED
  BY <1>1, <1>2, <1>3, GicsAlways, PTL DEF GicsSpec
-----------------------------------------------------------------------------
(* The classes of GICS.                                                    *)

(* A code that is listed is the last one of its level; a blank cell leaves *)
(* the one before.                                                         *)
LEMMA CodeNext ==
  ASSUME NEW t, NEW k \in Nat \ {0}, NEW l
  PROVE  CodeAt(t, k, l) = IF t.rows[k].code[l] # None THEN t.rows[k].code[l]
                                                     ELSE CodeAt(t, k - 1, l)
<1>1. CASE t.rows[k].code[l] = None
  <2>1. ListedIn(t, k, l) = ListedIn(t, k - 1, l)
    BY <1>1 DEF ListedIn
  <2> QED
    BY <1>1, <2>1 DEF CodeAt
<1>2. CASE t.rows[k].code[l] # None
  <2>1. k \in ListedIn(t, k, l) /\ \A j \in ListedIn(t, k, l) : j \in 1..k
    BY <1>2 DEF ListedIn
  <2>2. LastIn(ListedIn(t, k, l)) = k
    <3> DEFINE ks == ListedIn(t, k, l)
               m == LastIn(ks)
    <3>1. \A i \in ks : i <= k
      BY <2>1
    <3>2. m \in ks /\ \A i \in ks : i <= m
      <4> HIDE DEF ks
      <4>1. k \in ks /\ \A i \in ks : i <= k
        BY <2>1, <3>1 DEF ks
      <4> QED
        BY <4>1 DEF LastIn
    <3> QED
      BY <2>1, <3>1, <3>2
  <2> QED
    BY <1>2, <2>1, <2>2 DEF CodeAt
<1> QED
  BY <1>1, <1>2

\* Above the first row no code is listed.
LEMMA NoneAtFirst == \A t, l : CodeAt(t, 0, l) = None
<1>1. \A t, l : ListedIn(t, 0, l) = {}
  BY DEF ListedIn
<1> QED
  BY <1>1 DEF CodeAt

AllProper == \A i \in DOMAIN tables : Proper(tables[i])

\* Triple t is as Hierarchy wants it.
Placed(t) ==
  /\ t.p = "subClassOf" => t.o = IF Parent[t.s] = None THEN Top ELSE Parent[t.s]
  /\ t.p = "definition" =>
       \E i \in DOMAIN tables : \E k \in DOMAIN tables[i].rows :
         /\ t.o = tables[i].rows[k].name[4] /\ t.lang = tables[i].lang
         /\ tables[i].rows[k].code[4] = None /\ CodeAt(tables[i], k, 4) = t.s

\* The codes listed last are those of the rows read of this table.
HierarchyInv ==
  /\ GicsTypes
  /\ AllProper => /\ table <= Len(tables) =>
                       \A l \in 1..4 : last[l] = CodeAt(tables[table], row - 1, l)
                  /\ \A t \in triples : Placed(t)

LEMMA RowPlaces ==
  ASSUME HierarchyInv, Row
  PROVE  HierarchyInv'
<1> DEFINE Cell == [code : [1..4 -> Codes \cup {None}], name : [1..4 -> Names \cup {None}]]
           Table == [lang : Langs, rows : Seq(Cell)]
<1>1. GicsTypes'
  BY RowTypes DEF HierarchyInv
<1>2. PICK t \in Table : t = tables[table]
  <2>1. GicsTypes
    BY DEF HierarchyInv
  <2>2. tables \in Seq(Table)
    BY <2>1, TableAssumption DEF GicsTypes
  <2>3. table \in 1..Len(tables)
    BY <2>1 DEF Row, GicsTypes
  <2> QED
    BY <2>2, <2>3, ElementOfSeq
<1>3. PICK r \in Cell : r = t.rows[row]
  <2>1. t.rows \in Seq(Cell) /\ row \in 1..Len(t.rows)
    BY <1>2 DEF Row, HierarchyInv, GicsTypes
  <2> QED
    BY <2>1, ElementOfSeq
<1>4. /\ triples' = triples \cup Definition(r, t.lang) \cup UNION {ClassTriples(r, l, t.lang) : l \in Listed(r)}
      /\ last' = LastOf(r) /\ row' = row + 1 /\ UNCHANGED <<tables, table>>
      /\ table \in DOMAIN tables /\ row \in DOMAIN t.rows /\ row \in Nat \ {0}
  <2>1. tables \in Seq(Table) /\ t.rows \in Seq(Cell)
    BY <1>2, TableAssumption DEF HierarchyInv, GicsTypes
  <2> QED
    BY <1>2, <1>3, <2>1 DEF Row, HierarchyInv, GicsTypes
<1> SUFFICES ASSUME AllProper
             PROVE  /\ \A l \in 1..4 : last'[l] = CodeAt(t, row, l)
                    /\ \A x \in triples' : Placed(x)'
  <2>1. AllProper' = AllProper /\ row' - 1 = row /\ tables'[table'] = t
    BY <1>2, <1>4 DEF AllProper
  <2> QED
    BY <1>1, <2>1 DEF HierarchyInv
<1>5. Proper(t) /\ \A l \in 1..4 : last[l] = CodeAt(t, row - 1, l)
  BY <1>2, <1>4 DEF AllProper, HierarchyInv, Row
<1>6. \A l \in 1..4 : IsListed(r, l) <=> r.code[l] # None
  BY <1>3, <1>4, <1>5 DEF Proper, IsListed
<1>7. \A l \in 1..4 : LastOf(r)[l] = CodeAt(t, row, l)
  BY <1>3, <1>4, <1>5, <1>6, CodeNext DEF LastOf
<1>8. ASSUME NEW x \in triples' PROVE Placed(x)'
  <2>1. CASE x \in triples
    <3>1. Placed(x)
      BY <2>1 DEF HierarchyInv
    <3>2. tables' = tables
      BY <1>4
    <3> QED
      BY <3>1, <3>2 DEF Placed
  <2>2. CASE x \in Definition(r, t.lang)
    <3>1. /\ r.code[4] = None /\ x.p = "definition" /\ x.s = last[4]
          /\ x.lang = t.lang /\ x.o = r.name[4]
      BY <2>2 DEF Definition
    <3>2. CodeAt(t, row, 4) = last[4]
      BY <1>3, <1>4, <1>5, <3>1, CodeNext
    <3> QED
      BY <1>2, <1>3, <1>4, <3>1, <3>2 DEF Placed
  <2>3. ASSUME NEW l \in Listed(r), x \in ClassTriples(r, l, t.lang) PROVE Placed(x)'
    <3>1. /\ x.s = r.code[l] /\ x.p # "definition"
          /\ x.p = "subClassOf" => x.o = Above(r, l)
      <4> DEFINE Says(p, lg, o) == [s |-> r.code[l], p |-> p, lang |-> lg, o |-> o]
      <4>1. \/ x = Says("a", "", "owl:Class") \/ x = Says("subClassOf", "", Above(r, l))
            \/ x = Says("symbolOf", "", "msci")
            \/ x = Says("label", t.lang, r.name[l]) \/ x = Says("name", t.lang, r.name[l])
        BY <2>3 DEF ClassTriples
      <4>2. CASE x = Says("a", "", "owl:Class")
        BY <4>2
      <4>5. CASE x = Says("symbolOf", "", "msci")
        BY <4>5
      <4>3. CASE x = Says("subClassOf", "", Above(r, l))
        BY <4>3
      <4>4. CASE x = Says("label", t.lang, r.name[l]) \/ x = Says("name", t.lang, r.name[l])
        BY <4>4
      <4> QED
        BY <4>1, <4>2, <4>3, <4>4, <4>5
    <3>2. l \in 1..4 /\ r.code[l] # None
      BY <2>3 DEF Listed, IsListed
    <3>3. /\ Parent[r.code[l]] = None <=> l = 1
          /\ l > 1 => Parent[r.code[l]] = CodeAt(t, row, l - 1)
      BY <1>3, <1>4, <1>5, <3>2 DEF Proper
    <3>4. Above(r, l) = IF Parent[r.code[l]] = None THEN Top ELSE Parent[r.code[l]]
      BY <1>7, <3>2, <3>3 DEF Above
    <3> QED
      BY <3>1, <3>4 DEF Placed
  <2> QED
    BY <1>4, <2>1, <2>2, <2>3
<1> QED
  BY <1>4, <1>7, <1>8

(* Of proper tables, in as many languages as there are, every class gets   *)
(* the one parent its code begins with.                                    *)
THEOREM ClassesPlaced == GicsSpec => []Hierarchy
<1>1. GicsInit => HierarchyInv
  <2> SUFFICES ASSUME GicsInit PROVE HierarchyInv
    OBVIOUS
  <2>1. GicsTypes /\ triples = {} /\ row = 1 /\ \A l \in 1..4 : last[l] = None
    BY DEF GicsInit, GicsTypes
  <2>2. \A t, l : CodeAt(t, 0, l) = None
    BY NoneAtFirst
  <2> QED
    BY <2>1, <2>2 DEF HierarchyInv
<1>2. HierarchyInv /\ [GicsNext]_gicsVars => HierarchyInv'
  <2> SUFFICES ASSUME HierarchyInv, [GicsNext]_gicsVars PROVE HierarchyInv'
    OBVIOUS
  <2>1. CASE NextTable
    <3>1. /\ UNCHANGED <<tables, triples, left>> /\ table' = table + 1 /\ row' - 1 = 0
          /\ \A l \in 1..4 : last'[l] = None
          /\ GicsTypes'
      BY <2>1 DEF NextTable, HierarchyInv, GicsTypes
    <3>2. \A t, l : CodeAt(t, 0, l) = None
      BY NoneAtFirst
    <3>3. AllProper' = AllProper /\ \A t : Placed(t)' = Placed(t)
      BY <3>1 DEF AllProper, Placed
    <3> QED
      BY <3>1, <3>2, <3>3 DEF HierarchyInv
  <2>2. CASE Sort
    <3>1. UNCHANGED <<tables, triples, last, row>> /\ table' > Len(tables) /\ GicsTypes'
      <4>1. Len(tables) \in Nat
        BY TableAssumption DEF HierarchyInv, GicsTypes
      <4> QED
        BY <2>2, <4>1 DEF Sort, HierarchyInv, GicsTypes
    <3>2. ~(table' <= Len(tables'))
      BY <3>1, TableAssumption DEF GicsTypes
    <3>3. AllProper' = AllProper /\ \A t : Placed(t)' = Placed(t)
      BY <3>1 DEF AllProper, Placed
    <3> QED
      BY <3>1, <3>2, <3>3 DEF HierarchyInv
  <2>3. CASE Statement \/ UNCHANGED gicsVars
    <3>1. UNCHANGED <<tables, triples, last, row, table>> /\ left' \subseteq left
      BY <2>3 DEF Statement, gicsVars
    <3>2. AllProper' = AllProper /\ \A t : Placed(t)' = Placed(t)
      BY <3>1 DEF AllProper, Placed
    <3>3. GicsTypes'
      BY <3>1 DEF HierarchyInv, GicsTypes
    <3>4. \A l \in 1..4 : CodeAt(tables[table], row - 1, l)' = CodeAt(tables[table], row - 1, l)
      BY <3>1 DEF CodeAt, ListedIn
    <3> QED
      BY <3>1, <3>2, <3>3, <3>4 DEF HierarchyInv
  <2> QED
    BY <2>1, <2>2, <2>3, RowPlaces DEF GicsNext
<1>3. HierarchyInv => Hierarchy
  BY DEF HierarchyInv, Hierarchy, AllProper, Placed
<1> QED
  BY <1>1, <1>2, <1>3, PTL DEF GicsSpec

-----------------------------------------------------------------------------
(* meld-cfi.                                                               *)

(* Every set of numbers that is not empty has a smallest one.              *)
LEMMA Smallest ==
  ASSUME NEW S, S \subseteq Nat, S # {}
  PROVE  \E j \in S : \A k \in S : j <= k
<1> DEFINE R == OpToRel(<, Nat)
<1>1. \E j \in S : \A k \in S : <<k, j>> \notin R
  <2> HIDE DEF R
  <2> QED
    BY NatLessThanWellFounded, WFMin DEF R
<1>2. \A j, k \in S : <<k, j>> \notin R => j <= k
  BY DEF OpToRel
<1> QED
  BY <1>1, <1>2

\* Places in a line of n columns.
Places(n) == 1..((Width + 1) * n - 1)

(* The first n columns end in front of the n-th tab.                       *)
LEMMA ColumnPlaces ==
  ASSUME NEW n \in Nat \ {0}, NEW j \in 0..(n - 1), NEW i \in 1..Width
  PROVE  (Width + 1) * j + i \in Places(n)
<1>1. Width \in Nat /\ j \in Nat
  BY LineAssumption
<1>2. PICK d \in Nat : n = j + 1 + d
  <2>1. n - 1 - j \in Nat /\ n = j + 1 + (n - 1 - j)
    OBVIOUS
  <2> QED
    BY <2>1
<1>3. (Width + 1) * n = (Width + 1) * j + (Width + 1) + (Width + 1) * d
  BY <1>1, <1>2
<1>4. (Width + 1) * d \in Nat /\ (Width + 1) * j \in Nat
  BY <1>1
<1> QED
  BY <1>1, <1>3, <1>4 DEF Places

(* What is printed for n columns depends on these places alone.            *)
LEMMA PrintedPlaces ==
  ASSUME NEW b, NEW c, NEW n \in Nat \ {0}, \A p \in Places(n) : b[p] = c[p]
  PROVE  Printed(b, n) = Printed(c, n)
<1>1. \A j \in 0..(n - 1) : Column(b, j) = Column(c, j)
  BY ColumnPlaces DEF Column
<1>2. \A i \in 1..Width : b[i] = c[i]
  <2>1. ASSUME NEW i \in 1..Width PROVE b[i] = c[i]
    <3>1. (Width + 1) * 0 + i = i /\ 0 \in 0..(n - 1)
      BY LineAssumption
    <3> QED
      BY <3>1, ColumnPlaces
  <2> QED
    BY <2>1
<1>3. SameCategory(b, n) = SameCategory(c, n)
  BY SMTT(30), <1>1, <1>2, LineAssumption DEF SameCategory
<1>4. ASSUME NEW i \in 1..Width PROVE Letter(b, n, i) = Letter(c, n, i)
  <2>1. Letters(b, n, i) = Letters(c, n, i)
    BY <1>1 DEF Letters
  <2>2. CASE Letters(c, n, i) = {}
    BY <2>1, <2>2 DEF Letter
  <2>3. CASE Letters(c, n, i) # {}
    <3>1. First(Letters(c, n, i)) \in 0..(n - 1)
      <4>1. Letters(c, n, i) \subseteq 0..(n - 1) /\ 0..(n - 1) \subseteq Nat
        BY DEF Letters
      <4>2. First(Letters(c, n, i)) \in Letters(c, n, i)
        BY <2>3, <4>1, Smallest DEF First
      <4> QED
        BY <4>1, <4>2
    <3> QED
      BY <1>1, <2>1, <2>3, <3>1 DEF Letter
  <2> QED
    BY <2>2, <2>3
<1>5. Melded(b, n) = Melded(c, n)
  BY <1>4 DEF Melded
<1> QED
  BY <1>1, <1>3, <1>5 DEF Printed

(* Reading a line of whole columns, all of them are found and no more.     *)
LEMMA ColumnsFound ==
  ASSUME NEW l \in Input, NEW n \in Nat \ {0}, NEW m \in 1..Size,
         IsLine(l, n), Columns(Getline(l), m)
  PROVE  m = n /\ \A p \in Places(n) : Getline(l)[p] = l[p]
<1> DEFINE b == Getline(l)
           At(k) == (Width + 1) * k
<1>1. l \in Seq(Byte) /\ Len(l) \in Nat /\ Len(l) + Width < Size /\ Width \in Nat \ {0} /\ Size \in Nat
  BY LineAssumption
<1>2. /\ \A p \in 1..Len(l) : b[p] = l[p]
      /\ b[Len(l) + 1] = NUL
  BY <1>1 DEF Getline
<1>3. Len(l) = At(n) - 1 \/ (Len(l) = At(n) /\ l[Len(l)] # TAB)
  BY DEF IsLine
<1>4. At(n) \in Nat \ {0}
  BY <1>1
<1>5. b[At(n)] # TAB
  BY <1>1, <1>2, <1>3, <1>4, ByteAssumption
<1>6. \A k \in 1..(n - 1) : b[At(k)] = TAB
  <2>1. ASSUME NEW k \in 1..(n - 1) PROVE b[At(k)] = TAB
    <3>1. k \in 0..(n - 1) /\ At(k) \in Nat \ {0}
      BY <1>1
    <3>2. (Width + 1) * k + 1 \in Places(n)
      <4>1. 1 \in 1..Width
        BY <1>1
      <4> HIDE DEF At
      <4> QED
        BY <3>1, <4>1, ColumnPlaces
    <3>3. At(k) \in 1..Len(l)
      BY <1>3, <1>4, <3>1, <3>2, <1>1 DEF Places
    <3> QED
      BY <1>2, <3>3 DEF IsLine
  <2> QED
    BY <2>1
<1>7. m = n
  <2>1. m \in Nat \ {0} /\ b[At(m)] # TAB /\ \A k \in 1..(m - 1) : b[At(k)] = TAB
    BY DEF Columns
  <2> HIDE DEF b, At
  <2>2. ~(m < n)
    BY <1>6, <2>1
  <2>3. ~(n < m)
    BY <1>5, <2>1
  <2> QED
    BY <2>1, <2>2, <2>3
<1>8. \A p \in Places(n) : p \in 1..Len(l)
  BY <1>1, <1>3, <1>4 DEF Places
<1> QED
  BY <1>2, <1>7, <1>8

Outputs == {Printed(b, n) : b \in [1..Size -> Byte], n \in 1..Size}

\* For a line of whole columns its own bytes are printed.
MeldInv ==
  /\ line \in [1..Size -> Byte] /\ lines \in Seq(Input) /\ out \in Seq(Outputs)
  /\ Len(out) = Len(lines)
  /\ \A k \in 1..Len(lines), n \in Nat \ {0} :
       IsLine(lines[k], n) => out[k] = Printed(lines[k], n)

(* The rest of the lines before is never printed.                          *)
THEOREM OwnBytes == MeldSpec => []MeldInv
<1>1. MeldInit => MeldInv
  <2> SUFFICES ASSUME MeldInit PROVE MeldInv
    OBVIOUS
  <2>1. lines = <<>> /\ out = <<>> /\ 1..Len(lines) = {}
    BY EmptySeq DEF MeldInit
  <2> QED
    BY <2>1, EmptySeq, ByteAssumption, LineAssumption DEF MeldInit, MeldInv
<1>2. MeldInv /\ [Meld]_meldVars => MeldInv'
  <2> SUFFICES ASSUME MeldInv, [Meld]_meldVars PROVE MeldInv'
    OBVIOUS
  <2>1. CASE Meld
    <3>1. PICK l \in Input, m \in 1..Size :
            /\ lines' = Append(lines, l) /\ line' = Getline(l)
            /\ Columns(line', m) /\ out' = Append(out, Printed(line', m))
      BY <2>1 DEF Meld
    <3>2. line' \in [1..Size -> Byte]
      <4>1. l \in Seq(Byte) /\ NUL \in Byte
        BY LineAssumption, ByteAssumption
      <4>2. \A i \in 1..Size : Getline(l)[i] \in Byte
        BY <4>1, ElementOfSeq DEF Getline, MeldInv
      <4> QED
        BY <3>1, <4>2 DEF Getline
    <3>3. Printed(line', m) \in Outputs
      BY <3>2 DEF Outputs
    <3>4. PICK n \in Nat : n = Len(lines) /\ n = Len(out)
      BY LenProperties DEF MeldInv
    <3>5. /\ lines' \in Seq(Input) /\ Len(lines') = n + 1 /\ lines'[n + 1] = l
          /\ \A k \in 1..n : lines'[k] = lines[k]
      BY <3>1, <3>4, AppendProperties DEF MeldInv
    <3>6. /\ out' \in Seq(Outputs) /\ Len(out') = n + 1 /\ out'[n + 1] = Printed(line', m)
          /\ \A k \in 1..n : out'[k] = out[k]
      BY <3>1, <3>3, <3>4, AppendProperties DEF MeldInv
    <3>7. ASSUME NEW k \in 1..Len(lines'), NEW c \in Nat \ {0}, IsLine(lines'[k], c)
          PROVE  out'[k] = Printed(lines'[k], c)
      <4>1. CASE k = n + 1
        <5>1. m = c /\ \A p \in Places(c) : Getline(l)[p] = l[p]
          BY <3>1, <3>5, <3>7, <4>1, ColumnsFound
        <5>2. Printed(Getline(l), c) = Printed(l, c)
          BY <5>1, PrintedPlaces
        <5> QED
          BY <3>1, <3>5, <3>6, <4>1, <5>1, <5>2
      <4>2. CASE k \in 1..n
        BY <3>4, <3>5, <3>6, <3>7, <4>2 DEF MeldInv
      <4> QED
        BY <3>5, <4>1, <4>2
    <3> QED
      BY <3>2, <3>5, <3>6, <3>7 DEF MeldInv
  <2>2. CASE UNCHANGED meldVars
    BY <2>2 DEF meldVars, MeldInv
  <2> QED
    BY <2>1, <2>2
<1> QED
  BY <1>1, <1>2, PTL DEF MeldSpec

(* A line of whole columns gives the same wherever it stands.              *)
THEOREM SameLineSameClass == MeldSpec => []OwnLine
<1>1. MeldInv => OwnLine
  <2>1. 1..Size \subseteq Nat \ {0}
    BY LineAssumption
  <2> QED
    BY <2>1 DEF MeldInv, OwnLine
<1> QED
  BY <1>1, OwnBytes, PTL

(* What is printed for classes that do not contradict each other is below  *)
(* all of them and says no more.                                           *)
LEMMA PrintedIsMeet ==
  ASSUME NEW l, NEW n \in Nat \ {0}, Compatible(Classes(l, n))
  PROVE  /\ Printed(l, n) # Nothing
         /\ \A c \in Classes(l, n) : Below(Printed(l, n).class, c)
         /\ \A i \in 1..Width : \/ Printed(l, n).class[i] = "X"
                                \/ \E c \in Classes(l, n) : Printed(l, n).class[i] = c[i]
<1> DEFINE C(j) == Column(l, j)
<1>1. \A j \in 0..(n - 1) : C(j) \in Classes(l, n)
  BY DEF Classes
<1>2. \A j, k \in 0..(n - 1), i \in 1..Width :
        C(j)[i] \in Printing /\ (C(j)[i] = C(k)[i] \/ (i > Category /\ "X" \in {C(j)[i], C(k)[i]}))
  BY <1>1 DEF Compatible
<1>3. SameCategory(l, n)
  <2> SUFFICES ASSUME NEW j \in 0..(n - 1), NEW i \in 1..Category PROVE C(j)[i] = l[i]
    BY DEF SameCategory
  <2>1. i \in 1..Width /\ ~(i > Category) /\ (Width + 1) * 0 + i = i /\ 0 \in 0..(n - 1)
    BY LineAssumption
  <2>2. C(0)[i] = l[i]
    BY <2>1 DEF Column
  <2> QED
    BY <1>2, <2>1, <2>2
<1>4. Printed(l, n).class = Melded(l, n) /\ Printed(l, n) = [class |-> Melded(l, n), of |-> [j \in 1..n |-> Column(l, j - 1)]]
  BY <1>3 DEF Printed
<1>5. Printed(l, n) # Nothing
  <2>1. DOMAIN Melded(l, n) = 1..Width /\ 1 \in 1..Width /\ DOMAIN <<>> = {}
    BY LineAssumption, EmptySeq DEF Melded
  <2>2. Melded(l, n) # <<>>
    BY <2>1
  <2> QED
    BY <1>4, <2>2 DEF Nothing
<1>6. ASSUME NEW i \in 1..Width
      PROVE  /\ \A j \in 0..(n - 1) : C(j)[i] \in {"X", Melded(l, n)[i]}
             /\ Melded(l, n)[i] = "X" \/ \E j \in 0..(n - 1) : Melded(l, n)[i] = C(j)[i]
  <2>1. CASE Letters(l, n, i) = {}
    <3>1. Letter(l, n, i) = "X" /\ \A j \in 0..(n - 1) : C(j)[i] = "X"
      BY <2>1 DEF Letter, Letters
    <3> QED
      BY <3>1, ByteAssumption DEF Melded
  <2>2. CASE Letters(l, n, i) # {}
    <3>1. Letters(l, n, i) \subseteq 0..(n - 1) /\ 0..(n - 1) \subseteq Nat
      BY DEF Letters
    <3>2. PICK f \in Letters(l, n, i) : f = First(Letters(l, n, i))
      BY <2>2, <3>1, Smallest DEF First
    <3>3. f \in 0..(n - 1) /\ C(f)[i] # "X" /\ Letter(l, n, i) = C(f)[i]
      BY <2>2, <3>2 DEF Letters, Letter
    <3>4. Melded(l, n)[i] = C(f)[i]
      BY <1>2, <3>3 DEF Melded
    <3> QED
      BY <1>2, <3>3, <3>4
  <2> QED
    BY <2>1, <2>2
<1>7. \A c \in Classes(l, n) : Below(Melded(l, n), c)
  BY <1>6 DEF Classes, Below
<1>8. \A i \in 1..Width : \/ Melded(l, n)[i] = "X"
                         \/ \E c \in Classes(l, n) : Melded(l, n)[i] = c[i]
  BY <1>1, <1>6
<1> QED
  BY <1>4, <1>5, <1>7, <1>8

THEOREM ClassIsMeet == MeldSpec => []MeldIsMeet
<1>1. MeldInv => MeldIsMeet
  <2> SUFFICES ASSUME MeldInv, NEW k \in 1..Len(lines), NEW n \in 1..Size,
                      IsLine(lines[k], n), Compatible(Classes(lines[k], n))
               PROVE  /\ out[k] # Nothing
                      /\ \A c \in Classes(lines[k], n) : Below(out[k].class, c)
                      /\ \A i \in 1..Width : \/ out[k].class[i] = "X"
                                             \/ \E c \in Classes(lines[k], n) : out[k].class[i] = c[i]
    BY DEF MeldIsMeet
  <2>1. n \in Nat \ {0} /\ out[k] = Printed(lines[k], n)
    BY LineAssumption DEF MeldInv
  <2> QED
    BY <2>1, PrintedIsMeet
<1> QED
  BY <1>1, OwnBytes, PTL

-----------------------------------------------------------------------------
(* yuck's line reader.  What its static variables may be.                  *)
Call == [what : {"umbrella", "command", "option", "paragraph", "setopt"},
         at : Nat, of : Nat, lines : Seq(Nat)]
Statics == [st : {"UNKNOWN", "SET_UMBCMD", "SET_OPTION", "SET_INTER"},
            usg : Nat, cmd : BOOLEAN, umb : BOOLEAN, desc : Seq(Nat), cur_usg_yldd_p : BOOLEAN,
            opt : Nat, said : BOOLEAN, text : Seq(Nat), cut : BOOLEAN,
            inter : Seq(Nat), printed : Seq(Call)]

\* One thing is held at most.
Quiet(r)     == r.opt = 0 /\ ~r.said /\ r.inter = <<>>
InUsage(r)   == Quiet(r) /\ r.umb /\ ~r.cur_usg_yldd_p /\ r.st \in {"UNKNOWN", "SET_UMBCMD"}
InOption(r)  == /\ r.opt # 0 /\ r.inter = <<>> /\ r.cur_usg_yldd_p /\ r.desc = <<>>
                /\ ~r.cut /\ (~r.said => r.text = <<>>) /\ r.st = "SET_OPTION"
InInter(r)   == /\ r.opt = 0 /\ ~r.said /\ r.inter # <<>> /\ r.cur_usg_yldd_p /\ r.desc = <<>>
                /\ r.st = "SET_INTER"
InBetween(r) == /\ Quiet(r) /\ (r.umb => r.cur_usg_yldd_p) /\ r.desc = <<>>
                /\ r.st \in {"UNKNOWN", "SET_UMBCMD"}

UsageItem(r)  == Item(IF r.cmd THEN "command" ELSE "umbrella", r.usg, 0, r.desc)
OptionItem(r) == Item("option", r.opt, CommandOf(calls), r.text)
InterItem(r)  == Item("paragraph", r.inter[1], 0, r.inter)
SetoptItem    == Item("setopt", here, 0, <<>>)

LEMMA ItemIs == \A what, at, of, by : Item(what, at, of, by) =
                  [what |-> what, at |-> at, of |-> of, lines |-> by]
BY DEF Item, Doc!Item

LEMMA LineKinds ==
  /\ Usages = {"umbrella", "command"}
  /\ Kinds = {"umbrella", "command", "option", "bare", "short", "deep", "text", "prose",
              "blank", "setopt", "comment"}
BY DEF Usages, Kinds, Doc!Usages, Doc!Kinds, Doc!Options

-----------------------------------------------------------------------------
(* What the functions give, each in a case that occurs.                    *)

LEMMA YieldedIs ==
  ASSUME NEW r \in Statics
  PROVE  /\ r.cur_usg_yldd_p => Yielded(r) = r
         /\ ~r.cur_usg_yldd_p /\ ~r.umb =>
              Yielded(r) = [r EXCEPT !.cmd = FALSE, !.desc = <<>>, !.cur_usg_yldd_p = TRUE]
         /\ ~r.cur_usg_yldd_p /\ r.umb /\ r.printed = <<>> =>
              Yielded(r) = [r EXCEPT !.printed = <<UsageItem(r)>>, !.cmd = FALSE, !.desc = <<>>,
                                     !.cur_usg_yldd_p = TRUE]
<1>1. Append(<<>>, UsageItem(r)) = <<UsageItem(r)>>
  OBVIOUS
<1>2. ~r.cur_usg_yldd_p /\ r.umb => yield_usg(r) = [r EXCEPT !.printed = Append(@, UsageItem(r))]
  BY DEF yield_usg, Output, UsageItem
<1>3. ~r.umb => yield_usg(r) = r
  BY DEF yield_usg
<1> HIDE DEF UsageItem
<1> QED
  BY <1>1, <1>2, <1>3 DEF Yielded, Statics

LEMMA ClosedIs ==
  ASSUME NEW r \in Statics, calls \in Seq(Call)
  PROVE  /\ r.opt = 0 => Closed(r) = r
         /\ InOption(r) /\ r.printed = <<>> =>
              Closed(r) = [r EXCEPT !.printed = <<OptionItem(r)>>, !.cut = r.said,
                                    !.opt = 0, !.said = FALSE]
<1>1. r.opt = 0 => Closed(r) = r
  BY DEF Closed
<1>2. ASSUME InOption(r), r.printed = <<>>
      PROVE  Closed(r) = [r EXCEPT !.printed = <<OptionItem(r)>>, !.cut = r.said,
                                   !.opt = 0, !.said = FALSE]
  <2>1. CommandOf(calls \o r.printed) = CommandOf(calls)
    BY <1>2, ConcatEmptySeq
  <2>2. (IF r.said THEN r.text ELSE <<>>) = r.text
    BY <1>2 DEF InOption
  <2>3. Append(<<>>, OptionItem(r)) = <<OptionItem(r)>>
    OBVIOUS
  <2>4. yield_opt(r) = [Output(r, OptionItem(r)) EXCEPT !.cut = @ \/ r.said]
    BY <2>1, <2>2 DEF yield_opt, OptionItem
  <2> HIDE DEF OptionItem
  <2>5. Output(r, OptionItem(r)) = [r EXCEPT !.printed = <<OptionItem(r)>>]
    BY <1>2, <2>3 DEF Output
  <2>6. yield_opt(r) = [r EXCEPT !.printed = <<OptionItem(r)>>, !.cut = r.said]
    BY <1>2, <2>4, <2>5 DEF InOption, Statics
  <2> QED
    BY <1>2, <2>6 DEF Closed, InOption, Statics
<1> QED
  BY <1>1, <1>2

LEMMA InterIs ==
  ASSUME NEW r \in Statics
  PROVE  /\ r.inter = <<>> => yield_inter(r) = r
         /\ r.inter # <<>> /\ r.printed = <<>> =>
              yield_inter(r) = [r EXCEPT !.printed = <<InterItem(r)>>, !.inter = <<>>]
<1>1. Append(<<>>, InterItem(r)) = <<InterItem(r)>>
  OBVIOUS
<1>2. r.inter # <<>> => yield_inter(r) = [Output(r, InterItem(r)) EXCEPT !.inter = <<>>]
  BY DEF yield_inter, InterItem
<1> HIDE DEF InterItem
<1> QED
  BY <1>1, <1>2 DEF yield_inter, Output, Statics

LEMMA TriesInter ==
  ASSUME NEW r \in Statics
  PROVE  /\ \A l : l \notin {"blank", NULL, "setopt"} =>
              TryInter(r, l) = [r EXCEPT !.inter = Append(@, here), !.st = "SET_INTER"]
         /\ \A l \in {"blank", NULL} : TryInter(r, l) = [yield_inter(r) EXCEPT !.st = "UNKNOWN"]
         /\ TryInter(r, "setopt") =
              [r EXCEPT !.printed = Append(@, SetoptItem), !.st = "UNKNOWN"]
<1>1. ASSUME NEW l, l \notin {"blank", NULL, "setopt"}
      PROVE  TryInter(r, l) = [r EXCEPT !.inter = Append(@, here), !.st = "SET_INTER"]
  BY <1>1 DEF TryInter, interp, Yes, No, To
<1>2. ASSUME NEW l \in {"blank", NULL}
      PROVE  TryInter(r, l) = [yield_inter(r) EXCEPT !.st = "UNKNOWN"]
  <2>1. interp(r, l) = No(yield_inter(r))
    BY DEF interp, NULL
  <2>2. setoptp(yield_inter(r), l) = No(yield_inter(r))
    BY DEF setoptp, NULL
  <2> QED
    BY <2>1, <2>2 DEF TryInter, No, To
<1>3. TryInter(r, "setopt") = [r EXCEPT !.printed = Append(@, SetoptItem), !.st = "UNKNOWN"]
  BY DEF TryInter, interp, setoptp, Output, Yes, No, To, NULL, SetoptItem
<1> QED
  BY <1>1, <1>2, <1>3

LEMMA TriesOption ==
  ASSUME NEW r \in Statics, r.opt = 0
  PROVE  /\ TryOption(r, "short") = [r EXCEPT !.opt = here, !.st = "SET_OPTION"]
         /\ TryOption(r, "bare") =
              [r EXCEPT !.opt = here, !.text = <<>>, !.cut = FALSE, !.st = "SET_OPTION"]
         /\ \A l \in {"option", "deep"} : TryOption(r, l) =
              [r EXCEPT !.opt = here, !.text = <<here>>, !.cut = FALSE, !.said = TRUE,
                        !.st = "SET_OPTION"]
         /\ \A l : l \notin {"short", "bare", "option", "deep"} => TryOption(r, l) = TryInter(r, l)
<1>1. Closed(r) = r /\ \A l : ~Describes(r, l)
  BY DEF Closed, Describes
<1>2. Append(<<>>, here) = <<here>>
  OBVIOUS
<1>3. TryOption(r, "short") = [r EXCEPT !.opt = here, !.st = "SET_OPTION"]
  BY <1>1 DEF TryOption, optionp, Yes, To
<1>4. TryOption(r, "bare") =
        [r EXCEPT !.opt = here, !.text = <<>>, !.cut = FALSE, !.st = "SET_OPTION"]
  BY <1>1 DEF TryOption, optionp, Yes, To, Anew
<1>5. ASSUME NEW l \in {"option", "deep"}
      PROVE  TryOption(r, l) = [r EXCEPT !.opt = here, !.text = <<here>>, !.cut = FALSE,
                                         !.said = TRUE, !.st = "SET_OPTION"]
  <2>1. optionp(r, l) = Yes(Cat(Anew([r EXCEPT !.opt = here])))
    BY <1>1 DEF optionp
  <2>2. Cat(Anew([r EXCEPT !.opt = here])) =
          [r EXCEPT !.opt = here, !.text = <<here>>, !.cut = FALSE, !.said = TRUE]
    BY <1>2 DEF Cat, Anew, Statics
  <2>3. ASSUME NEW c, optionp(r, l) = Yes(c) PROVE TryOption(r, l) = [c EXCEPT !.st = "SET_OPTION"]
    BY <2>3 DEF TryOption, Yes, To
  <2>4. TryOption(r, l) = [Cat(Anew([r EXCEPT !.opt = here])) EXCEPT !.st = "SET_OPTION"]
    BY <2>1, <2>3
  <2> QED
    BY <2>2, <2>4 DEF Statics
<1>6. ASSUME NEW l, l \notin {"short", "bare", "option", "deep"}
      PROVE  TryOption(r, l) = TryInter(r, l)
  <2>1. optionp(r, l) = No(r)
    BY <1>1, <1>6 DEF optionp
  <2> QED
    BY <2>1 DEF TryOption, No
<1> QED
  BY <1>3, <1>4, <1>5, <1>6

LEMMA TriesUsage ==
  ASSUME NEW r \in Statics
  PROVE  /\ \A l \in Usages : TryUsage(r, l) = [Snarfed(Yielded(r), l) EXCEPT !.st = "SET_UMBCMD"]
         /\ TryUsage(r, "setopt") = TryOption(r, "setopt")
         /\ TryUsage(r, "blank") = IF r.desc = <<>> THEN [r EXCEPT !.st = "SET_UMBCMD"]
                                   ELSE TryOption(Yielded(r), "blank")
         /\ TryUsage(r, "text") = IF r.cur_usg_yldd_p THEN TryOption(Yielded(r), "text")
                                  ELSE [r EXCEPT !.desc = Append(@, here), !.st = "SET_UMBCMD"]
         /\ \A l : l \notin {"umbrella", "command", "setopt", "blank", "text"} =>
              TryUsage(r, l) = TryOption(Yielded(r), l)
<1>1. ASSUME NEW l \in Usages
      PROVE  TryUsage(r, l) = [Snarfed(Yielded(r), l) EXCEPT !.st = "SET_UMBCMD"]
  BY LineKinds DEF TryUsage, usagep, Yes, To
<1>2. TryUsage(r, "setopt") = TryOption(r, "setopt")
  BY LineKinds DEF TryUsage, usagep, No
<1>3. TryUsage(r, "blank") = IF r.desc = <<>> THEN [r EXCEPT !.st = "SET_UMBCMD"]
                             ELSE TryOption(Yielded(r), "blank")
  BY LineKinds DEF TryUsage, usagep, Yes, No, To
<1>4. TryUsage(r, "text") = IF r.cur_usg_yldd_p THEN TryOption(Yielded(r), "text")
                            ELSE [r EXCEPT !.desc = Append(@, here), !.st = "SET_UMBCMD"]
  BY LineKinds DEF TryUsage, usagep, Yes, No, To
<1>5. ASSUME NEW l, l \notin {"umbrella", "command", "setopt", "blank", "text"}
      PROVE  TryUsage(r, l) = TryOption(Yielded(r), l)
  BY <1>5, LineKinds DEF TryUsage, usagep, No
<1> QED
  BY <1>1, <1>2, <1>3, <1>4, <1>5

-----------------------------------------------------------------------------
(* What is held is printed when something else begins.                     *)

HeldOf(r) == IF InUsage(r) THEN <<UsageItem(r)>>
             ELSE IF InOption(r) THEN <<OptionItem(r)>>
             ELSE IF InInter(r) THEN <<InterItem(r)>>
             ELSE <<>>
Unsaid(r) == r.text = <<>> /\ ~r.cut /\ ~r.said
Open(r)   == InBetween(r) \/ InUsage(r) \/ InOption(r)
Left(r)   == Yielded(Closed(r))

LEMMA ItemTypes ==
  ASSUME NEW r \in Statics, CommandOf(calls) \in Nat
  PROVE  UsageItem(r) \in Call /\ OptionItem(r) \in Call /\ (r.inter # <<>> => InterItem(r) \in Call)
<1>1. r.inter # <<>> => r.inter[1] \in Nat
  <2>1. r.inter \in Seq(Nat)
    BY DEF Statics
  <2>2. r.inter # <<>> => Len(r.inter) \in Nat \ {0}
    BY <2>1, EmptySeq, LenProperties
  <2> QED
    BY <2>1, <2>2, ElementOfSeq
<1> QED
  BY <1>1, ItemIs DEF UsageItem, OptionItem, InterItem, Call, Statics

LEMMA SetoptCall ==
  ASSUME here \in Nat
  PROVE  SetoptItem \in Call /\ SetoptItem.what = "setopt"
<1>1. <<>> \in Seq(Nat)
  OBVIOUS
<1>2. SetoptItem = [what |-> "setopt", at |-> here, of |-> 0, lines |-> <<>>]
  BY ItemIs DEF SetoptItem
<1> HIDE DEF SetoptItem
<1> QED
  BY <1>1, <1>2 DEF Call

LEMMA LeftIs ==
  ASSUME NEW r \in Statics, calls \in Seq(Call), CommandOf(calls) \in Nat, Open(r), r.printed = <<>>
  PROVE  LET q == Left(r)
         IN  /\ q \in Statics /\ Quiet(q) /\ q.cur_usg_yldd_p /\ q.desc = <<>>
             /\ q.umb = r.umb /\ q.printed = HeldOf(r) /\ (Unsaid(r) => Unsaid(q))
             /\ q.st = r.st
<1>1. CASE InBetween(r)
  <2>1. Left(r) = Yielded(r) /\ HeldOf(r) = <<>>
    BY <1>1, ClosedIs DEF Left, HeldOf, InBetween, InUsage, InOption, InInter, Quiet
  <2> DEFINE q == Left(r)
  <2>2. \/ q = r /\ r.cur_usg_yldd_p
        \/ q = [r EXCEPT !.cmd = FALSE, !.desc = <<>>, !.cur_usg_yldd_p = TRUE]
    BY <1>1, <2>1, YieldedIs DEF InBetween
  <2> HIDE DEF q
  <2>3. q \in Statics /\ q.cur_usg_yldd_p /\ q.desc = <<>> /\ q.umb = r.umb /\ q.st = r.st
    <3>1. <<>> \in Seq(Nat)
      OBVIOUS
    <3>2. CASE q = r /\ r.cur_usg_yldd_p
      BY <1>1, <3>2 DEF InBetween
    <3>3. CASE q = [r EXCEPT !.cmd = FALSE, !.desc = <<>>, !.cur_usg_yldd_p = TRUE]
      BY <3>1, <3>3 DEF Statics
    <3> QED
      BY <2>2, <3>2, <3>3
  <2>4. /\ q.opt = r.opt /\ q.said = r.said /\ q.inter = r.inter
        /\ q.text = r.text /\ q.cut = r.cut /\ q.printed = r.printed
    BY <2>2 DEF Statics
  <2> HIDE DEF q
  <2> QED
    BY <1>1, <2>1, <2>3, <2>4 DEF InBetween, Quiet, Unsaid, q
<1>2. CASE InUsage(r)
  <2>1. Left(r) = Yielded(r) /\ HeldOf(r) = <<UsageItem(r)>>
    BY <1>2, ClosedIs DEF Left, HeldOf, InUsage, Quiet
  <2>2. Yielded(r) = [r EXCEPT !.printed = <<UsageItem(r)>>, !.cmd = FALSE, !.desc = <<>>,
                               !.cur_usg_yldd_p = TRUE]
    BY <1>2, YieldedIs DEF InUsage
  <2>3. <<UsageItem(r)>> \in Seq(Call)
    BY ItemTypes
  <2> HIDE DEF UsageItem
  <2> DEFINE p == <<UsageItem(r)>>
  <2> HIDE DEF p
  <2>4. p \in Seq(Call) /\ <<>> \in Seq(Nat)
    BY <2>3 DEF p
  <2>5. [r EXCEPT !.printed = p, !.cmd = FALSE, !.desc = <<>>, !.cur_usg_yldd_p = TRUE] \in Statics
    BY <2>4 DEF Statics
  <2>6. Left(r) = [r EXCEPT !.printed = p, !.cmd = FALSE, !.desc = <<>>, !.cur_usg_yldd_p = TRUE]
    BY <2>1, <2>2 DEF p
  <2> DEFINE q == Left(r)
  <2>7. q.printed = p /\ q.cur_usg_yldd_p /\ q.desc = <<>> /\ q.umb = r.umb /\ q.st = r.st
    BY <2>6 DEF Statics
  <2>8. q.opt = r.opt /\ q.said = r.said /\ q.inter = r.inter /\ q.text = r.text /\ q.cut = r.cut
    BY <2>6 DEF Statics
  <2>9. q \in Statics
    BY <2>5, <2>6
  <2>10. p = HeldOf(r)
    BY <2>1 DEF p
  <2> HIDE DEF q
  <2> QED
    BY <1>2, <2>7, <2>8, <2>9, <2>10 DEF InUsage, Quiet, Unsaid, q
<1>3. CASE InOption(r)
  <2>1. HeldOf(r) = <<OptionItem(r)>>
    BY <1>3 DEF HeldOf, InOption, InUsage, Quiet
  <2>2. Closed(r) = [r EXCEPT !.printed = <<OptionItem(r)>>, !.cut = r.said, !.opt = 0, !.said = FALSE]
    BY <1>3, ClosedIs
  <2>3. <<OptionItem(r)>> \in Seq(Call)
    BY ItemTypes
  <2> DEFINE p == <<OptionItem(r)>>
             q == Left(r)
  <2> HIDE DEF p, OptionItem
  <2>4. p \in Seq(Call) /\ Closed(r) = [r EXCEPT !.printed = p, !.cut = r.said, !.opt = 0, !.said = FALSE]
    BY <2>2, <2>3 DEF p
  <2> DEFINE k == Closed(r)
  <2> HIDE DEF k
  <2>9. k = [r EXCEPT !.printed = p, !.cut = r.said, !.opt = 0, !.said = FALSE]
    BY <2>4 DEF k
  <2>5. k \in Statics /\ k.printed = p /\ k.cut = r.said /\ k.opt = 0 /\ ~k.said
    BY <2>4, <2>9 DEF Statics
  <2>6. /\ k.cur_usg_yldd_p = r.cur_usg_yldd_p /\ k.desc = r.desc /\ k.umb = r.umb /\ k.st = r.st
        /\ k.inter = r.inter /\ k.text = r.text
    BY <2>9 DEF Statics
  <2>7. q = k
    BY <1>3, <2>5, <2>6, YieldedIs DEF Left, InOption, k
  <2>8. p = HeldOf(r)
    BY <2>1 DEF p
  <2> HIDE DEF q
  <2> QED
    BY <1>3, <2>5, <2>6, <2>7, <2>8 DEF InOption, Quiet, Unsaid, q
<1> QED
  BY <1>1, <1>2, <1>3 DEF Open

\* The lines that end what has been open.
Ends(r, l) == \/ l \in {"option", "bare", "short", NULL}
              \/ l \in {"deep", "prose"} /\ ~InOption(r)
              \/ l = "text" /\ r.cur_usg_yldd_p

LEMMA Leaves ==
  ASSUME NEW r \in Statics, calls \in Seq(Call), CommandOf(calls) \in Nat, Open(r), r.printed = <<>>
  PROVE  /\ \A l : Ends(r, l) => snarf_ln(r, l) = TryOption(Left(r), l)
         /\ \A l \in Usages : snarf_ln(r, l) = [Snarfed(Left(r), l) EXCEPT !.st = "SET_UMBCMD"]
<1>1. CASE InBetween(r) \/ InUsage(r)
  <2>1. /\ Closed(r) = r /\ ~InOption(r)
        /\ \A l : snarf_ln(r, l) = TryUsage(r, l)
    BY <1>1, ClosedIs DEF InBetween, InUsage, InOption, Quiet, snarf_ln
  <2> DEFINE q == Left(r)
  <2>5. q = Yielded(r)
    BY <2>1 DEF Left
  <2> HIDE DEF q
  <2>2. \A l \in Usages : TryUsage(r, l) = [Snarfed(q, l) EXCEPT !.st = "SET_UMBCMD"]
    BY <2>5, TriesUsage
  <2>3. ASSUME NEW l, Ends(r, l) PROVE TryUsage(r, l) = TryOption(q, l)
    <3>1. CASE l = "text"
      BY <2>3, <2>5, <3>1, TriesUsage DEF Ends, NULL
    <3>2. CASE l # "text"
      <4>1. l \notin {"umbrella", "command", "setopt", "blank", "text"}
        BY <2>3, <3>2 DEF Ends, NULL
      <4> QED
        BY <2>5, <4>1, TriesUsage
    <3> QED
      BY <3>1, <3>2
  <2> QED
    BY <2>1, <2>2, <2>3 DEF q
<1>2. CASE InOption(r)
  <2>1. \A l : snarf_ln(r, l) = InOptions(r, l)
    BY <1>2 DEF InOption, snarf_ln
  <2>2. Closed(r) \in Statics /\ Closed(r).cur_usg_yldd_p /\ Left(r) = Closed(r) /\ Closed(r).opt = 0
    <3>1. Closed(r) = [r EXCEPT !.printed = <<OptionItem(r)>>, !.cut = r.said, !.opt = 0, !.said = FALSE]
      BY <1>2, ClosedIs
    <3>2. <<OptionItem(r)>> \in Seq(Call)
      BY ItemTypes
    <3> DEFINE p == <<OptionItem(r)>>
               k == Closed(r)
    <3> HIDE DEF p, k
    <3>4. p \in Seq(Call) /\ k = [r EXCEPT !.printed = p, !.cut = r.said, !.opt = 0, !.said = FALSE]
      BY <3>1, <3>2 DEF p, k
    <3>5. k \in Statics /\ k.opt = 0
      BY <3>4 DEF Statics
    <3>3. k.cur_usg_yldd_p
      BY <1>2, <3>4 DEF InOption, Statics
    <3> QED
      BY <3>3, <3>5, YieldedIs DEF Left, k
  <2>3. ASSUME NEW l, l \notin {"prose", "deep", "blank", "option", "bare", "short"}
        PROVE  snarf_ln(r, l) = TryUsage(Left(r), l)
    <3>1. optionp(r, l) = No(Closed(r))
      BY <2>3 DEF optionp, Describes
    <3> QED
      BY <2>1, <2>2, <3>1 DEF InOptions, No
  <2>4. \A l \in Usages : snarf_ln(r, l) = [Snarfed(Left(r), l) EXCEPT !.st = "SET_UMBCMD"]
    <3>1. Yielded(Left(r)) = Left(r)
      BY <2>2, YieldedIs
    <3>2. \A l \in Usages : snarf_ln(r, l) = TryUsage(Left(r), l)
      BY <2>3, LineKinds
    <3>3. \A l \in Usages : TryUsage(Left(r), l) = [Snarfed(Yielded(Left(r)), l) EXCEPT !.st = "SET_UMBCMD"]
      BY <2>2, TriesUsage
    <3> QED
      BY <3>1, <3>2, <3>3
  <2>5. ASSUME NEW l \in {"text", NULL} PROVE snarf_ln(r, l) = TryOption(Left(r), l)
    <3>1. Yielded(Left(r)) = Left(r) /\ Left(r) \in Statics /\ Left(r).cur_usg_yldd_p
      BY <2>2, YieldedIs
    <3>2. snarf_ln(r, l) = TryUsage(Left(r), l)
      BY <2>3 DEF NULL
    <3> DEFINE k == Left(r)
    <3> HIDE DEF k
    <3>3. k \in Statics /\ k.cur_usg_yldd_p
      BY <3>1 DEF k
    <3>4. TryUsage(k, l) = TryOption(Yielded(k), l)
      BY <3>3, TriesUsage DEF NULL
    <3> QED
      BY <3>1, <3>2, <3>4 DEF k
  <2>6. ASSUME NEW l \in {"option", "bare", "short"} PROVE snarf_ln(r, l) = TryOption(Left(r), l)
    <3> DEFINE k   == Closed(r)
               new == [k EXCEPT !.opt = here]
               y   == CASE l = "short" -> new [] l = "bare" -> Anew(new) [] OTHER -> Cat(Anew(new))
    <3>1. optionp(r, l) = Yes(y)
      BY DEF optionp, Describes
    <3>2. optionp(k, l) = Yes(y)
      <4>1. Closed(k) = k
        BY <2>2 DEF Closed
      <4> HIDE DEF k
      <4> QED
        BY <4>1 DEF optionp, Describes
    <3>3. k \in Statics /\ k.st = "SET_OPTION"
      <4>1. k.st = r.st
        <5>1. k = [r EXCEPT !.printed = <<OptionItem(r)>>, !.cut = r.said, !.opt = 0, !.said = FALSE]
          BY <1>2, ClosedIs
        <5> HIDE DEF k, OptionItem
        <5> QED
          BY <5>1 DEF Statics
      <4> QED
        BY <1>2, <2>2, <4>1 DEF InOption
    <3> HIDE DEF k
    <3>4. [y EXCEPT !.st = "SET_OPTION"] = y
      <4>1. \/ y = [k EXCEPT !.opt = here]
            \/ y = [k EXCEPT !.opt = here, !.text = <<>>, !.cut = FALSE]
            \/ y = [k EXCEPT !.opt = here, !.text = Append(<<>>, here), !.cut = FALSE, !.said = TRUE]
        <5>1. Anew(new) = [k EXCEPT !.opt = here, !.text = <<>>, !.cut = FALSE]
          BY <3>3 DEF Anew, Statics
        <5>2. Cat(Anew(new)) = [k EXCEPT !.opt = here, !.text = Append(<<>>, here), !.cut = FALSE, !.said = TRUE]
          BY <3>3, <5>1 DEF Cat, Statics
        <5> QED
          BY <5>1, <5>2
      <4> HIDE DEF y
      <4> QED
        BY ZenonT(60), <3>3, <4>1 DEF Statics
    <3> HIDE DEF y
    <3>5. snarf_ln(r, l) = y /\ TryOption(k, l) = To(y, "SET_OPTION")
      BY <2>1, <3>1, <3>2 DEF InOptions, TryOption, Yes
    <3> QED
      BY <2>2, <3>4, <3>5 DEF To, k
  <2> QED
    BY <1>2, <2>4, <2>5, <2>6 DEF Ends
<1> QED
  BY <1>1, <1>2 DEF Open

-----------------------------------------------------------------------------
(* What a line leaves, by what it is and what has been open.               *)
Ready(r) == /\ r \in Statics /\ r.printed = <<>> /\ calls \in Seq(Call) /\ CommandOf(calls) \in Nat
            /\ here \in Nat \ {0}

LEMMA OpensOption ==
  ASSUME NEW r, Ready(r), Open(r), NEW l \in {"option", "bare", "short", "deep"},
         l = "short" => Unsaid(r), l = "deep" => ~InOption(r)
  PROVE  LET s == snarf_ln(r, l)
         IN  /\ s \in Statics /\ InOption(s) /\ s.printed = HeldOf(r) /\ s.umb = r.umb
             /\ s.opt = here /\ s.text = (IF l \in {"bare", "short"} THEN <<>> ELSE <<here>>)
             /\ l \in {"bare", "short"} /\ Unsaid(r) => Unsaid(s)
<1> DEFINE q == Left(r)
           s == snarf_ln(r, l)
<1>1. /\ q \in Statics /\ Quiet(q) /\ q.cur_usg_yldd_p /\ q.desc = <<>>
      /\ q.umb = r.umb /\ q.printed = HeldOf(r) /\ (Unsaid(r) => Unsaid(q))
  BY LeftIs DEF Ready
<1>2. s = TryOption(q, l)
  BY Leaves DEF Ends, Ready
<1> DEFINE x == <<here>>
<1>3. x \in Seq(Nat) /\ <<>> \in Seq(Nat) /\ here \in Nat \ {0}
  BY DEF Ready
<1>4. /\ l = "short" => s = [q EXCEPT !.opt = here, !.st = "SET_OPTION"]
      /\ l = "bare" => s = [q EXCEPT !.opt = here, !.text = <<>>, !.cut = FALSE, !.st = "SET_OPTION"]
      /\ l \in {"option", "deep"} =>
           s = [q EXCEPT !.opt = here, !.text = x, !.cut = FALSE, !.said = TRUE, !.st = "SET_OPTION"]
  BY <1>1, <1>2, TriesOption DEF Quiet
<1>5. l = "short" => Unsaid(q)
  BY <1>1
<1> HIDE DEF q, s, x
<1>6. CASE l = "short"
  <2>1. s = [q EXCEPT !.opt = here, !.st = "SET_OPTION"]
    BY <1>4, <1>6
  <2>2. s \in Statics /\ s.opt = here /\ s.st = "SET_OPTION"
    BY <1>1, <1>3, <2>1 DEF Statics
  <2>3. /\ s.text = q.text /\ s.cut = q.cut /\ s.said = q.said /\ s.umb = q.umb /\ s.desc = q.desc
        /\ s.inter = q.inter /\ s.printed = q.printed /\ s.cur_usg_yldd_p = q.cur_usg_yldd_p
    BY <1>1, <2>1 DEF Statics
  <2> QED
    BY <1>1, <1>3, <1>5, <1>6, <2>2, <2>3 DEF Quiet, Unsaid, InOption, s
<1>7. CASE l = "bare"
  <2>1. s = [q EXCEPT !.opt = here, !.text = <<>>, !.cut = FALSE, !.st = "SET_OPTION"]
    BY <1>4, <1>7
  <2>2. s \in Statics /\ s.opt = here /\ s.st = "SET_OPTION" /\ s.text = <<>> /\ ~s.cut
    BY <1>1, <1>3, <2>1 DEF Statics
  <2>3. /\ s.said = q.said /\ s.umb = q.umb /\ s.desc = q.desc
        /\ s.inter = q.inter /\ s.printed = q.printed /\ s.cur_usg_yldd_p = q.cur_usg_yldd_p
    BY <1>1, <2>1 DEF Statics
  <2> QED
    BY <1>1, <1>3, <1>7, <2>2, <2>3 DEF Quiet, Unsaid, InOption, s
<1>8. CASE l \in {"option", "deep"}
  <2>1. s = [q EXCEPT !.opt = here, !.text = x, !.cut = FALSE, !.said = TRUE, !.st = "SET_OPTION"]
    BY <1>4, <1>8
  <2>2. s \in Statics /\ s.opt = here /\ s.st = "SET_OPTION" /\ s.text = x /\ ~s.cut /\ s.said
    BY <1>1, <1>3, <2>1 DEF Statics
  <2>3. /\ s.umb = q.umb /\ s.desc = q.desc
        /\ s.inter = q.inter /\ s.printed = q.printed /\ s.cur_usg_yldd_p = q.cur_usg_yldd_p
    BY <1>1, <2>1 DEF Statics
  <2> QED
    BY <1>1, <1>3, <1>8, <2>2, <2>3 DEF Quiet, Unsaid, InOption, s, x
<1> QED
  BY <1>6, <1>7, <1>8

LEMMA OpensUsage ==
  ASSUME NEW r, Ready(r), Open(r), NEW l \in Usages
  PROVE  LET s == snarf_ln(r, l)
         IN  /\ s \in Statics /\ InUsage(s) /\ s.printed = HeldOf(r)
             /\ UsageItem(s) = Item(IF r.umb THEN l ELSE "umbrella", here, 0, <<>>)
             /\ Unsaid(r) => Unsaid(s)
<1> DEFINE q == Left(r)
           s == snarf_ln(r, l)
           b == (l = "command" /\ q.umb)
<1>1. /\ q \in Statics /\ Quiet(q) /\ q.cur_usg_yldd_p /\ q.desc = <<>>
      /\ q.umb = r.umb /\ q.printed = HeldOf(r) /\ (Unsaid(r) => Unsaid(q))
  BY LeftIs DEF Ready
<1>2. s = [Snarfed(q, l) EXCEPT !.st = "SET_UMBCMD"]
  BY Leaves DEF Ready
<1>3. Snarfed(q, l) = [q EXCEPT !.usg = here, !.umb = TRUE, !.cmd = b, !.cur_usg_yldd_p = FALSE]
  BY DEF Snarfed
<1>4. b \in BOOLEAN /\ here \in Nat \ {0}
  BY DEF Ready
<1> HIDE DEF q, s, b
<1>5. s = [q EXCEPT !.usg = here, !.umb = TRUE, !.cmd = b, !.cur_usg_yldd_p = FALSE, !.st = "SET_UMBCMD"]
  BY <1>1, <1>2, <1>3 DEF Statics
<1>6. /\ s \in Statics /\ s.usg = here /\ s.umb /\ s.cmd = b /\ ~s.cur_usg_yldd_p /\ s.st = "SET_UMBCMD"
  BY <1>1, <1>4, <1>5 DEF Statics
<1>7. /\ s.opt = q.opt /\ s.said = q.said /\ s.inter = q.inter /\ s.desc = q.desc
      /\ s.printed = q.printed /\ s.text = q.text /\ s.cut = q.cut
  BY <1>1, <1>5 DEF Statics
<1>8. (IF b THEN "command" ELSE "umbrella") = (IF r.umb THEN l ELSE "umbrella")
  BY <1>1, LineKinds DEF b
<1>9. UsageItem(s) = Item(IF r.umb THEN l ELSE "umbrella", here, 0, <<>>)
  BY <1>1, <1>6, <1>7, <1>8 DEF UsageItem
<1> QED
  BY <1>1, <1>6, <1>7, <1>9 DEF InUsage, Quiet, Unsaid, s

LEMMA OpensInter ==
  ASSUME NEW r, Ready(r), Open(r), NEW l,
         (l = "prose" /\ ~InOption(r)) \/ (l = "text" /\ r.cur_usg_yldd_p)
  PROVE  LET s == snarf_ln(r, l)
         IN  /\ s \in Statics /\ InInter(s) /\ s.printed = HeldOf(r) /\ s.umb = r.umb
             /\ InterItem(s) = Item("paragraph", here, 0, <<here>>)
             /\ Unsaid(r) => Unsaid(s)
<1> DEFINE q == Left(r)
           s == snarf_ln(r, l)
           x == <<here>>
<1>1. /\ q \in Statics /\ Quiet(q) /\ q.cur_usg_yldd_p /\ q.desc = <<>>
      /\ q.umb = r.umb /\ q.printed = HeldOf(r) /\ (Unsaid(r) => Unsaid(q))
  BY LeftIs DEF Ready
<1>2. s = TryOption(q, l)
  BY Leaves DEF Ends, Ready
<1>3. s = TryInter(q, l)
  <2>1. l \notin {"short", "bare", "option", "deep"} /\ q.opt = 0
    BY <1>1 DEF Quiet
  <2> HIDE DEF q, s
  <2> QED
    BY <1>1, <1>2, <2>1, TriesOption
<1>4. s = [q EXCEPT !.inter = Append(@, here), !.st = "SET_INTER"]
  <2>1. l \notin {"blank", NULL, "setopt"}
    BY DEF NULL
  <2> HIDE DEF q, s
  <2> QED
    BY <1>1, <1>3, <2>1, TriesInter
<1>5. x \in Seq(Nat) /\ x # <<>> /\ x[1] = here /\ Append(<<>>, here) = x
  BY DEF Ready
<1> HIDE DEF q, s, x
<1>6. s = [q EXCEPT !.inter = x, !.st = "SET_INTER"]
  BY <1>1, <1>4, <1>5 DEF Quiet
<1>7. s \in Statics /\ s.inter = x /\ s.st = "SET_INTER"
  BY <1>1, <1>5, <1>6 DEF Statics
<1>8. /\ s.opt = q.opt /\ s.said = q.said /\ s.desc = q.desc /\ s.cur_usg_yldd_p = q.cur_usg_yldd_p
      /\ s.umb = q.umb /\ s.printed = q.printed /\ s.text = q.text /\ s.cut = q.cut
  BY <1>1, <1>6 DEF Statics
<1>9. InterItem(s) = Item("paragraph", here, 0, <<here>>)
  BY <1>5, <1>7 DEF InterItem, x
<1> QED
  BY <1>1, <1>5, <1>7, <1>8, <1>9 DEF InInter, Quiet, Unsaid, s

\* The end of a file; so does a blank line close a paragraph.
LEMMA Drains ==
  ASSUME NEW r, Ready(r), NEW l, (l = NULL /\ Open(r)) \/ (l \in {NULL, "blank"} /\ InInter(r))
                                 \/ (l = "blank" /\ InUsage(r) /\ r.desc # <<>>)
  PROVE  LET s == snarf_ln(r, l)
         IN  /\ s \in Statics /\ InBetween(s) /\ s.cur_usg_yldd_p /\ s.printed = HeldOf(r)
             /\ s.umb = r.umb /\ (Unsaid(r) => Unsaid(s))
<1> DEFINE s == snarf_ln(r, l)
<1>1. CASE InInter(r)
  <2>1. s = [yield_inter(r) EXCEPT !.st = "UNKNOWN"]
    BY <1>1, TriesInter DEF snarf_ln, InInter, InUsage, Open, InBetween, InOption, Ready
  <2> DEFINE p == <<InterItem(r)>>
  <2>2. p \in Seq(Call)
    BY <1>1, ItemTypes DEF InInter, Ready
  <2>3. yield_inter(r) = [r EXCEPT !.printed = p, !.inter = <<>>]
    BY <1>1, InterIs DEF InInter, Ready
  <2>4. p = HeldOf(r)
    BY <1>1 DEF HeldOf, InInter, InUsage, InOption, Quiet
  <2> HIDE DEF p, s
  <2>5. s = [r EXCEPT !.printed = p, !.inter = <<>>, !.st = "UNKNOWN"]
    BY <2>1, <2>3 DEF Ready, Statics
  <2>6. s \in Statics /\ s.printed = p /\ s.inter = <<>> /\ s.st = "UNKNOWN"
    <3>1. r \in Statics /\ <<>> \in Seq(Nat)
      BY DEF Ready
    <3> QED
      BY <2>2, <2>5, <3>1 DEF Statics
  <2>7. /\ s.opt = r.opt /\ s.said = r.said /\ s.desc = r.desc /\ s.cur_usg_yldd_p = r.cur_usg_yldd_p
        /\ s.umb = r.umb /\ s.text = r.text /\ s.cut = r.cut
    BY <2>5 DEF Ready, Statics
  <2> QED
    BY <1>1, <2>4, <2>6, <2>7 DEF InInter, InBetween, Quiet, Unsaid, s
<1>2. CASE Open(r)
  <2> DEFINE q == Left(r)
  <2>1. /\ q \in Statics /\ Quiet(q) /\ q.cur_usg_yldd_p /\ q.desc = <<>>
        /\ q.umb = r.umb /\ q.printed = HeldOf(r) /\ (Unsaid(r) => Unsaid(q))
    BY <1>2, LeftIs DEF Ready
  <2>2. s = TryOption(q, l)
    <3>1. CASE l = NULL
      BY <1>2, <3>1, Leaves DEF Ends, Ready
    <3>2. CASE l # NULL
      <4>1. l = "blank" /\ InUsage(r) /\ r.desc # <<>>
        BY <1>2, <3>2 DEF Open, InBetween, InUsage, InOption, InInter, Quiet
      <4>2. q = Yielded(r)
        BY <4>1, ClosedIs DEF Left, Ready, InUsage, Quiet
      <4> HIDE DEF q
      <4>3. s = TryUsage(r, l)
        BY <4>1 DEF snarf_ln, InUsage
      <4> QED
        BY <4>1, <4>2, <4>3, TriesUsage DEF Ready
    <3> QED
      BY <3>1, <3>2
  <2> HIDE DEF q, s
  <2>3. s = [yield_inter(q) EXCEPT !.st = "UNKNOWN"]
    <3>1. l \in {"blank", NULL} /\ l \notin {"short", "bare", "option", "deep"} /\ q.opt = 0
      BY <2>1 DEF NULL, Quiet
    <3>2. TryOption(q, l) = TryInter(q, l)
      BY <2>1, <3>1, TriesOption
    <3>3. TryInter(q, l) = [yield_inter(q) EXCEPT !.st = "UNKNOWN"]
      BY <2>1, <3>1, TriesInter
    <3> QED
      BY <2>2, <3>2, <3>3
  <2>4. s = [q EXCEPT !.st = "UNKNOWN"]
    BY <2>1, <2>3, InterIs DEF Quiet
  <2>5. s \in Statics /\ s.st = "UNKNOWN"
    BY <2>1, <2>4 DEF Statics
  <2>6. /\ s.opt = q.opt /\ s.said = q.said /\ s.desc = q.desc /\ s.cur_usg_yldd_p = q.cur_usg_yldd_p
        /\ s.umb = q.umb /\ s.text = q.text /\ s.cut = q.cut /\ s.printed = q.printed /\ s.inter = q.inter
    BY <2>1, <2>4 DEF Statics
  <2> QED
    BY <2>1, <2>5, <2>6 DEF InBetween, Quiet, Unsaid, s
<1> QED
  BY <1>1, <1>2 DEF Open

\* Blank lines elsewhere.
LEMMA Blanks ==
  ASSUME NEW r, Ready(r), InBetween(r) \/ (InUsage(r) /\ r.desc = <<>>) \/ InOption(r)
  PROVE  LET s == snarf_ln(r, "blank")
         IN  s = r \/ (~InOption(r) /\ s = [r EXCEPT !.st = "SET_UMBCMD"])
<1>1. CASE InOption(r)
  BY <1>1 DEF InOption, snarf_ln, InOptions, optionp, Describes, Yes
<1>2. CASE ~InOption(r)
  <2>1. snarf_ln(r, "blank") = TryUsage(r, "blank") /\ r.desc = <<>>
    BY <1>2 DEF snarf_ln, InBetween, InUsage
  <2> QED
    BY <1>2, <2>1, TriesUsage DEF Ready
<1> QED
  BY <1>1, <1>2

\* setopt is printed in front of a usage line and its description.
LEMMA Setopts ==
  ASSUME NEW r, Ready(r), Open(r)
  PROVE  LET s == snarf_ln(r, "setopt")
         IN  /\ s \in Statics /\ (InOption(r) => InBetween(s)) /\ (Unsaid(r) => Unsaid(s))
             /\ s.cur_usg_yldd_p = r.cur_usg_yldd_p
             /\ InOption(r) => s.umb = r.umb /\ s.printed = Append(<<OptionItem(r)>>, SetoptItem)
             /\ ~InOption(r) => s = [r EXCEPT !.printed = <<SetoptItem>>, !.st = "UNKNOWN"]
<1> DEFINE q == Closed(r)
           s == snarf_ln(r, "setopt")
<1>1. /\ q \in Statics /\ q.opt = 0 /\ q.inter = r.inter /\ q.desc = r.desc /\ q.umb = r.umb
      /\ q.cur_usg_yldd_p = r.cur_usg_yldd_p /\ ~q.said /\ (Unsaid(r) => Unsaid(q))
      /\ InOption(r) => q.printed = <<OptionItem(r)>>
      /\ ~InOption(r) => q = r
  <2>1. CASE InOption(r)
    <3> DEFINE p == <<OptionItem(r)>>
    <3>1. p \in Seq(Call)
      BY ItemTypes DEF Ready
    <3>2. q = [r EXCEPT !.printed = p, !.cut = r.said, !.opt = 0, !.said = FALSE]
      BY <2>1, ClosedIs DEF Ready
    <3> HIDE DEF p, q
    <3>3. q \in Statics /\ q.printed = p /\ q.opt = 0 /\ ~q.said /\ q.cut = r.said
      BY <3>1, <3>2 DEF Statics, Ready
    <3>4. /\ q.inter = r.inter /\ q.desc = r.desc /\ q.umb = r.umb /\ q.text = r.text
          /\ q.cur_usg_yldd_p = r.cur_usg_yldd_p
      BY <3>2 DEF Statics, Ready
    <3> QED
      BY <2>1, <3>3, <3>4 DEF Unsaid, p
  <2>2. CASE ~InOption(r)
    BY <2>2, ClosedIs DEF Open, InBetween, InUsage, Quiet, Ready
  <2> QED
    BY <2>1, <2>2
<1>2. s = TryInter(q, "setopt")
  <2>1. s = TryUsage(q, "setopt")
    <3>1. CASE InOption(r)
      <4>1. optionp(r, "setopt") = No(q)
        BY DEF optionp, Describes
      <4> QED
        BY <3>1, <4>1 DEF InOption, InOptions, snarf_ln, No
    <3>2. CASE ~InOption(r)
      BY <1>1, <3>2 DEF snarf_ln, Open, InBetween, InUsage
    <3> QED
      BY <3>1, <3>2
  <2> HIDE DEF q, s
  <2> QED
    BY <1>1, <2>1, TriesUsage, TriesOption
<1> HIDE DEF q, s
<1>3. s = [q EXCEPT !.printed = Append(@, SetoptItem), !.st = "UNKNOWN"]
  BY <1>1, <1>2, TriesInter
<1> DEFINE p == Append(q.printed, SetoptItem)
<1>4. p \in Seq(Call)
  <2>1. SetoptItem \in Call
    BY SetoptCall DEF Ready
  <2>2. q.printed \in Seq(Call)
    BY <1>1 DEF Statics
  <2> QED
    BY <2>1, <2>2, AppendProperties
<1>5. s = [q EXCEPT !.printed = p, !.st = "UNKNOWN"]
  BY <1>1, <1>3 DEF Statics
<1> HIDE DEF p
<1>6. s \in Statics /\ s.printed = p /\ s.st = "UNKNOWN"
  BY <1>1, <1>4, <1>5 DEF Statics
<1>7. /\ s.opt = q.opt /\ s.said = q.said /\ s.inter = q.inter /\ s.desc = q.desc /\ s.umb = q.umb
      /\ s.cur_usg_yldd_p = q.cur_usg_yldd_p /\ s.text = q.text /\ s.cut = q.cut
  BY <1>1, <1>5 DEF Statics
<1>8. ASSUME ~InOption(r) PROVE s = [r EXCEPT !.printed = <<SetoptItem>>, !.st = "UNKNOWN"]
  <2>1. p = <<SetoptItem>>
    <3>1. q.printed = <<>>
      BY <1>1, <1>8 DEF Ready
    <3> HIDE DEF SetoptItem
    <3>2. p = Append(<<>>, SetoptItem)
      BY <3>1 DEF p
    <3> QED
      BY <3>2
  <2> QED
    BY <1>1, <1>5, <1>8, <2>1
<1>9. InOption(r) => InBetween(s) /\ s.umb = r.umb /\ s.printed = Append(<<OptionItem(r)>>, SetoptItem)
  BY <1>1, <1>6, <1>7 DEF InOption, InBetween, Quiet, p
<1> QED
  BY <1>1, <1>6, <1>7, <1>8, <1>9 DEF Unsaid, s

\* A line that goes on with what is open.
LEMMA GoesOn ==
  ASSUME NEW r, Ready(r), NEW l,
         \/ InUsage(r) /\ l = "text"
         \/ InOption(r) /\ l \in {"prose", "deep"}
         \/ InInter(r) /\ l \notin {"blank", NULL, "setopt"}
  PROVE  LET s == snarf_ln(r, l)
         IN  /\ InUsage(r) => s = [r EXCEPT !.desc = Append(@, here), !.st = "SET_UMBCMD"]
             /\ InOption(r) => s = [r EXCEPT !.text = Append(@, here), !.said = TRUE]
             /\ InInter(r) => s = [r EXCEPT !.inter = Append(@, here), !.st = "SET_INTER"]
<1>1. CASE InUsage(r)
  <2>1. snarf_ln(r, l) = TryUsage(r, "text") /\ ~InOption(r) /\ ~InInter(r)
    BY <1>1 DEF snarf_ln, InUsage, InOption, InInter, Quiet
  <2> QED
    BY <1>1, <2>1, TriesUsage DEF InUsage, Ready
<1>2. CASE InOption(r)
  <2>1. optionp(r, l) = Yes(Cat(r)) /\ ~InUsage(r) /\ ~InInter(r) /\ r.st = "SET_OPTION"
    BY <1>2 DEF optionp, Describes, InUsage, InOption, InInter, Quiet
  <2>2. snarf_ln(r, l) = Cat(r)
    BY <2>1 DEF snarf_ln, InOptions, Yes
  <2>3. Cat(r) = [r EXCEPT !.text = Append(@, here), !.said = TRUE]
    BY <1>2 DEF Cat, InOption
  <2> QED
    BY <2>1, <2>2, <2>3
<1>3. CASE InInter(r)
  <2>1. /\ snarf_ln(r, l) = TryInter(r, l) /\ l \notin {"blank", NULL, "setopt"}
        /\ ~InUsage(r) /\ ~InOption(r)
    BY <1>3 DEF snarf_ln, InUsage, InOption, InInter, Quiet
  <2> QED
    BY <2>1, TriesInter DEF Ready
<1> QED
  BY <1>1, <1>2, <1>3

-----------------------------------------------------------------------------
(* The calls that make items.                                              *)

LEMMA Upwards ==
  ASSUME NEW n \in Nat, NEW S, 0 \in S, \A k \in 1..n : k - 1 \in S => k \in S
  PROVE  n \in S
<1> DEFINE Not == {k \in 0..n : k \notin S}
<1>1. CASE Not = {}
  BY <1>1
<1>2. CASE Not # {}
  <2>1. PICK k \in Not : \A o \in Not : k <= o
    <3>1. Not \subseteq Nat
      OBVIOUS
    <3> HIDE DEF Not
    <3> QED
      BY <1>2, <3>1, Smallest
  <2>2. k # 0 /\ k \in 1..n /\ k - 1 \in 0..n
    BY <2>1
  <2>3. k - 1 \notin Not
    BY <2>1, <2>2
  <2>4. k - 1 \in S
    BY <2>2, <2>3
  <2> QED
    BY <2>1, <2>2, <2>4
<1> QED
  BY <1>1, <1>2

\* Item number k of f, and f as the function Items defines, up to k.
After(f, cs, k) == IF k = 0 THEN <<>> ELSE IF IsItem(cs[k]) THEN Append(f[k - 1], cs[k]) ELSE f[k - 1]
Gathers(f, cs, n) == f = [k \in 0..n |-> After(f, cs, k)]

LEMMA GathersMore ==
  ASSUME NEW cs, NEW n \in Nat, NEW f, Gathers(f, cs, n)
  PROVE  \E g : Gathers(g, cs, n + 1)
<1> DEFINE g == [k \in 0..(n + 1) |-> After(f, cs, k)]
<1>1. \A k \in 0..n : f[k] = After(f, cs, k)
  BY DEF Gathers
<1>2. \A k \in 0..(n + 1) : g[k] = After(f, cs, k)
  OBVIOUS
<1>3. \A k \in 0..n : g[k] = f[k]
  BY <1>1, <1>2
<1>4. \A k \in 0..(n + 1) : k # 0 => k - 1 \in 0..n
  OBVIOUS
<1> HIDE DEF g
<1>5. \A k \in 0..(n + 1) : After(g, cs, k) = After(f, cs, k)
  BY <1>3, <1>4 DEF After
<1>6. g = [k \in 0..(n + 1) |-> After(g, cs, k)]
  BY <1>5 DEF g
<1> QED
  BY <1>6 DEF Gathers

LEMMA GathersExists ==
  ASSUME NEW cs, NEW n \in Nat
  PROVE  \E f : Gathers(f, cs, n)
<1> DEFINE S == {k \in 0..n : \E f : Gathers(f, cs, k)}
<1>1. 0 \in S
  <2>1. Gathers([k \in 0..0 |-> <<>>], cs, 0)
    <3>1. \A k \in 0..0 : k = 0
      OBVIOUS
    <3> QED
      BY <3>1 DEF Gathers, After
  <2> QED
    BY <2>1
<1>2. ASSUME NEW k \in 1..n, k - 1 \in S PROVE k \in S
  <2>1. PICK f : Gathers(f, cs, k - 1)
    BY <1>2
  <2>2. \E g : Gathers(g, cs, (k - 1) + 1)
    BY <2>1, GathersMore
  <2> QED
    BY <2>2
<1> HIDE DEF S
<1>3. n \in S
  BY <1>1, <1>2, Upwards
<1> QED
  BY <1>3 DEF S

LEMMA ItemsGathered ==
  ASSUME NEW cs, Len(cs) \in Nat
  PROVE  \E f : Gathers(f, cs, Len(cs)) /\ Items(cs) = f[Len(cs)]
<1> DEFINE f == CHOOSE g : Gathers(g, cs, Len(cs))
<1>1. Gathers(f, cs, Len(cs))
  BY GathersExists
<1>2. Items(cs) = f[Len(cs)]
  BY DEF Items, Gathers, After
<1> HIDE DEF f
<1> QED
  BY <1>1, <1>2

LEMMA ItemsStart == Items(<<>>) = <<>>
<1>1. PICK f : Gathers(f, <<>>, 0) /\ Items(<<>>) = f[0]
  <2>1. Len(<<>>) = 0
    OBVIOUS
  <2> QED
    BY <2>1, ItemsGathered
<1>2. f[0] = After(f, <<>>, 0)
  BY <1>1 DEF Gathers
<1> QED
  BY <1>1, <1>2 DEF After

LEMMA ItemsAppend ==
  ASSUME NEW S, NEW cs \in Seq(S), NEW c \in S
  PROVE  Items(Append(cs, c)) = IF IsItem(c) THEN Append(Items(cs), c) ELSE Items(cs)
<1> DEFINE ds == Append(cs, c)
           m  == Len(cs)
<1>1. m \in Nat /\ Len(ds) = m + 1 /\ ds[m + 1] = c /\ \A k \in 1..m : ds[k] = cs[k]
  BY LenProperties, AppendProperties
<1> HIDE DEF ds, m
<1>2. PICK f : Gathers(f, cs, m) /\ Items(cs) = f[m]
  BY <1>1, ItemsGathered DEF m
<1>3. PICK g : Gathers(g, ds, m + 1) /\ Items(ds) = g[m + 1]
  BY <1>1, ItemsGathered
<1>4. \A k \in 0..m : f[k] = After(f, cs, k)
  BY <1>2 DEF Gathers
<1>5. \A k \in 0..(m + 1) : g[k] = After(g, ds, k)
  BY <1>3 DEF Gathers
<1>6. f[m] = g[m]
  <2> DEFINE E == {k \in 0..m : f[k] = g[k]}
  <2>1. 0 \in E
    <3>1. f[0] = After(f, cs, 0) /\ g[0] = After(g, ds, 0)
      BY <1>1, <1>4, <1>5
    <3> QED
      BY <1>1, <3>1 DEF After
  <2>2. ASSUME NEW k \in 1..m, k - 1 \in E PROVE k \in E
    <3>1. f[k] = After(f, cs, k) /\ g[k] = After(g, ds, k) /\ k # 0 /\ k \in 0..m
      BY <1>1, <1>4, <1>5
    <3>2. ds[k] = cs[k] /\ f[k - 1] = g[k - 1]
      BY <1>1, <2>2
    <3> QED
      BY <3>1, <3>2 DEF After
  <2> HIDE DEF E
  <2>3. m \in E
    BY <1>1, <2>1, <2>2, Upwards
  <2> QED
    BY <2>3 DEF E
<1>7. g[m + 1] = After(g, ds, m + 1)
  BY <1>1, <1>5
<1>8. m + 1 # 0 /\ (m + 1) - 1 = m
  BY <1>1
<1>9. g[m + 1] = IF IsItem(c) THEN Append(g[m], c) ELSE g[m]
  BY <1>1, <1>7, <1>8 DEF After
<1> QED
  BY <1>2, <1>3, <1>6, <1>9 DEF ds

LEMMA CommandAppend ==
  ASSUME NEW cs \in Seq(Call), NEW c \in Call
  PROVE  CommandOf(Append(cs, c)) = IF c.what = "command" THEN c.at ELSE CommandOf(cs)
<1> DEFINE ds == Append(cs, c)
           m  == Len(cs)
           C  == {i \in 1..Len(cs) : cs[i].what = "command"}
           D  == {i \in 1..Len(ds) : ds[i].what = "command"}
           Last(o) == CHOOSE i \in o : \A j \in o : j <= i
<1>1. m \in Nat /\ Len(ds) = m + 1 /\ ds[m + 1] = c /\ \A k \in 1..m : ds[k] = cs[k]
  BY LenProperties, AppendProperties
<1>2. /\ CommandOf(cs) = (IF C = {} THEN 0 ELSE cs[Last(C)].at)
      /\ CommandOf(ds) = (IF D = {} THEN 0 ELSE ds[Last(D)].at)
  BY DEF CommandOf
<1> HIDE DEF ds
<1>3. CASE c.what = "command"
  <2>1. m + 1 \in D /\ \A j \in D : j \in 1..(m + 1)
    BY <1>1, <1>3
  <2> HIDE DEF D
  <2>2. Last(D) \in D /\ \A j \in D : j <= Last(D)
    BY <1>1, <2>1
  <2>3. Last(D) = m + 1
    <3> HIDE DEF Last
    <3> QED
      BY <1>1, <2>1, <2>2
  <2> QED
    BY <1>1, <1>2, <1>3, <2>1, <2>3 DEF ds
<1>4. CASE c.what # "command"
  <2>1. D = C
    BY <1>1, <1>4
  <2>2. C # {} => Last(C) \in 1..m
    <3>1. C \subseteq 1..m
      OBVIOUS
    <3>2. C # {} => \E i \in C : \A j \in C : j <= i
      <4>1. C # {} => \E i \in {m - j : j \in C} : \A o \in {m - j : j \in C} : i <= o
        <5>1. {m - j : j \in C} \subseteq Nat
          BY <1>1, <3>1
        <5>2. C # {} => {m - j : j \in C} # {}
          OBVIOUS
        <5> HIDE DEF C
        <5> QED
          BY <5>1, <5>2, Smallest
      <4> HIDE DEF C
      <4>2. ASSUME C # {} PROVE \E i \in C : \A j \in C : j <= i
        <5>1. PICK i \in C : \A o \in {m - j : j \in C} : m - i <= o
          BY <4>1, <4>2
        <5>2. \A j \in C : m - i <= m - j
          BY <5>1
        <5>3. \A j \in C : j \in Int
          BY <1>1, <3>1
        <5> QED
          BY <1>1, <5>1, <5>2, <5>3
      <4> QED
        BY <4>2
    <3> HIDE DEF C
    <3> QED
      BY <3>1, <3>2
  <2> HIDE DEF C, D, Last
  <2> QED
    BY <1>1, <1>2, <1>4, <2>1, <2>2 DEF ds
<1> QED
  BY <1>3, <1>4

Tallied(cs) == /\ cs \in Seq(Call) /\ Items(cs) \in Seq(Call)
               /\ CommandOf(cs) = CommandOf(Items(cs)) /\ CommandOf(cs) \in Nat

LEMMA TalliedAppend ==
  ASSUME NEW cs, Tallied(cs), NEW c \in Call
  PROVE  /\ Tallied(Append(cs, c))
         /\ c.what # "setopt" => Items(Append(cs, c)) = Append(Items(cs), c)
         /\ c.what = "setopt" => /\ Items(Append(cs, c)) = Items(cs)
                                 /\ CommandOf(Append(cs, c)) = CommandOf(cs)
<1>1. Append(cs, c) \in Seq(Call) /\ Append(Items(cs), c) \in Seq(Call)
  BY AppendProperties DEF Tallied
<1>2. Items(Append(cs, c)) = IF c.what # "setopt" THEN Append(Items(cs), c) ELSE Items(cs)
  BY ItemsAppend DEF Tallied, IsItem
<1>3. /\ CommandOf(Append(cs, c)) = IF c.what = "command" THEN c.at ELSE CommandOf(cs)
      /\ CommandOf(Append(Items(cs), c)) = IF c.what = "command" THEN c.at ELSE CommandOf(Items(cs))
  BY CommandAppend DEF Tallied
<1>4. c.at \in Nat
  BY DEF Call
<1> QED
  BY <1>1, <1>2, <1>3, <1>4 DEF Tallied

LEMMA NoCalls == Tallied(<<>>)
<1>1. CommandOf(<<>>) = 0
  BY DEF CommandOf
<1>2. <<>> \in Seq(Call)
  OBVIOUS
<1>3. CommandOf(<<>>) \in Nat
  BY <1>1
<1> HIDE DEF CommandOf
<1> QED
  BY <1>2, <1>3, ItemsStart DEF Tallied

\* What printing does: nothing, or what has been held becomes an item.
LEMMA PrintsNone ==
  ASSUME Tallied(calls), calls' = calls \o <<>>
  PROVE  calls' = calls
BY ConcatEmptySeq DEF Tallied

LEMMA PrintsOne ==
  ASSUME Tallied(calls), NEW c \in Call, calls' = calls \o <<c>>
  PROVE  /\ Tallied(calls')
         /\ c.what # "setopt" => Items(calls') = Items(calls) \o <<c>>
         /\ c.what = "setopt" => Items(calls') = Items(calls) /\ CommandOf(calls') = CommandOf(calls)
<1>1. calls' = Append(calls, c) /\ Append(Items(calls), c) = Items(calls) \o <<c>>
  BY AppendIsConcat DEF Tallied
<1> QED
  BY <1>1, TalliedAppend

LEMMA HeldCalls ==
  ASSUME NEW r, Ready(r), Open(r) \/ InInter(r)
  PROVE  \/ HeldOf(r) = <<>> /\ InBetween(r)
         \/ \E c \in Call : HeldOf(r) = <<c>> /\ c.what # "setopt"
<1>1. UsageItem(r) \in Call /\ OptionItem(r) \in Call /\ (r.inter # <<>> => InterItem(r) \in Call)
  BY ItemTypes DEF Ready
<1>2. UsageItem(r).what # "setopt" /\ OptionItem(r).what # "setopt" /\ InterItem(r).what # "setopt"
  BY ItemIs DEF UsageItem, OptionItem, InterItem
<1>3. InInter(r) => r.inter # <<>>
  BY DEF InInter
<1>4. InUsage(r) \/ InOption(r) \/ InInter(r) \/ InBetween(r)
  BY DEF Open
<1> HIDE DEF UsageItem, OptionItem, InterItem
<1> QED
  BY <1>1, <1>2, <1>3, <1>4 DEF HeldOf

LEMMA PrintsHeld ==
  ASSUME Tallied(calls), Ready(rd), Open(rd) \/ InInter(rd), calls' = calls \o HeldOf(rd)
  PROVE  Tallied(calls') /\ Items(calls') = Items(calls) \o HeldOf(rd)
<1>1. CASE HeldOf(rd) = <<>>
  BY <1>1, PrintsNone, ConcatEmptySeq DEF Tallied
<1>2. ASSUME NEW c \in Call, HeldOf(rd) = <<c>>, c.what # "setopt"
      PROVE  Tallied(calls') /\ Items(calls') = Items(calls) \o HeldOf(rd)
  BY <1>2, PrintsOne
<1> QED
  BY <1>1, <1>2, HeldCalls

-----------------------------------------------------------------------------
(* The document, with what is held.                                        *)
Whole == Items(calls) \o (IF pc = "done" THEN <<>> ELSE Held)

LEMMA HeldIs ==
  ASSUME Ready(rd), Open(rd) \/ InInter(rd)
  PROVE  Held = HeldOf(rd)
<1>1. CASE InUsage(rd)
  <2>1. yield_usg(rd).printed = <<UsageItem(rd)>> /\ rd.opt = 0 /\ ~rd.cur_usg_yldd_p
    BY <1>1 DEF yield_usg, Output, UsageItem, InUsage, Quiet, Ready, Statics
  <2>2. yield_inter(rd).printed = <<>>
    BY <1>1, InterIs DEF InUsage, Quiet, Ready
  <2>3. HeldOf(rd) = <<UsageItem(rd)>>
    BY <1>1 DEF HeldOf
  <2> HIDE DEF UsageItem
  <2> QED
    BY <2>1, <2>2, <2>3 DEF Held
<1>2. CASE InOption(rd)
  <2>1. Closed(rd).printed = <<OptionItem(rd)>>
    BY <1>2, ClosedIs DEF Ready, Statics
  <2>2. yield_opt(rd).printed = Closed(rd).printed
    BY <1>2 DEF Closed, InOption, yield_opt, Output, Ready, Statics
  <2>3. yield_inter(rd).printed = <<>> /\ rd.cur_usg_yldd_p /\ rd.opt # 0
    BY <1>2, InterIs DEF InOption, Ready
  <2>4. HeldOf(rd) = <<OptionItem(rd)>>
    BY <1>2 DEF HeldOf, InOption, InUsage
  <2> HIDE DEF OptionItem
  <2> QED
    BY <2>1, <2>2, <2>3, <2>4 DEF Held
<1>3. CASE InInter(rd)
  <2>1. yield_inter(rd).printed = <<InterItem(rd)>> /\ rd.cur_usg_yldd_p /\ rd.opt = 0
    BY <1>3, InterIs DEF InInter, Ready, Statics
  <2>2. HeldOf(rd) = <<InterItem(rd)>>
    BY <1>3 DEF HeldOf, InInter, InUsage, InOption
  <2> HIDE DEF InterItem
  <2> QED
    BY <2>1, <2>2 DEF Held
<1>4. CASE InBetween(rd)
  <2>1. yield_inter(rd).printed = <<>> /\ rd.opt = 0
    BY <1>4, InterIs DEF InBetween, Quiet, Ready
  <2>2. HeldOf(rd) = <<>>
    BY <1>4 DEF HeldOf, InBetween, InInter, InUsage, InOption, Quiet
  <2>3. rd.cur_usg_yldd_p \/ yield_usg(rd).printed = <<>>
    BY <1>4 DEF yield_usg, InBetween, Ready
  <2> QED
    BY <2>1, <2>2, <2>3 DEF Held
<1> QED
  BY <1>1, <1>2, <1>3, <1>4 DEF Open

LEMMA PlaceIs ==
  /\ InUsage(rd)   => Place = "usage"
  /\ InOption(rd)  => Place = "options"
  /\ InInter(rd)   => Place = "paragraph"
  /\ InBetween(rd) => Place = "between"
BY DEF Place, InUsage, InOption, InInter, InBetween, Quiet

LEMMA PlaceThen ==
  /\ InUsage(rd')   => Place' = "usage"
  /\ InOption(rd')  => Place' = "options"
  /\ InInter(rd')   => Place' = "paragraph"
  /\ InBetween(rd') => Place' = "between"
BY DEF Place, InUsage, InOption, InInter, InBetween, Quiet

\* The same behind a step.
OptionThen == Item("option", rd'.opt, CommandOf(calls'), rd'.text)

LEMMA HeldThen ==
  ASSUME rd' \in Statics, rd'.printed = <<>>, calls' \in Seq(Call)
  PROVE  /\ InUsage(rd') => Held' = <<UsageItem(rd')>>
         /\ InOption(rd') => Held' = <<OptionThen>>
         /\ InInter(rd') => Held' = <<InterItem(rd')>>
         /\ InBetween(rd') => Held' = <<>>
<1>1. ASSUME InUsage(rd') PROVE Held' = <<UsageItem(rd')>>
  <2>1. yield_usg(rd').printed = <<UsageItem(rd')>> /\ rd'.opt = 0 /\ ~rd'.cur_usg_yldd_p
    BY <1>1 DEF yield_usg, Output, UsageItem, InUsage, Quiet, Statics
  <2>2. yield_inter(rd').printed = <<>>
    BY <1>1, InterIs DEF InUsage, Quiet
  <2> HIDE DEF UsageItem
  <2> QED
    BY <2>1, <2>2 DEF Held
<1>2. ASSUME InOption(rd') PROVE Held' = <<OptionThen>>
  <2>1. CommandOf(calls' \o rd'.printed) = CommandOf(calls')
    BY ConcatEmptySeq
  <2>2. (IF rd'.said THEN rd'.text ELSE <<>>) = rd'.text
    BY <1>2 DEF InOption
  <2>3. yield_opt(rd)'.printed = Append(<<>>, OptionThen)
    BY <2>1, <2>2 DEF yield_opt, OptionThen, Output, Statics
  <2>4. yield_inter(rd').printed = <<>> /\ rd'.cur_usg_yldd_p /\ rd'.opt # 0
    BY <1>2, InterIs DEF InOption
  <2> HIDE DEF OptionThen
  <2>5. yield_opt(rd)'.printed = <<OptionThen>>
    BY <2>3
  <2> QED
    BY <2>4, <2>5 DEF Held
<1>3. ASSUME InInter(rd') PROVE Held' = <<InterItem(rd')>>
  <2>1. yield_inter(rd').printed = <<InterItem(rd')>> /\ rd'.cur_usg_yldd_p /\ rd'.opt = 0
    BY <1>3, InterIs DEF InInter, Statics
  <2> HIDE DEF InterItem
  <2> QED
    BY <2>1 DEF Held
<1>4. ASSUME InBetween(rd') PROVE Held' = <<>>
  <2>1. yield_inter(rd').printed = <<>> /\ rd'.opt = 0
    BY <1>4, InterIs DEF InBetween, Quiet
  <2>2. rd'.cur_usg_yldd_p \/ yield_usg(rd').printed = <<>>
    BY <1>4 DEF yield_usg, InBetween
  <2> QED
    BY <2>1, <2>2 DEF Held
<1> QED
  BY <1>1, <1>2, <1>3, <1>4

-----------------------------------------------------------------------------
(* The invariant.                                                          *)
Named(doc) == \E i \in 1..Len(doc) : doc[i].what \in Usages

\* Nothing has come that would have been flushed in front of a usage line.
NotYet  == ~rd.umb /\ ~rd.cur_usg_yldd_p => \A i \in 1..Len(file) : file[i] \notin Usages
Silence == (\A i \in 1..Len(file) : file[i] \notin {"option", "deep", "prose"}) => Unsaid(rd)
Filled  == InInter(rd) => file # <<>> /\ file[Len(file)] # "blank"

YuckTypes == /\ file \in Seq(Kinds) /\ pc \in {"read", "done"}
             /\ rd \in Statics /\ rd.printed = <<>> /\ Tallied(calls)
YuckInv == /\ YuckTypes
           /\ Open(rd) \/ InInter(rd)
           /\ pc = "done" => InBetween(rd)
           /\ rd.umb <=> Named(Whole)
           /\ NotYet /\ Silence /\ Filled

LEMMA Emptied ==
  ASSUME NEW s \in Statics, NEW q, q = [s EXCEPT !.printed = <<>>]
  PROVE  /\ q \in Statics /\ q.printed = <<>> /\ q.umb = s.umb /\ q.cur_usg_yldd_p = s.cur_usg_yldd_p
         /\ q.opt = s.opt /\ q.text = s.text
         /\ InUsage(q) = InUsage(s) /\ InOption(q) = InOption(s) /\ InInter(q) = InInter(s)
         /\ InBetween(q) = InBetween(s) /\ Unsaid(q) = Unsaid(s)
         /\ UsageItem(q) = UsageItem(s) /\ InterItem(q) = InterItem(s)
<1>1. <<>> \in Seq(Call)
  OBVIOUS
<1>2. q \in Statics /\ q.printed = <<>>
  BY <1>1 DEF Statics
<1>3. /\ q.st = s.st /\ q.usg = s.usg /\ q.cmd = s.cmd /\ q.umb = s.umb /\ q.desc = s.desc
      /\ q.cur_usg_yldd_p = s.cur_usg_yldd_p /\ q.opt = s.opt /\ q.said = s.said
      /\ q.text = s.text /\ q.cut = s.cut /\ q.inter = s.inter
  BY DEF Statics
<1> QED
  BY <1>2, <1>3 DEF InUsage, InOption, InInter, InBetween, Quiet, Unsaid, UsageItem, InterItem

LEMMA InvReady ==
  ASSUME YuckInv
  PROVE  /\ Ready(rd) /\ Whole = Items(calls) \o HeldOf(rd) /\ Whole \in Seq(Call)
         /\ Items(calls) \in Seq(Call) /\ Tallied(calls)
<1>1. Ready(rd) /\ Items(calls) \in Seq(Call) /\ Tallied(calls)
  BY LenProperties DEF YuckInv, YuckTypes, Ready, Tallied, here
<1>2. Whole = Items(calls) \o HeldOf(rd)
  <2>1. CASE pc = "done"
    BY <2>1 DEF YuckInv, Whole, HeldOf, InBetween, InUsage, InOption, InInter, Quiet
  <2>2. CASE pc # "done"
    BY <1>1, <2>2, HeldIs DEF YuckInv, Whole
  <2> QED
    BY <2>1, <2>2
<1>3. HeldOf(rd) \in Seq(Call)
  <2>1. HeldOf(rd) = <<>> \/ \E c \in Call : HeldOf(rd) = <<c>>
    BY <1>1, HeldCalls DEF YuckInv
  <2>2. ASSUME NEW c \in Call, HeldOf(rd) = <<c>> PROVE HeldOf(rd) \in Seq(Call)
    <3>1. <<c>> \in Seq(Call)
      OBVIOUS
    <3> QED
      BY <2>2, <3>1
  <2>3. <<>> \in Seq(Call)
    OBVIOUS
  <2> QED
    BY <2>1, <2>2, <2>3
<1> QED
  BY <1>1, <1>2, <1>3, ConcatProperties

YuckKeeps == rd' \in Statics /\ rd'.printed = <<>> /\ Tallied(calls')

LEMMA UsageStep ==
  ASSUME YuckInv, Open(rd), NEW l \in Usages, Snarf(l), pc' = "read"
  PROVE  /\ YuckKeeps /\ InUsage(rd') /\ (Unsaid(rd) => Unsaid(rd'))
         /\ Whole' = Append(Whole, Item(IF rd.umb THEN l ELSE "umbrella", here, 0, <<>>))
         /\ Whole \in Seq(Call) /\ Item(IF rd.umb THEN l ELSE "umbrella", here, 0, <<>>) \in Call
<1> DEFINE s  == snarf_ln(rd, l)
           it == Item(IF rd.umb THEN l ELSE "umbrella", here, 0, <<>>)
<1>1. /\ s \in Statics /\ InUsage(s) /\ s.printed = HeldOf(rd) /\ UsageItem(s) = it
      /\ Unsaid(rd) => Unsaid(s)
  BY InvReady, OpensUsage
<1>2. rd' = [s EXCEPT !.printed = <<>>] /\ calls' = calls \o s.printed
  BY DEF Snarf
<1>3. it \in Call
  <2>1. <<>> \in Seq(Nat) /\ here \in Nat
    BY InvReady DEF Ready
  <2>2. (IF rd.umb THEN l ELSE "umbrella") \in {"umbrella", "command"}
    BY LineKinds
  <2> QED
    BY <2>1, <2>2, ItemIs DEF Call
<1> HIDE DEF s, it
<1>4. YuckKeeps /\ InUsage(rd') /\ (Unsaid(rd) => Unsaid(rd')) /\ UsageItem(rd') = it
  BY <1>1, <1>2, Emptied, PrintsHeld, InvReady DEF YuckKeeps
<1>5. Items(calls') = Whole
  BY <1>1, <1>2, PrintsHeld, InvReady
<1>6. Held' = <<it>>
  BY <1>4, HeldThen DEF YuckKeeps, Tallied
<1>7. Whole' = Whole \o <<it>>
  BY <1>5, <1>6 DEF Whole
<1> QED
  BY <1>3, <1>4, <1>7, InvReady, AppendIsConcat DEF it

LEMMA OptionStep ==
  ASSUME YuckInv, Open(rd), NEW l \in {"option", "bare", "short", "deep"}, Snarf(l), pc' = "read",
         l = "short" => Unsaid(rd), l = "deep" => ~InOption(rd)
  PROVE  LET it == Item("option", here, CommandOf(Whole),
                        IF l \in {"bare", "short"} THEN <<>> ELSE <<here>>)
         IN  /\ YuckKeeps /\ InOption(rd') /\ rd'.umb = rd.umb
             /\ l \in {"bare", "short"} /\ Unsaid(rd) => Unsaid(rd')
             /\ Whole' = Append(Whole, it) /\ Whole \in Seq(Call) /\ it \in Call
<1> DEFINE s  == snarf_ln(rd, l)
           t  == IF l \in {"bare", "short"} THEN <<>> ELSE <<here>>
           it == Item("option", here, CommandOf(Whole), t)
<1>1. /\ s \in Statics /\ InOption(s) /\ s.printed = HeldOf(rd) /\ s.umb = rd.umb
      /\ s.opt = here /\ s.text = t
      /\ l \in {"bare", "short"} /\ Unsaid(rd) => Unsaid(s)
  BY InvReady, OpensOption
<1>2. rd' = [s EXCEPT !.printed = <<>>] /\ calls' = calls \o s.printed
  BY DEF Snarf
<1>3. Items(calls') = Whole /\ Tallied(calls')
  BY <1>1, <1>2, PrintsHeld, InvReady DEF YuckInv
<1>4. CommandOf(calls') = CommandOf(Whole) /\ CommandOf(Whole) \in Nat
  BY <1>3 DEF Tallied
<1>5. it \in Call
  <2>1. t \in Seq(Nat) /\ here \in Nat
    BY InvReady DEF Ready
  <2> HIDE DEF t
  <2> QED
    BY <1>4, <2>1, ItemIs DEF Call
<1> HIDE DEF s
<1>6. /\ YuckKeeps /\ InOption(rd') /\ rd'.umb = rd.umb /\ rd'.opt = here /\ rd'.text = t
      /\ l \in {"bare", "short"} /\ Unsaid(rd) => Unsaid(rd')
  <2> HIDE DEF t
  <2> QED
    BY <1>1, <1>2, <1>3, Emptied DEF YuckKeeps
<1>7. OptionThen = it
  BY <1>4, <1>6 DEF OptionThen
<1> HIDE DEF t, it
<1>8. Held' = <<it>>
  BY <1>6, <1>7, HeldThen DEF YuckKeeps, Tallied
<1>9. Whole' = Whole \o <<it>>
  BY <1>3, <1>8 DEF Whole
<1>10. Whole' = Append(Whole, it) /\ Whole \in Seq(Call)
  BY <1>5, <1>9, InvReady, AppendIsConcat
<1> QED
  BY <1>5, <1>6, <1>10 DEF t, it

LEMMA InterStep ==
  ASSUME YuckInv, Open(rd), NEW l, Snarf(l), pc' = "read",
         (l = "prose" /\ ~InOption(rd)) \/ (l = "text" /\ rd.cur_usg_yldd_p)
  PROVE  LET it == Item("paragraph", here, 0, <<here>>)
         IN  /\ YuckKeeps /\ InInter(rd') /\ rd'.umb = rd.umb /\ (Unsaid(rd) => Unsaid(rd'))
             /\ Whole' = Append(Whole, it) /\ Whole \in Seq(Call) /\ it \in Call
<1> DEFINE s  == snarf_ln(rd, l)
           it == Item("paragraph", here, 0, <<here>>)
<1>1. /\ s \in Statics /\ InInter(s) /\ s.printed = HeldOf(rd) /\ s.umb = rd.umb
      /\ InterItem(s) = it
      /\ Unsaid(rd) => Unsaid(s)
  BY InvReady, OpensInter
<1>2. rd' = [s EXCEPT !.printed = <<>>] /\ calls' = calls \o s.printed
  BY DEF Snarf
<1>3. Items(calls') = Whole /\ Tallied(calls')
  BY <1>1, <1>2, PrintsHeld, InvReady DEF YuckInv
<1>4. it \in Call
  <2>1. <<here>> \in Seq(Nat) /\ here \in Nat
    BY InvReady DEF Ready
  <2> QED
    BY <2>1, ItemIs DEF Call
<1> HIDE DEF s, it
<1>5. /\ YuckKeeps /\ InInter(rd') /\ rd'.umb = rd.umb /\ InterItem(rd') = it
      /\ Unsaid(rd) => Unsaid(rd')
  BY <1>1, <1>2, <1>3, Emptied DEF YuckKeeps
<1>6. Held' = <<it>>
  BY <1>5, HeldThen DEF YuckKeeps, Tallied
<1>7. Whole' = Whole \o <<it>>
  BY <1>3, <1>6 DEF Whole
<1> QED
  BY <1>4, <1>5, <1>7, InvReady, AppendIsConcat DEF it

LEMMA DrainStep ==
  ASSUME YuckInv, NEW l, Snarf(l),
         (l = NULL /\ Open(rd)) \/ (l \in {NULL, "blank"} /\ InInter(rd))
           \/ (l = "blank" /\ InUsage(rd) /\ rd.desc # <<>>)
  PROVE  /\ YuckKeeps /\ InBetween(rd') /\ rd'.umb = rd.umb /\ rd'.cur_usg_yldd_p
         /\ Unsaid(rd) => Unsaid(rd')
         /\ Whole' = Whole
<1> DEFINE s == snarf_ln(rd, l)
<1>1. /\ s \in Statics /\ InBetween(s) /\ s.cur_usg_yldd_p /\ s.printed = HeldOf(rd) /\ s.umb = rd.umb
      /\ Unsaid(rd) => Unsaid(s)
  BY InvReady, Drains
<1>2. rd' = [s EXCEPT !.printed = <<>>] /\ calls' = calls \o s.printed
  BY DEF Snarf
<1>3. Items(calls') = Whole /\ Tallied(calls')
  BY <1>1, <1>2, PrintsHeld, InvReady DEF YuckInv
<1> HIDE DEF s
<1>4. /\ YuckKeeps /\ InBetween(rd') /\ rd'.umb = rd.umb /\ rd'.cur_usg_yldd_p
      /\ Unsaid(rd) => Unsaid(rd')
  BY <1>1, <1>2, <1>3, Emptied DEF YuckKeeps
<1>5. Held' = <<>>
  BY <1>4, HeldThen DEF YuckKeeps, Tallied
<1>6. Whole' = Whole \o <<>>
  BY <1>3, <1>5 DEF Whole
<1> QED
  BY <1>4, <1>6, InvReady, ConcatEmptySeq

LEMMA BlankStep ==
  ASSUME YuckInv, Snarf("blank"), pc' = "read", pc = "read",
         InBetween(rd) \/ (InUsage(rd) /\ rd.desc = <<>>) \/ InOption(rd)
  PROVE  /\ YuckKeeps /\ rd'.umb = rd.umb /\ rd'.cur_usg_yldd_p = rd.cur_usg_yldd_p
         /\ Unsaid(rd) => Unsaid(rd')
         /\ InBetween(rd') = InBetween(rd) /\ InUsage(rd') = InUsage(rd) /\ InOption(rd') = InOption(rd)
         /\ InInter(rd') = InInter(rd)
         /\ Whole' = Whole
<1> DEFINE s == snarf_ln(rd, "blank")
<1>1. s = rd \/ (~InOption(rd) /\ s = [rd EXCEPT !.st = "SET_UMBCMD"])
  BY InvReady, Blanks
<1>2. rd' = [s EXCEPT !.printed = <<>>] /\ calls' = calls \o s.printed
  BY DEF Snarf
<1> HIDE DEF s
<1>3. rd \in Statics /\ rd.printed = <<>>
  BY InvReady DEF Ready
<1>4. s \in Statics /\ s.printed = <<>>
  BY <1>1, <1>3 DEF Statics
<1>5. /\ s.opt = rd.opt /\ s.said = rd.said /\ s.inter = rd.inter /\ s.desc = rd.desc /\ s.umb = rd.umb
      /\ s.cur_usg_yldd_p = rd.cur_usg_yldd_p /\ s.text = rd.text /\ s.cut = rd.cut
      /\ s.usg = rd.usg /\ s.cmd = rd.cmd
  BY <1>1, <1>3 DEF Statics
<1>6. /\ Unsaid(s) = Unsaid(rd) /\ InUsage(s) = InUsage(rd) /\ InBetween(s) = InBetween(rd)
      /\ InOption(s) = InOption(rd) /\ InInter(s) = InInter(rd)
  <2>1. CASE s = rd
    BY <2>1
  <2>2. CASE ~InOption(rd) /\ s = [rd EXCEPT !.st = "SET_UMBCMD"]
    <3>1. s.st = "SET_UMBCMD" /\ rd.st \in {"UNKNOWN", "SET_UMBCMD"}
      BY <1>3, <2>2 DEF InBetween, InUsage, Statics
    <3> QED
      BY <1>5, <3>1 DEF Unsaid, InUsage, InBetween, InOption, InInter, Quiet
  <2> QED
    BY <1>1, <2>1, <2>2
<1>7. calls' = calls
  BY <1>2, <1>4, PrintsNone, InvReady
<1>8. /\ rd' \in Statics /\ rd'.printed = <<>> /\ rd'.umb = rd.umb
      /\ rd'.cur_usg_yldd_p = rd.cur_usg_yldd_p /\ Unsaid(rd') = Unsaid(rd)
      /\ InUsage(rd') = InUsage(rd) /\ InBetween(rd') = InBetween(rd) /\ InOption(rd') = InOption(rd)
      /\ InInter(rd') = InInter(rd)
      /\ UsageItem(rd') = UsageItem(s) /\ rd'.opt = s.opt /\ rd'.text = s.text
  BY <1>2, <1>4, <1>5, <1>6, Emptied
<1>9. UsageItem(rd') = UsageItem(rd) /\ OptionThen = OptionItem(rd)
  BY <1>5, <1>7, <1>8 DEF UsageItem, OptionThen, OptionItem
<1>10. YuckKeeps /\ calls' \in Seq(Call)
  BY <1>7, <1>8, InvReady DEF YuckKeeps, Tallied
<1>11. Held' = HeldOf(rd)
  BY <1>8, <1>9, <1>10, HeldThen DEF YuckKeeps, HeldOf, InBetween, InUsage, InOption, InInter, Quiet
<1>12. Whole' = Whole
  BY <1>7, <1>11, InvReady DEF Whole
<1> QED
  BY <1>8, <1>10, <1>12

LEMMA SetoptStep ==
  ASSUME YuckInv, Open(rd), Snarf("setopt"), pc' = "read", pc = "read"
  PROVE  /\ YuckKeeps /\ rd'.umb = rd.umb /\ (Unsaid(rd) => Unsaid(rd'))
         /\ rd'.cur_usg_yldd_p = rd.cur_usg_yldd_p
         /\ InOption(rd) => InBetween(rd')
         /\ ~InOption(rd) => InBetween(rd') = InBetween(rd) /\ InUsage(rd') = InUsage(rd)
         /\ Whole' = Whole
<1> DEFINE s == snarf_ln(rd, "setopt")
<1>1. /\ s \in Statics /\ (InOption(rd) => InBetween(s)) /\ (Unsaid(rd) => Unsaid(s))
      /\ s.cur_usg_yldd_p = rd.cur_usg_yldd_p
      /\ InOption(rd) => s.umb = rd.umb /\ s.printed = Append(<<OptionItem(rd)>>, SetoptItem)
      /\ ~InOption(rd) => s = [rd EXCEPT !.printed = <<SetoptItem>>, !.st = "UNKNOWN"]
  BY InvReady, Setopts
<1>2. rd' = [s EXCEPT !.printed = <<>>] /\ calls' = calls \o s.printed
  BY DEF Snarf
<1> HIDE DEF s
<1>3. SetoptItem \in Call /\ SetoptItem.what = "setopt"
  BY InvReady, SetoptCall DEF Ready
<1>4. Tallied(calls) /\ Ready(rd)
  BY InvReady
<1>5. CASE InOption(rd)
  <2>1. HeldOf(rd) = <<OptionItem(rd)>> /\ OptionItem(rd) \in Call /\ OptionItem(rd).what # "setopt"
    <3>1. OptionItem(rd) \in Call
      BY <1>4, ItemTypes DEF Ready
    <3>2. OptionItem(rd).what # "setopt"
      BY ItemIs DEF OptionItem
    <3> QED
      BY <1>5, <3>1, <3>2 DEF HeldOf, InOption, InUsage
  <2> DEFINE o == OptionItem(rd)
             c == SetoptItem
  <2> HIDE DEF o, c
  <2>2. o \in Call /\ c \in Call /\ o.what # "setopt" /\ c.what = "setopt"
    BY <1>3, <2>1 DEF o, c
  <2>3. calls' = calls \o Append(<<o>>, c)
    BY <1>1, <1>2, <1>5 DEF o, c
  <2>4. calls' = Append(Append(calls, o), c)
    <3>1. calls \in Seq(Call) /\ <<o>> \in Seq(Call) /\ <<c>> \in Seq(Call)
      BY <1>4, <2>2 DEF Tallied
    <3>2. Append(<<o>>, c) = <<o>> \o <<c>>
      BY <2>2, <3>1, AppendIsConcat
    <3>3. calls \o (<<o>> \o <<c>>) = (calls \o <<o>>) \o <<c>>
      BY <3>1, ConcatAssociative
    <3>4. calls \o <<o>> = Append(calls, o) /\ Append(calls, o) \in Seq(Call)
      BY <2>2, <3>1, AppendIsConcat, AppendProperties
    <3>5. Append(calls, o) \o <<c>> = Append(Append(calls, o), c)
      BY <2>2, <3>4, AppendIsConcat
    <3> QED
      BY <2>3, <3>2, <3>3, <3>4, <3>5
  <2>5. Tallied(Append(calls, o)) /\ Items(Append(calls, o)) = Append(Items(calls), o)
    BY <1>4, <2>2, TalliedAppend
  <2>6. Tallied(calls') /\ Items(calls') = Append(Items(calls), o)
    BY <2>2, <2>4, <2>5, TalliedAppend
  <2>7. /\ YuckKeeps /\ InBetween(rd') /\ rd'.umb = rd.umb /\ (Unsaid(rd) => Unsaid(rd'))
        /\ rd'.cur_usg_yldd_p = rd.cur_usg_yldd_p
    BY <1>1, <1>2, <1>5, <2>6, Emptied DEF YuckKeeps
  <2>8. Held' = <<>>
    BY <2>7, HeldThen DEF YuckKeeps, Tallied
  <2>9. Whole' = Append(Items(calls), o) \o <<>> /\ Append(Items(calls), o) \in Seq(Call)
    BY <2>2, <2>6, <2>8, AppendProperties, <1>4 DEF Whole, Tallied
  <2>10. Whole = Append(Items(calls), o)
    <3>1. Items(calls) \o <<o>> = Append(Items(calls), o)
      BY <1>4, <2>2, AppendIsConcat DEF Tallied
    <3> QED
      BY <2>1, <3>1, InvReady DEF o
  <2> QED
    BY <1>5, <2>7, <2>9, <2>10, ConcatEmptySeq
<1>6. CASE ~InOption(rd)
  <2> DEFINE p == <<SetoptItem>>
  <2>1. p \in Seq(Call)
    BY <1>3
  <2>2. s.printed = p
    BY <1>1, <1>4, <1>6 DEF Ready, Statics
  <2>3. Tallied(calls') /\ Items(calls') = Items(calls) /\ CommandOf(calls') = CommandOf(calls)
    BY <1>2, <1>3, <1>4, <2>2, PrintsOne
  <2> HIDE DEF p
  <2>4. rd' = [rd EXCEPT !.st = "UNKNOWN"]
    <3>1. s = [rd EXCEPT !.printed = p, !.st = "UNKNOWN"]
      BY <1>1, <1>6 DEF p
    <3>2. s \in Statics /\ rd \in Statics /\ rd.printed = <<>>
      BY <1>1, <1>4 DEF Ready
    <3> QED
      BY <1>2, <3>1, <3>2 DEF Statics
  <2>5. rd' \in Statics /\ rd'.printed = <<>> /\ rd'.st = "UNKNOWN"
    BY <1>4, <2>4 DEF Ready, Statics
  <2>6. /\ rd'.opt = rd.opt /\ rd'.said = rd.said /\ rd'.inter = rd.inter /\ rd'.desc = rd.desc
        /\ rd'.umb = rd.umb /\ rd'.cur_usg_yldd_p = rd.cur_usg_yldd_p /\ rd'.text = rd.text
        /\ rd'.cut = rd.cut /\ rd'.usg = rd.usg /\ rd'.cmd = rd.cmd
    BY <1>4, <2>4 DEF Ready, Statics
  <2>7. InBetween(rd) \/ InUsage(rd)
    BY <1>6 DEF Open
  <2>8. InBetween(rd') = InBetween(rd) /\ InUsage(rd') = InUsage(rd) /\ Unsaid(rd') = Unsaid(rd)
    BY <2>5, <2>6, <2>7 DEF InBetween, InUsage, Quiet, Unsaid
  <2>9. UsageItem(rd') = UsageItem(rd)
    BY <2>6 DEF UsageItem
  <2>10. Held' = HeldOf(rd)
    BY <2>3, <2>5, <2>7, <2>8, <2>9, HeldThen
       DEF Tallied, HeldOf, InBetween, InUsage, InOption, InInter, Quiet
  <2>11. Whole' = Whole
    BY <2>3, <2>10, InvReady DEF Whole
  <2> QED
    BY <1>6, <2>3, <2>5, <2>6, <2>8, <2>11 DEF YuckKeeps
<1> QED
  BY <1>5, <1>6

LEMMA Continued ==
  ASSUME NEW s \in Seq(Call), NEW it \in Call, NEW x \in Nat
  PROVE  LET w == Append(s, it)
             c == [it EXCEPT !.lines = Append(@, x)]
         IN  /\ [w EXCEPT ![Len(w)].lines = Append(@, x)] = Append(s, c)
             /\ w # <<>> /\ w[Len(w)] = it /\ c \in Call
<1> DEFINE w == Append(s, it)
           c == [it EXCEPT !.lines = Append(@, x)]
           v == [w EXCEPT ![Len(w)] = c]
<1>1. Append(it.lines, x) \in Seq(Nat)
  BY AppendProperties DEF Call
<1>2. c \in Call
  BY <1>1 DEF Call
<1>3. w \in Seq(Call) /\ Len(w) = Len(s) + 1 /\ Len(s) \in Nat /\ w[Len(w)] = it
      /\ \A i \in 1..Len(s) : w[i] = s[i]
  BY AppendProperties, LenProperties
<1>4. w # <<>>
  BY <1>3, EmptySeq
<1>5. [w EXCEPT ![Len(w)].lines = Append(@, x)] = v
  <2> HIDE DEF w
  <2> QED
    BY <1>3
<1> DEFINE u == Append(s, c)
<1>6. u \in Seq(Call) /\ Len(u) = Len(s) + 1 /\ u[Len(u)] = c /\ \A i \in 1..Len(s) : u[i] = s[i]
  BY <1>2, <1>3, AppendProperties
<1> HIDE DEF w, c, u
<1>7. v \in Seq(Call) /\ Len(v) = Len(w) /\ v[Len(w)] = c /\ \A i \in 1..Len(s) : v[i] = w[i]
  <2>1. Len(w) \in 1..Len(w)
    BY <1>3
  <2> QED
    BY <1>2, <1>3, <2>1, ExceptSeq
<1> HIDE DEF v
<1>8. \A i \in 1..Len(v) : v[i] = u[i]
  <2>1. \A i \in 1..Len(v) : i \in 1..Len(s) \/ i = Len(w)
    BY <1>3, <1>7
  <2> QED
    BY <1>3, <1>6, <1>7, <2>1
<1>9. v = u
  BY <1>3, <1>6, <1>7, <1>8, SeqEqual
<1> QED
  BY <1>2, <1>3, <1>4, <1>5, <1>9 DEF w, c, u

LEMMA LinesContinued ==
  ASSUME NEW what, NEW at, NEW of, NEW by, NEW x
  PROVE  [[what |-> what, at |-> at, of |-> of, lines |-> by] EXCEPT !.lines = Append(@, x)]
           = [what |-> what, at |-> at, of |-> of, lines |-> Append(by, x)]
<1> DEFINE it == [what |-> what, at |-> at, of |-> of, lines |-> by]
           t  == Append(it.lines, x)
<1>1. [it EXCEPT !.lines = t] = [what |-> what, at |-> at, of |-> of, lines |-> t]
  <2> HIDE DEF t
  <2> QED
    OBVIOUS
<1> QED
  BY <1>1

LEMMA GoesOnStep ==
  ASSUME YuckInv, NEW l, Snarf(l), pc' = "read", pc = "read",
         \/ InUsage(rd) /\ l = "text"
         \/ InOption(rd) /\ l \in {"prose", "deep"}
         \/ InInter(rd) /\ l \notin {"blank", NULL, "setopt"}
  PROVE  /\ YuckKeeps /\ rd'.umb = rd.umb /\ rd'.cur_usg_yldd_p = rd.cur_usg_yldd_p
         /\ l # "prose" /\ l # "deep" /\ Unsaid(rd) => Unsaid(rd')
         /\ InUsage(rd') = InUsage(rd) /\ InOption(rd') = InOption(rd) /\ InInter(rd') = InInter(rd)
         /\ InBetween(rd') = InBetween(rd)
         /\ Whole # <<>> /\ Whole \in Seq(Call)
         /\ Whole' = [Whole EXCEPT ![Len(Whole)].lines = Append(@, here)]
<1> DEFINE s == snarf_ln(rd, l)
<1>1. /\ InUsage(rd) => s = [rd EXCEPT !.desc = Append(@, here), !.st = "SET_UMBCMD"]
      /\ InOption(rd) => s = [rd EXCEPT !.text = Append(@, here), !.said = TRUE]
      /\ InInter(rd) => s = [rd EXCEPT !.inter = Append(@, here), !.st = "SET_INTER"]
  BY InvReady, GoesOn
<1>2. rd' = [s EXCEPT !.printed = <<>>] /\ calls' = calls \o s.printed
  BY DEF Snarf
<1> HIDE DEF s
<1>3. Tallied(calls) /\ Ready(rd) /\ rd \in Statics /\ rd.printed = <<>> /\ here \in Nat
  BY InvReady DEF Ready
<1>4. s.printed = <<>> /\ rd' = s
  <2>1. \A x \in Statics : x.printed = <<>> => [x EXCEPT !.printed = <<>>] = x
    BY DEF Statics
  <2>2. /\ Append(rd.desc, here) \in Seq(Nat) /\ Append(rd.text, here) \in Seq(Nat)
        /\ Append(rd.inter, here) \in Seq(Nat)
    BY <1>3 DEF Statics
  <2>3. s \in Statics /\ s.printed = <<>>
    BY ZenonT(60), <1>1, <1>3, <2>2 DEF Statics
  <2> QED
    BY <1>2, <2>1, <2>3
<1>5. calls' = calls
  BY <1>2, <1>3, <1>4, PrintsNone
<1>6. CASE InUsage(rd)
  <2> DEFINE t == Append(rd.desc, here)
  <2>1. t \in Seq(Nat) /\ t # <<>>
    <3>1. rd.desc \in Seq(Nat)
      BY <1>3 DEF Statics
    <3> QED
      BY <1>3, <3>1, AppendProperties
  <2> HIDE DEF t
  <2>2. rd' = [rd EXCEPT !.desc = t, !.st = "SET_UMBCMD"]
    BY <1>1, <1>4, <1>6 DEF t
  <2>3. /\ rd' \in Statics /\ rd'.printed = <<>> /\ rd'.desc = t /\ rd'.st = "SET_UMBCMD" /\ rd'.said = rd.said
        /\ rd'.inter = rd.inter /\ rd'.text = rd.text
        /\ rd'.opt = rd.opt /\ rd'.umb = rd.umb /\ rd'.cur_usg_yldd_p = rd.cur_usg_yldd_p
        /\ rd'.cut = rd.cut /\ rd'.usg = rd.usg /\ rd'.cmd = rd.cmd
    BY <1>3, <2>1, <2>2 DEF Statics
  <2>4. InUsage(rd') = InUsage(rd)
    BY <1>6, <2>1, <2>3 DEF InUsage, Quiet
  <2>5. InOption(rd') = InOption(rd) /\ InInter(rd') = InInter(rd) /\ InBetween(rd') = InBetween(rd)
    BY <1>6, <2>1, <2>3 DEF InUsage, InOption, InInter, InBetween, Quiet
  <2>6. UsageItem(rd') = [UsageItem(rd) EXCEPT !.lines = Append(@, here)]
    <3>1. /\ UsageItem(rd) = [what |-> IF rd.cmd THEN "command" ELSE "umbrella",
                                 at |-> rd.usg, of |-> 0, lines |-> rd.desc]
          /\ UsageItem(rd') = [what |-> IF rd.cmd THEN "command" ELSE "umbrella",
                                at |-> rd.usg, of |-> 0, lines |-> t]
      BY <2>3, ItemIs DEF UsageItem
    <3> HIDE DEF UsageItem
    <3> QED
      BY SMTT(30), <3>1, LinesContinued DEF t
  <2>7. l # "prose" /\ l # "deep" /\ Unsaid(rd) => Unsaid(rd')
    BY <1>6, <2>3 DEF Unsaid, InUsage, InOption, InInter, Quiet
  <2>8. YuckKeeps
    BY <1>3, <1>5, <2>3 DEF YuckKeeps
  <2> DEFINE it == UsageItem(rd)
             c  == UsageItem(rd')
  <2>9. Held' = <<c>>
    BY <1>5, <1>6, <2>3, <2>4, <2>8, HeldThen DEF YuckKeeps, Tallied
  <2>10. HeldOf(rd) = <<it>> /\ it \in Call
    BY <1>3, <1>6, ItemTypes DEF HeldOf, Ready, InUsage
  <2> HIDE DEF it, c
  <2>11. Items(calls) \in Seq(Call) /\ Items(calls) \o <<it>> = Append(Items(calls), it)
    BY <1>3, <2>10, AppendIsConcat DEF Tallied
  <2>12. Whole = Append(Items(calls), it)
    BY <2>10, <2>11, InvReady
  <2>13. c = [it EXCEPT !.lines = Append(@, here)]
    BY <2>6 DEF it, c
  <2>14. /\ [Whole EXCEPT ![Len(Whole)].lines = Append(@, here)] = Append(Items(calls), c)
         /\ Whole # <<>> /\ c \in Call
    BY <1>3, <2>10, <2>11, <2>12, <2>13, Continued
  <2>15. Whole' = Append(Items(calls), c)
    BY <1>5, <2>9, <2>11, <2>14, AppendIsConcat DEF Whole
  <2> QED
    BY <2>3, <2>4, <2>5, <2>7, <2>8, <2>14, <2>15, InvReady
<1>7. CASE InOption(rd)
  <2> DEFINE t == Append(rd.text, here)
  <2>1. t \in Seq(Nat) /\ t # <<>>
    <3>1. rd.text \in Seq(Nat)
      BY <1>3 DEF Statics
    <3> QED
      BY <1>3, <3>1, AppendProperties
  <2> HIDE DEF t
  <2>2. rd' = [rd EXCEPT !.text = t, !.said = TRUE]
    BY <1>1, <1>4, <1>7 DEF t
  <2>3. /\ rd' \in Statics /\ rd'.printed = <<>> /\ rd'.text = t /\ rd'.st = rd.st /\ rd'.said
        /\ rd'.desc = rd.desc /\ rd'.inter = rd.inter
        /\ rd'.opt = rd.opt /\ rd'.umb = rd.umb /\ rd'.cur_usg_yldd_p = rd.cur_usg_yldd_p
        /\ rd'.cut = rd.cut /\ rd'.usg = rd.usg /\ rd'.cmd = rd.cmd
    BY <1>3, <2>1, <2>2 DEF Statics
  <2>4. InOption(rd') = InOption(rd)
    BY <1>7, <2>1, <2>3 DEF InOption
  <2>5. InUsage(rd') = InUsage(rd) /\ InInter(rd') = InInter(rd) /\ InBetween(rd') = InBetween(rd)
    BY <1>7, <2>1, <2>3 DEF InUsage, InOption, InInter, InBetween, Quiet
  <2>6. OptionThen = [OptionItem(rd) EXCEPT !.lines = Append(@, here)]
    <3> DEFINE of == CommandOf(calls)
    <3>1. /\ OptionItem(rd) = [what |-> "option", at |-> rd.opt, of |-> of, lines |-> rd.text]
          /\ OptionThen = [what |-> "option", at |-> rd.opt, of |-> of, lines |-> t]
      BY <1>5, <2>3, ItemIs DEF OptionItem, OptionThen
    <3> DEFINE it == OptionItem(rd)
    <3>2. it = [what |-> "option", at |-> rd.opt, of |-> of, lines |-> rd.text]
      BY <3>1
    <3> HIDE DEF OptionItem, OptionThen, of, it
    <3>3. [it EXCEPT !.lines = Append(@, here)]
            = [what |-> "option", at |-> rd.opt, of |-> of, lines |-> Append(rd.text, here)]
      BY <3>2, LinesContinued
    <3> QED
      BY <3>1, <3>3 DEF t, it
  <2>7. l # "prose" /\ l # "deep" /\ Unsaid(rd) => Unsaid(rd')
    BY <1>7, <2>3 DEF Unsaid, InUsage, InOption, InInter, Quiet
  <2>8. YuckKeeps
    BY <1>3, <1>5, <2>3 DEF YuckKeeps
  <2> DEFINE it == OptionItem(rd)
             c  == OptionThen
  <2>9. Held' = <<c>>
    BY <1>5, <1>7, <2>3, <2>4, <2>8, HeldThen DEF YuckKeeps, Tallied
  <2>10. HeldOf(rd) = <<it>> /\ it \in Call
    BY <1>3, <1>7, ItemTypes DEF HeldOf, Ready, InOption, InUsage, Quiet
  <2> HIDE DEF it, c
  <2>11. Items(calls) \in Seq(Call) /\ Items(calls) \o <<it>> = Append(Items(calls), it)
    BY <1>3, <2>10, AppendIsConcat DEF Tallied
  <2>12. Whole = Append(Items(calls), it)
    BY <2>10, <2>11, InvReady
  <2>13. c = [it EXCEPT !.lines = Append(@, here)]
    BY <2>6 DEF it, c
  <2>14. /\ [Whole EXCEPT ![Len(Whole)].lines = Append(@, here)] = Append(Items(calls), c)
         /\ Whole # <<>> /\ c \in Call
    BY <1>3, <2>10, <2>11, <2>12, <2>13, Continued
  <2>15. Whole' = Append(Items(calls), c)
    BY <1>5, <2>9, <2>11, <2>14, AppendIsConcat DEF Whole
  <2> QED
    BY <2>3, <2>4, <2>5, <2>7, <2>8, <2>14, <2>15, InvReady
<1>8. CASE InInter(rd)
  <2> DEFINE t == Append(rd.inter, here)
  <2>1. t \in Seq(Nat) /\ t # <<>>
    <3>1. rd.inter \in Seq(Nat)
      BY <1>3 DEF Statics
    <3> QED
      BY <1>3, <3>1, AppendProperties
  <2> HIDE DEF t
  <2>2. rd' = [rd EXCEPT !.inter = t, !.st = "SET_INTER"]
    BY <1>1, <1>4, <1>8 DEF t
  <2>3. /\ rd' \in Statics /\ rd'.printed = <<>> /\ rd'.inter = t /\ rd'.st = "SET_INTER" /\ rd'.said = rd.said
        /\ rd'.desc = rd.desc /\ rd'.text = rd.text
        /\ rd'.opt = rd.opt /\ rd'.umb = rd.umb /\ rd'.cur_usg_yldd_p = rd.cur_usg_yldd_p
        /\ rd'.cut = rd.cut /\ rd'.usg = rd.usg /\ rd'.cmd = rd.cmd
    BY <1>3, <2>1, <2>2 DEF Statics
  <2>4. InInter(rd') = InInter(rd)
    BY <1>8, <2>1, <2>3 DEF InInter
  <2>5. InUsage(rd') = InUsage(rd) /\ InOption(rd') = InOption(rd) /\ InBetween(rd') = InBetween(rd)
    BY <1>8, <2>1, <2>3 DEF InUsage, InOption, InInter, InBetween, Quiet
  <2>6. InterItem(rd') = [InterItem(rd) EXCEPT !.lines = Append(@, here)]
    <3>1. t[1] = rd.inter[1]
      <4>1. rd.inter \in Seq(Nat) /\ rd.inter # <<>>
        BY <1>3, <1>8 DEF InInter, Statics
      <4>2. 1 \in 1..Len(rd.inter)
        BY <4>1, EmptySeq, LenProperties
      <4> QED
        BY <1>3, <4>1, <4>2, AppendProperties DEF t
    <3>2. /\ InterItem(rd) = [what |-> "paragraph", at |-> rd.inter[1], of |-> 0, lines |-> rd.inter]
          /\ InterItem(rd') = [what |-> "paragraph", at |-> rd.inter[1], of |-> 0, lines |-> t]
      BY <2>3, <3>1, ItemIs DEF InterItem
    <3> HIDE DEF InterItem
    <3> QED
      BY SMTT(30), <3>2, LinesContinued DEF t
  <2>7. l # "prose" /\ l # "deep" /\ Unsaid(rd) => Unsaid(rd')
    BY <1>8, <2>3 DEF Unsaid, InUsage, InOption, InInter, Quiet
  <2>8. YuckKeeps
    BY <1>3, <1>5, <2>3 DEF YuckKeeps
  <2> DEFINE it == InterItem(rd)
             c  == InterItem(rd')
  <2>9. Held' = <<c>>
    BY <1>5, <1>8, <2>3, <2>4, <2>8, HeldThen DEF YuckKeeps, Tallied
  <2>10. HeldOf(rd) = <<it>> /\ it \in Call
    BY <1>3, <1>8, ItemTypes DEF HeldOf, Ready, InInter, InUsage, InOption, Quiet
  <2> HIDE DEF it, c
  <2>11. Items(calls) \in Seq(Call) /\ Items(calls) \o <<it>> = Append(Items(calls), it)
    BY <1>3, <2>10, AppendIsConcat DEF Tallied
  <2>12. Whole = Append(Items(calls), it)
    BY <2>10, <2>11, InvReady
  <2>13. c = [it EXCEPT !.lines = Append(@, here)]
    BY <2>6 DEF it, c
  <2>14. /\ [Whole EXCEPT ![Len(Whole)].lines = Append(@, here)] = Append(Items(calls), c)
         /\ Whole # <<>> /\ c \in Call
    BY <1>3, <2>10, <2>11, <2>12, <2>13, Continued
  <2>15. Whole' = Append(Items(calls), c)
    BY <1>5, <2>9, <2>11, <2>14, AppendIsConcat DEF Whole
  <2> QED
    BY <2>3, <2>4, <2>5, <2>7, <2>8, <2>14, <2>15, InvReady
<1> QED
  BY <1>6, <1>7, <1>8

-----------------------------------------------------------------------------
(* The lines of the document.                                              *)

LEMMA DocumentIs ==
  /\ \A what, of, by, where : Document!Begin(what, of, by, where) <=>
       Whole' = Append(Whole, Item(what, here, of, by)) /\ Place' = where
  /\ Document!Continue <=>
       Whole' = [Whole EXCEPT ![Len(Whole)].lines = Append(@, here)] /\ Place' = Place
  /\ \A where : Document!Leave(where) <=> Place' = where /\ Whole' = Whole
  /\ Document!Command = CommandOf(Whole)
<1>1. ASSUME NEW what, NEW of, NEW by, NEW where
      PROVE  Document!Begin(what, of, by, where) <=>
               Whole' = Append(Whole, Item(what, here, of, by)) /\ Place' = where
  BY ItemIs DEF Document!Begin, Document!Item, Document!n, here, Whole
<1>2. Document!Continue <=>
        Whole' = [Whole EXCEPT ![Len(Whole)].lines = Append(@, here)] /\ Place' = Place
  BY DEF Document!Continue, Document!n, here, Whole
<1>3. ASSUME NEW where PROVE Document!Leave(where) <=> Place' = where /\ Whole' = Whole
  BY DEF Document!Leave, Whole
<1>4. Document!Command = CommandOf(Whole)
  BY DEF Document!Command, CommandOf, Whole
<1> QED
  BY <1>1, <1>2, <1>3, <1>4

LEMMA FileThen ==
  ASSUME file \in Seq(Kinds), NEW l \in Kinds, file' = Append(file, l)
  PROVE  /\ file' \in Seq(Kinds) /\ file' # <<>> /\ file'[Len(file')] = l
         /\ \A X : (\A i \in 1..Len(file') : file'[i] \notin X) <=>
                     l \notin X /\ \A i \in 1..Len(file) : file[i] \notin X
<1>1. /\ file' \in Seq(Kinds) /\ Len(file') = Len(file) + 1 /\ file'[Len(file')] = l /\ Len(file) \in Nat
      /\ \A i \in 1..Len(file) : file'[i] = file[i]
  BY AppendProperties, LenProperties
<1>2. file' # <<>>
  BY <1>1, EmptySeq
<1>3. \A i : i \in 1..Len(file') <=> i \in 1..Len(file) \/ i = Len(file')
  BY <1>1
<1> QED
  BY <1>1, <1>2, <1>3

LEMMA NamedAppend ==
  ASSUME NEW w \in Seq(Call), NEW it \in Call
  PROVE  Named(Append(w, it)) <=> Named(w) \/ it.what \in Usages
<1> DEFINE v == Append(w, it)
<1>1. /\ Len(v) = Len(w) + 1 /\ v[Len(v)] = it /\ Len(w) \in Nat
      /\ \A i \in 1..Len(w) : v[i] = w[i]
  BY AppendProperties, LenProperties
<1> HIDE DEF v
<1>2. \A i : i \in 1..Len(v) <=> i \in 1..Len(w) \/ i = Len(v)
  BY <1>1
<1>3. Named(v) <=> Named(w) \/ it.what \in Usages
  BY <1>1, <1>2 DEF Named
<1> QED
  BY <1>3 DEF v

LEMMA NamedContinued ==
  ASSUME NEW w \in Seq(Call), w # <<>>, NEW x \in Nat
  PROVE  Named([w EXCEPT ![Len(w)].lines = Append(@, x)]) <=> Named(w)
<1> DEFINE c == [w[Len(w)] EXCEPT !.lines = Append(@, x)]
           v == [w EXCEPT ![Len(w)] = c]
<1>1. Len(w) \in 1..Len(w) /\ w[Len(w)] \in Call
  BY EmptySeq, LenProperties, ElementOfSeq
<1>2. Append(w[Len(w)].lines, x) \in Seq(Nat)
  BY <1>1, AppendProperties DEF Call
<1>3. c \in Call /\ c.what = w[Len(w)].what
  BY <1>1, <1>2 DEF Call
<1>4. [w EXCEPT ![Len(w)].lines = Append(@, x)] = v
  OBVIOUS
<1> HIDE DEF c
<1>5. Len(v) = Len(w) /\ \A i \in 1..Len(w) : v[i] = IF i = Len(w) THEN c ELSE w[i]
  BY <1>1, <1>3, ExceptSeq
<1> HIDE DEF v
<1> QED
  BY <1>3, <1>4, <1>5 DEF Named

LEMMA YuckKept ==
  ASSUME YuckInv, YuckKeeps, pc' = "read", NEW l \in Kinds, file' = Append(file, l),
         Open(rd') \/ InInter(rd'), rd'.umb <=> Named(Whole'),
         rd'.umb \/ rd'.cur_usg_yldd_p \/ (~rd.umb /\ ~rd.cur_usg_yldd_p /\ l \notin Usages),
         l \notin {"option", "deep", "prose"} /\ Unsaid(rd) => Unsaid(rd'),
         InInter(rd') => l # "blank"
  PROVE  YuckInv'
<1>1. /\ file' \in Seq(Kinds) /\ file' # <<>> /\ file'[Len(file')] = l
      /\ \A X : (\A i \in 1..Len(file') : file'[i] \notin X) <=>
                  l \notin X /\ \A i \in 1..Len(file) : file[i] \notin X
  BY FileThen DEF YuckInv, YuckTypes
<1>2. YuckTypes'
  BY <1>1 DEF YuckKeeps, YuckTypes, Tallied, Items, CommandOf
<1>3. NotYet'
  BY <1>1 DEF YuckInv, NotYet
<1>4. Silence'
  BY <1>1 DEF YuckInv, Silence, Unsaid
<1>5. Filled'
  BY <1>1 DEF Filled, InInter
<1> QED
  BY <1>2, <1>3, <1>4, <1>5 DEF YuckInv, Open, InBetween, InUsage, InOption, InInter, Quiet, Named

Told(l) == \/ Document!Usage(l) \/ Document!Option(l) \/ Document!Paragraph(l) \/ Document!Described(l)
           \/ Document!Blank(l) \/ Document!Setopt(l) \/ Document!Comment(l)

\* A line, as it is read and as it is meant.
LEMMA UsageRead ==
  ASSUME YuckInv, NEW l \in Usages, Open(rd), Snarf(l), pc = "read", pc' = "read", file' = Append(file, l)
  PROVE  YuckInv' /\ Told(l)
<1> DEFINE w  == IF rd.umb THEN l ELSE "umbrella"
           it == Item(w, here, 0, <<>>)
<1>1. /\ YuckKeeps /\ InUsage(rd') /\ (Unsaid(rd) => Unsaid(rd'))
      /\ Whole' = Append(Whole, it) /\ Whole \in Seq(Call) /\ it \in Call
  BY UsageStep
<1>2. it.what \in Usages /\ l \in Kinds
  BY ItemIs, LineKinds
<1>3. Named(Whole')
  <2> HIDE DEF it
  <2> QED
    BY <1>1, <1>2, NamedAppend
<1>4. YuckInv'
  <2> HIDE DEF it
  <2> QED
    BY <1>1, <1>2, <1>3, YuckKept, LineKinds DEF Open, InUsage, InInter
<1>5. Place # "paragraph" /\ Place' = "usage"
  BY <1>1, PlaceIs, PlaceThen DEF Open
<1>6. Document!Begin(w, 0, <<>>, "usage")
  BY <1>1, <1>5, DocumentIs
<1>7. rd.umb <=> \E i \in 1..Len(Whole) : Whole[i].what \in Document!Usages
  BY DEF YuckInv, Named, Usages, Doc!Usages, Document!Usages
<1>8. Document!Usage(l)
  BY <1>5, <1>6, <1>7 DEF Document!Usage, Document!Usages, Usages, Doc!Usages, Whole
<1> QED
  BY <1>4, <1>8 DEF Told

LEMMA OptionRead ==
  ASSUME YuckInv, NEW l \in {"option", "bare", "short", "deep"}, Open(rd), Snarf(l),
         pc = "read", pc' = "read", file' = Append(file, l),
         l = "short" => Unsaid(rd), l = "deep" => ~InOption(rd)
  PROVE  YuckInv' /\ Told(l)
<1> DEFINE t  == IF l \in {"bare", "short"} THEN <<>> ELSE <<here>>
           it == Item("option", here, CommandOf(Whole), t)
<1>1. /\ YuckKeeps /\ InOption(rd') /\ rd'.umb = rd.umb
      /\ l \in {"bare", "short"} /\ Unsaid(rd) => Unsaid(rd')
      /\ Whole' = Append(Whole, it) /\ Whole \in Seq(Call) /\ it \in Call
  BY OptionStep
<1>2. it.what \notin Usages /\ l \in Kinds /\ l \notin Usages /\ l # "blank"
  BY ItemIs, LineKinds
<1>3. Named(Whole') <=> rd'.umb
  <2> HIDE DEF it
  <2> QED
    BY <1>1, <1>2, NamedAppend DEF YuckInv
<1>4. YuckInv'
  <2> HIDE DEF it
  <2> QED
    BY <1>1, <1>2, <1>3, YuckKept DEF Open, InOption
<1>5. Place # "paragraph" /\ Place' = "options" /\ (l = "deep" => Place # "options")
  BY <1>1, PlaceIs, PlaceThen DEF Open
<1>6. Document!Begin("option", Document!Command, t, "options")
  BY <1>1, <1>5, DocumentIs
<1>7. Document!Option(l)
  BY <1>5, <1>6 DEF Document!Option, Document!Options, Document!n, here
<1> QED
  BY <1>4, <1>7 DEF Told

LEMMA ParagraphRead ==
  ASSUME YuckInv, NEW l \in Kinds, Open(rd), Snarf(l), pc = "read", pc' = "read", file' = Append(file, l),
         \/ l = "prose" /\ ~InOption(rd)
         \/ l = "text" /\ rd.cur_usg_yldd_p
  PROVE  YuckInv' /\ Told(l)
<1> DEFINE it == Item("paragraph", here, 0, <<here>>)
<1>1. /\ YuckKeeps /\ InInter(rd') /\ rd'.umb = rd.umb /\ (Unsaid(rd) => Unsaid(rd'))
      /\ Whole' = Append(Whole, it) /\ Whole \in Seq(Call) /\ it \in Call
  BY InterStep
<1>2. it.what \notin Usages /\ l # "blank"
  BY ItemIs, LineKinds
<1>3. Named(Whole') <=> rd'.umb
  <2> HIDE DEF it
  <2> QED
    BY <1>1, <1>2, NamedAppend DEF YuckInv
<1>4. YuckInv'
  <2> HIDE DEF it
  <2> QED
    BY <1>1, <1>2, <1>3, YuckKept DEF InInter
<1>5. /\ Place' = "paragraph"
      /\ \/ l = "text" /\ Place \in {"between", "options"}
         \/ l = "prose" /\ Place \in {"between", "usage"}
  BY <1>1, PlaceIs, PlaceThen DEF Open, InUsage
<1>6. Document!Begin("paragraph", 0, <<here>>, "paragraph")
  BY <1>1, <1>5, DocumentIs
<1>7. Document!Paragraph(l)
  BY <1>5, <1>6 DEF Document!Paragraph, Document!n, here
<1> QED
  BY <1>4, <1>7 DEF Told

LEMMA DescriptionRead ==
  ASSUME YuckInv, NEW l \in Kinds, Snarf(l), pc = "read", pc' = "read", file' = Append(file, l),
         \/ InUsage(rd) /\ l = "text"
         \/ InOption(rd) /\ l \in {"prose", "deep"}
         \/ InInter(rd) /\ l \notin {"blank", "setopt", "comment"}
  PROVE  YuckInv' /\ Told(l)
<1>1. /\ YuckKeeps /\ rd'.umb = rd.umb /\ rd'.cur_usg_yldd_p = rd.cur_usg_yldd_p
      /\ l # "prose" /\ l # "deep" /\ Unsaid(rd) => Unsaid(rd')
      /\ InUsage(rd') = InUsage(rd) /\ InOption(rd') = InOption(rd) /\ InInter(rd') = InInter(rd)
      /\ Whole # <<>> /\ Whole \in Seq(Call)
      /\ Whole' = [Whole EXCEPT ![Len(Whole)].lines = Append(@, here)]
  <2>1. l # NULL
    BY LineKinds DEF NULL
  <2> QED
    BY <2>1, GoesOnStep
<1>2. Named(Whole') <=> rd'.umb
  <2>1. here \in Nat
    BY InvReady DEF Ready
  <2> QED
    BY <1>1, <2>1, NamedContinued DEF YuckInv
<1>3. YuckInv'
  BY <1>1, <1>2, YuckKept DEF Open, InUsage, InOption, InInter
<1>4. /\ Place' = Place
      /\ \/ Place = "usage" /\ l = "text"
         \/ Place = "options" /\ l \in {"prose", "deep"}
         \/ Place = "paragraph" /\ l \notin {"blank", "setopt", "comment"}
  BY <1>1, PlaceIs, PlaceThen
<1>5. Document!Continue
  BY <1>1, <1>4, DocumentIs
<1>6. Document!Described(l)
  BY <1>4, <1>5 DEF Document!Described
<1> QED
  BY <1>3, <1>6 DEF Told

LEMMA BlankRead ==
  ASSUME YuckInv, Snarf("blank"), pc = "read", pc' = "read", file' = Append(file, "blank")
  PROVE  YuckInv' /\ Told("blank")
<1> DEFINE ends == InInter(rd) \/ (InUsage(rd) /\ rd.desc # <<>>)
<1>1. "blank" \in Kinds /\ "blank" \notin Usages
  BY LineKinds
<1>2. ends <=> Place = "paragraph" \/ (Place = "usage" /\ Whole[Len(Whole)].lines # <<>>)
  <2>1. InUsage(rd) => Whole[Len(Whole)].lines = rd.desc
    <3>1. UsageItem(rd) \in Call
      BY InvReady, ItemTypes DEF Ready
    <3>2. UsageItem(rd).lines = rd.desc
      BY ItemIs DEF UsageItem
    <3> DEFINE it == UsageItem(rd)
    <3>3. InUsage(rd) => Whole = Items(calls) \o <<it>>
      BY InvReady DEF HeldOf
    <3> HIDE DEF it
    <3>4. /\ Items(calls) \o <<it>> = Append(Items(calls), it)
          /\ Append(Items(calls), it)[Len(Append(Items(calls), it))] = it
      <4>1. Items(calls) \in Seq(Call) /\ it \in Call
        BY <3>1, InvReady DEF it
      <4> QED
        BY <4>1, AppendIsConcat, AppendProperties
    <3> QED
      BY <3>2, <3>3, <3>4 DEF it
  <2> QED
    BY <2>1, PlaceIs DEF YuckInv, Open
<1>3. CASE ends
  <2>1. /\ YuckKeeps /\ InBetween(rd') /\ rd'.umb = rd.umb /\ rd'.cur_usg_yldd_p
        /\ Unsaid(rd) => Unsaid(rd')
        /\ Whole' = Whole
    BY <1>3, DrainStep
  <2>2. YuckInv'
    BY <1>1, <2>1, YuckKept DEF YuckInv, Open, InBetween, InInter, Quiet
  <2>3. Document!Leave("between")
    BY <2>1, PlaceThen, DocumentIs
  <2>4. Document!Blank("blank")
    BY <1>2, <1>3, <2>3 DEF Document!Blank, Whole
  <2> QED
    BY <2>2, <2>4 DEF Told
<1>4. CASE ~ends
  <2>1. InBetween(rd) \/ (InUsage(rd) /\ rd.desc = <<>>) \/ InOption(rd)
    BY <1>4 DEF YuckInv, Open
  <2>2. /\ YuckKeeps /\ rd'.umb = rd.umb /\ rd'.cur_usg_yldd_p = rd.cur_usg_yldd_p
        /\ Unsaid(rd) => Unsaid(rd')
        /\ InBetween(rd') = InBetween(rd) /\ InUsage(rd') = InUsage(rd) /\ InOption(rd') = InOption(rd)
        /\ InInter(rd') = InInter(rd)
        /\ Whole' = Whole
    BY <2>1, BlankStep
  <2>3. Open(rd') /\ ~InInter(rd')
    BY <1>4, <2>1, <2>2 DEF Open
  <2>4. YuckInv'
    BY <1>1, <2>2, <2>3, YuckKept DEF YuckInv
  <2>5. Place' = Place
    BY <2>1, <2>2, PlaceIs, PlaceThen
  <2>6. Document!Leave(Place)
    BY <2>2, <2>5, DocumentIs
  <2>7. Document!Blank("blank")
    BY <1>2, <1>4, <2>6 DEF Document!Blank, Whole
  <2> QED
    BY <2>4, <2>7 DEF Told
<1> QED
  BY <1>3, <1>4

LEMMA SetoptRead ==
  ASSUME YuckInv, Open(rd), Snarf("setopt"), pc = "read", pc' = "read", file' = Append(file, "setopt")
  PROVE  YuckInv' /\ Told("setopt")
<1>1. /\ YuckKeeps /\ rd'.umb = rd.umb /\ (Unsaid(rd) => Unsaid(rd'))
      /\ rd'.cur_usg_yldd_p = rd.cur_usg_yldd_p
      /\ InOption(rd) => InBetween(rd')
      /\ ~InOption(rd) => InBetween(rd') = InBetween(rd) /\ InUsage(rd') = InUsage(rd)
      /\ Whole' = Whole
  BY SetoptStep
<1>2. "setopt" \in Kinds /\ "setopt" \notin Usages
  BY LineKinds
<1>3. Open(rd')
  BY <1>1 DEF Open
<1>4. YuckInv'
  BY <1>1, <1>2, <1>3, YuckKept DEF YuckInv
<1>5. Place' = IF Place = "options" THEN "between" ELSE Place
  BY <1>1, PlaceIs, PlaceThen DEF Open, InUsage, InBetween, InOption
<1>6. Document!Setopt("setopt")
  BY <1>1, <1>5, DocumentIs DEF Document!Setopt
<1> QED
  BY <1>4, <1>6 DEF Told

LEMMA CommentRead ==
  ASSUME YuckInv, UNCHANGED <<rd, calls>>, pc = "read", pc' = "read", file' = Append(file, "comment")
  PROVE  YuckInv' /\ Told("comment")
<1>1. Whole' = Whole /\ Place' = Place
  BY DEF Whole, Held, Place, Items, yield_usg, yield_opt, yield_inter, CommandOf
<1>2. "comment" \in Kinds /\ "comment" \notin Usages
  BY LineKinds
<1>3. YuckKeeps /\ (Open(rd') \/ InInter(rd'))
  BY DEF YuckKeeps, YuckInv, YuckTypes, Tallied
<1>4. YuckInv'
  BY <1>1, <1>2, <1>3, YuckKept DEF YuckInv
<1>5. Document!Comment("comment")
  BY <1>1, DocumentIs DEF Document!Comment
<1> QED
  BY <1>4, <1>5 DEF Told

LEMMA LineRead ==
  ASSUME Careful, YuckInv, ReadLine
  PROVE  YuckInv' /\ Document!Line
<1>1. PICK l \in Kinds : /\ Written(l) /\ file' = Append(file, l)
                         /\ IF l = "comment" THEN UNCHANGED <<rd, calls>> ELSE Snarf(l)
  BY DEF ReadLine
<1>2. pc = "read" /\ pc' = "read" /\ Len(file) < YuckLines
  BY DEF ReadLine
<1>3. YuckInv' /\ Told(l)
  <2>1. CASE l = "comment"
    BY <1>1, <1>2, <2>1, CommentRead
  <2>2. CASE l = "blank"
    BY <1>1, <1>2, <2>2, BlankRead
  <2>3. CASE InInter(rd) /\ l \notin {"blank", "comment"}
    <3>1. l # "setopt"
      <4>1. file # <<>> /\ file[Len(file)] # "blank" /\ Len(file) \in 1..Len(file)
        BY <2>3, EmptySeq, LenProperties DEF YuckInv, YuckTypes, Filled
      <4> QED
        BY <1>1, <4>1 DEF Written
    <3> QED
      BY <1>1, <1>2, <2>3, <3>1, DescriptionRead
  <2>4. CASE ~InInter(rd) /\ l \notin {"blank", "comment"}
    <3>1. Open(rd) /\ Snarf(l)
      BY <1>1, <2>4 DEF YuckInv
    <3>2. CASE l \in Usages
      BY <1>1, <1>2, <3>1, <3>2, UsageRead
    <3>3. CASE l = "setopt"
      BY <1>1, <1>2, <3>1, <3>3, SetoptRead
    <3>4. CASE l \in {"option", "bare", "short"} \/ (l = "deep" /\ ~InOption(rd))
      <4>1. l = "short" => Unsaid(rd)
        BY <1>1 DEF Written, YuckInv, Silence
      <4> QED
        BY <1>1, <1>2, <3>1, <3>4, <4>1, OptionRead
    <3>5. CASE l \in {"prose", "deep"} /\ InOption(rd)
      BY <1>1, <1>2, <3>1, <3>5, DescriptionRead
    <3>6. CASE l = "prose" /\ ~InOption(rd)
      BY <1>1, <1>2, <3>1, <3>6, ParagraphRead
    <3>7. CASE l = "text"
      <4>1. CASE InUsage(rd)
        BY <1>1, <1>2, <3>1, <3>7, <4>1, DescriptionRead
      <4>2. CASE ~InUsage(rd)
        <5>1. rd.cur_usg_yldd_p
          <6>1. \E i \in 1..Len(file) : file[i] \in Usages
            BY <1>1, <3>7 DEF Written
          <6> QED
            BY <3>1, <4>2, <6>1 DEF YuckInv, NotYet, Open, InBetween, InOption
        <5> QED
          BY <1>1, <1>2, <3>1, <3>7, <5>1, ParagraphRead
      <4> QED
        BY <4>1, <4>2
    <3> QED
      BY <2>4, <3>2, <3>3, <3>4, <3>5, <3>6, <3>7, LineKinds
  <2> QED
    BY <2>1, <2>2, <2>3, <2>4
<1>4. Document!Line
  <2>1. l \in Document!Kinds
    BY DEF Kinds, Doc!Kinds, Document!Kinds, Doc!Usages, Document!Usages, Doc!Options, Document!Options
  <2> QED
    BY <1>1, <1>2, <1>3, <2>1 DEF Told, Document!Line
<1> QED
  BY <1>3, <1>4

LEMMA EndRead ==
  ASSUME YuckInv, EndOfFile
  PROVE  YuckInv' /\ Document!EndOfFile
<1>1. /\ YuckKeeps /\ InBetween(rd') /\ rd'.umb = rd.umb /\ rd'.cur_usg_yldd_p
      /\ Unsaid(rd) => Unsaid(rd')
      /\ Whole' = Whole
  BY DrainStep DEF EndOfFile, YuckInv
<1>2. file' = file /\ pc' \in {"read", "done"}
  BY DEF EndOfFile
<1>3. YuckInv'
  <2>1. Open(rd') /\ ~InInter(rd')
    BY <1>1 DEF Open, InBetween, InInter, Quiet
  <2>2. YuckTypes'
    BY <1>1, <1>2 DEF YuckInv, YuckTypes, YuckKeeps, Tallied, Items, CommandOf
  <2>3. NotYet' /\ Silence' /\ Filled'
    BY <1>1, <1>2, <2>1 DEF YuckInv, NotYet, Silence, Unsaid, Filled, InInter
  <2> QED
    BY <1>1, <2>1, <2>2, <2>3 DEF YuckInv, Open, InBetween, InUsage, InOption, InInter, Quiet, Named
<1>4. Document!EndOfFile
  BY <1>1, <1>2, PlaceThen, DocumentIs DEF Document!EndOfFile
<1> QED
  BY <1>3, <1>4

LEMMA YuckStarts == YuckInit => YuckInv /\ Document!Init
<1> SUFFICES ASSUME YuckInit PROVE YuckInv /\ Document!Init
  OBVIOUS
<1>1. file = <<>> /\ rd = Start /\ calls = <<>> /\ pc = "read"
  BY DEF YuckInit
<1>2. rd \in Statics /\ rd.printed = <<>>
  <2>1. <<>> \in Seq(Nat) /\ <<>> \in Seq(Call)
    OBVIOUS
  <2> QED
    BY <1>1, <2>1 DEF Start, Statics
<1>3. InBetween(rd) /\ ~InInter(rd) /\ Unsaid(rd) /\ ~rd.umb
  BY <1>1 DEF Start, InBetween, InInter, Quiet, Unsaid
<1>4. Tallied(calls) /\ Items(calls) = <<>>
  BY <1>1, NoCalls, ItemsStart
<1>5. Whole = <<>>
  <2>1. Ready(rd)
    BY <1>1, <1>2, <1>4 DEF Ready, Tallied, here
  <2>2. Held = <<>>
    BY <1>3, <2>1, HeldIs DEF Open, HeldOf, InBetween, InUsage, InOption, Quiet
  <2> QED
    BY <1>1, <1>4, <2>2 DEF Whole
<1>6. YuckInv
  BY <1>1, <1>2, <1>3, <1>4, <1>5 DEF YuckInv, YuckTypes, Open, Named, NotYet, Silence, Filled
<1>7. Document!Init
  BY <1>1, <1>3, <1>5, PlaceIs DEF Document!Init, Whole
<1> QED
  BY <1>6, <1>7

(* However the lines follow on each other, in files that are written with  *)
(* care, the calls printed and what the static variables hold make the     *)
(* document that is meant: snarf_ln and the functions it asks, for any     *)
(* number of lines and files.                                              *)
THEOREM ReadAsLaidOut ==
  ASSUME Careful
  PROVE  YuckSpec => ReadsDocument
<1>1. YuckInit => YuckInv /\ Document!Init
  BY YuckStarts
<1>2. YuckInv /\ [YuckNext]_yuckVars => YuckInv' /\ [Document!Line \/ Document!EndOfFile]_(Document!vars)
  <2> SUFFICES ASSUME YuckInv, [YuckNext]_yuckVars
               PROVE  YuckInv' /\ [Document!Line \/ Document!EndOfFile]_(Document!vars)
    OBVIOUS
  <2>1. CASE ReadLine
    BY <2>1, LineRead
  <2>2. CASE EndOfFile
    BY <2>2, EndRead
  <2>3. CASE UNCHANGED yuckVars
    <3>1. UNCHANGED <<file, rd, calls, pc>>
      BY <2>3 DEF yuckVars
    <3>2. Whole' = Whole /\ Place' = Place
      BY <3>1 DEF Whole, Held, Place, Items, yield_usg, yield_opt, yield_inter, CommandOf
    <3>3. YuckInv'
      <4>1. YuckTypes'
        <5>1. /\ file' \in Seq(Kinds) /\ pc' \in {"read", "done"}
              /\ rd' \in Statics /\ rd'.printed = <<>> /\ Tallied(calls')
          BY <3>1 DEF YuckInv, YuckTypes
        <5> QED
          BY <5>1 DEF YuckTypes, Tallied, Items, CommandOf
      <4>2. NotYet' /\ Silence' /\ Filled'
        BY <3>1 DEF YuckInv, NotYet, Silence, Filled, Unsaid, InInter
      <4>3. (Open(rd) \/ InInter(rd))' /\ (pc' = "done" => InBetween(rd'))
        BY <3>1 DEF YuckInv, Open, InBetween, InUsage, InOption, InInter, Quiet
      <4>4. rd'.umb <=> Named(Whole')
        BY <3>1, <3>2 DEF YuckInv
      <4> QED
        BY <4>1, <4>2, <4>3, <4>4 DEF YuckInv, Named
    <3>4. UNCHANGED Document!vars
      BY <3>1, <3>2 DEF Document!vars, Whole
    <3> QED
      BY <3>3, <3>4
  <2> QED
    BY <2>1, <2>2, <2>3 DEF YuckNext, Terminated
<1> QED
  BY <1>1, <1>2, PTL DEF YuckSpec, ReadsDocument, Document!Spec
=============================================================================
