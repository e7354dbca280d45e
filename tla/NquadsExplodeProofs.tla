------------------------- MODULE NquadsExplodeProofs -------------------------
(***************************************************************************)
(* Proofs about NquadsExplode, for every set of graph names, every size of *)
(* the cache, every span of the memset and whatever of prfx, tick and when *)
(* lies behind last, every way the streams are cut and every bound: no     *)
(* line is misfiled, lost or doubled, and while no fopen fails the cache   *)
(* implements ExplodeSpec; every line finds a slot, and a run ends with    *)
(* all lines in their files.  Where a memset that clears some of when, or  *)
(* tick, makes a difference the statements say so.                         *)
(***************************************************************************)
EXTENDS ExplodePromise, FiniteSetTheorems, SequenceTheorems, WellFoundedInduction, TLAPS

-----------------------------------------------------------------------------
(* Graph names.                                                            *)

(* What snarf_graph returns fits a row, is not empty and has no NUL in it. *)
LEMMA NameFacts ==
  ASSUME NEW l \in Label
  PROVE  /\ Truncate(l) \in Seq(Char)
         /\ Len(Truncate(l)) \in 2..MAX_GN
         /\ Len(Truncate(l)) <= Len(l)
         /\ \A i \in 1..Len(Truncate(l)) : Truncate(l)[i] = l[i] /\ l[i] # NUL
         /\ Len(l) < MAX_GN => Truncate(l) = l
         /\ Len(l) >= MAX_GN => Len(Truncate(l)) = MAX_GN
<1>1. IsLabel(l)
  BY LabelAssumption
<1>2. l \in Seq(Char) /\ Len(l) \in Nat /\ Len(l) >= 2
  BY <1>1 DEF IsLabel
<1>3. CASE Len(l) < MAX_GN
  BY <1>1, <1>2, <1>3, MaxGnAssumption, ElementOfSeq, LabelAssumption DEF Truncate, IsLabel
<1>4. CASE Len(l) >= MAX_GN
  <2>0. \A i \in 1..Len(l) : l[i] # NUL
    BY <1>2, ElementOfSeq, LabelAssumption
  <2>1. \A i \in 1..MAX_GN : l[i] \in Char
    BY <1>2, <1>4, MaxGnAssumption, ElementOfSeq
  <2>2. /\ SubSeq(l, 1, MAX_GN) \in Seq(Char)
        /\ Len(SubSeq(l, 1, MAX_GN)) = MAX_GN
        /\ \A i \in 1..MAX_GN : SubSeq(l, 1, MAX_GN)[i] = l[i]
    BY <2>1, MaxGnAssumption, SubSeqProperties
  <2>3. Truncate(l) = SubSeq(l, 1, MAX_GN)
    BY <1>2, <1>4, MaxGnAssumption DEF Truncate
  <2> QED
    BY <1>1, <1>2, <1>4, <2>0, <2>2, <2>3, MaxGnAssumption DEF IsLabel
<1> QED
  BY <1>2, <1>3, <1>4, MaxGnAssumption

(* No name is the beginning of another one: a name shorter than a row ends *)
(* in the only closing bracket there is, the others fill the row.          *)
LEMMA NamesPrefixFree ==
  ASSUME NEW l \in Label, NEW k \in Label,
         Len(Truncate(l)) <= Len(Truncate(k)),
         \A i \in 1..Len(Truncate(l)) : Truncate(l)[i] = Truncate(k)[i]
  PROVE  Truncate(l) = Truncate(k)
<1>1. IsLabel(l) /\ IsLabel(k)
  BY LabelAssumption
<1>2. Len(Truncate(l)) = Len(Truncate(k))
  <2>1. CASE Len(l) >= MAX_GN
    BY <2>1, NameFacts
  <2>2. CASE Len(l) < MAX_GN
    <3> DEFINE n == Len(l)
    <3>1. Truncate(l) = l /\ n \in Nat /\ n >= 2 /\ l[n] = ">"
      BY <2>2, <1>1, NameFacts DEF IsLabel
    <3>2. Truncate(k)[n] = k[n] /\ n <= Len(Truncate(k)) /\ n <= Len(k)
      BY <3>1, NameFacts
    <3>3. k[n] = ">" /\ Len(k) \in Nat
      BY <3>1, <3>2, <1>1 DEF IsLabel
    <3>4. n = Len(k)
      BY <3>1, <3>2, <3>3, <1>1 DEF IsLabel
    <3> QED
      BY <3>1, <3>2, <3>4, NameFacts
  <2> QED
    BY <2>1, <2>2, <1>1, MaxGnAssumption DEF IsLabel
<1> QED
  BY <1>2, NameFacts, SeqEqual

(* After the memcpy of a name the row finds that name and no other one,    *)
(* whatever the row held before: the stale rest of a longer name is not    *)
(* reached.                                                                *)
LEMMA OverwriteMatches ==
  ASSUME NEW row \in Row, NEW l \in Label, NEW k \in Label,
         Match(Overwrite(row, Truncate(l)), Truncate(k))
  PROVE  Truncate(k) = Truncate(l)
<1> DEFINE g == Truncate(l)
           h == Truncate(k)
<1>1. Len(g) \in 2..MAX_GN /\ Len(h) \in 2..MAX_GN
  BY NameFacts
<1>2. \A i \in 1..Len(h) : i <= Len(g) => g[i] = h[i]
  <2>1. \A i \in 1..Len(h) : Overwrite(row, g)[i] = h[i]
    BY DEF Match
  <2>2. \A i \in 1..Len(h) : i \in 1..MAX_GN
    BY <1>1, MaxGnAssumption
  <2>3. \A i \in 1..MAX_GN : i <= Len(g) => Overwrite(row, g)[i] = g[i]
    BY DEF Overwrite
  <2> QED
    BY <2>1, <2>2, <2>3
<1>3. CASE Len(g) <= Len(h)
  BY <1>1, <1>2, <1>3, NamesPrefixFree, MaxGnAssumption
<1>4. CASE Len(h) <= Len(g)
  BY <1>1, <1>2, <1>4, NamesPrefixFree, MaxGnAssumption
<1> QED
  BY <1>1, <1>3, <1>4, MaxGnAssumption

(* A row of zeros finds nothing.                                           *)
LEMMA BlankMatches ==
  ASSUME NEW l \in Label
  PROVE  ~Match(Blank, Truncate(l))
  BY NameFacts, MaxGnAssumption DEF Match, Blank

LEMMA OverwriteRow ==
  ASSUME NEW row \in Row, NEW l \in Label
  PROVE  Overwrite(row, Truncate(l)) \in Row
<1>1. \A i \in 1..Len(Truncate(l)) : Truncate(l)[i] \in Char
  BY NameFacts, ElementOfSeq
<1> QED
  BY <1>1, NameFacts, MaxGnAssumption DEF Overwrite, Row
-----------------------------------------------------------------------------
(* The pieces that may be in a file.                                       *)

Graph      == Label \cup {NoLabel}
Pc(L)      == (1..Len(L)) \X {1, 2}
Of(L, s)   == {x \in Pc(L) : Mkfn(Truncate(L[x[1]])) = s}

\* The files d hold pieces of the lines L only where they belong.
SortedDisk(L, d) == /\ d \in [Path -> Seq(Pc(L))]
                    /\ \A p \in Path : d[p] \in Seq(Of(L, p[2]))

\* So do the buffers b of the streams f, and a closed stream has none.
SortedBuf(L, f, b) ==
  /\ f \in [Slot -> Path \cup {Closed}]
  /\ b \in [Slot -> Seq(Pc(L))]
  /\ \A w \in Slot : /\ f[w] # Closed => b[w] \in Seq(Of(L, f[w][2]))
                     /\ f[w] = Closed => b[w] = <<>>

\* So do the streams a that no slot has any more.
SortedAdrift(L, a) ==
  \A s \in a : s \in Path \X Seq(Pc(L)) /\ s[2] \in Seq(Of(L, s[1][2]))

(* A file is not taken for the mark of a closed stream.                    *)
LEMMA PathNotClosed == \A p \in Path : p # Closed
  BY DEF Path, Closed

(* Reading a line takes no piece out of its file, and the pieces of the    *)
(* line belong to the file of its graph.                                   *)
LEMMA OfGrows ==
  ASSUME NEW L \in Seq(Graph), NEW l \in Graph
  PROVE  /\ Pc(L) \subseteq Pc(Append(L, l))
         /\ \A s : Of(L, s) \subseteq Of(Append(L, l), s)
         /\ \A h \in {1, 2} : /\ <<Len(L) + 1, h>> \in Pc(Append(L, l))
                             /\ <<Len(L) + 1, h>> \in Of(Append(L, l), Mkfn(Truncate(l)))
<1>1. /\ Append(L, l) \in Seq(Graph) /\ Len(Append(L, l)) = Len(L) + 1
      /\ \A i \in 1..Len(L) : Append(L, l)[i] = L[i]
      /\ Append(L, l)[Len(L) + 1] = l /\ Len(L) \in Nat
  BY AppendProperties, LenProperties
<1>2. Pc(L) \subseteq Pc(Append(L, l))
  BY <1>1 DEF Pc
<1>3. ASSUME NEW s, NEW x \in Of(L, s)
      PROVE  x \in Of(Append(L, l), s)
  <2>1. x \in Pc(L) /\ x[1] \in 1..Len(L)
    BY <1>3 DEF Of, Pc
  <2> QED
    BY <1>1, <1>2, <1>3, <2>1 DEF Of
<1>4. ASSUME NEW h \in {1, 2}
      PROVE  /\ <<Len(L) + 1, h>> \in Pc(Append(L, l))
             /\ <<Len(L) + 1, h>> \in Of(Append(L, l), Mkfn(Truncate(l)))
  <2>1. <<Len(L) + 1, h>> \in Pc(Append(L, l)) /\ <<Len(L) + 1, h>>[1] = Len(L) + 1
    BY <1>1 DEF Pc
  <2> QED
    BY <1>1, <2>1 DEF Of
<1> QED
  BY <1>2, <1>3, <1>4

LEMMA SortedGrows ==
  ASSUME NEW L \in Seq(Graph), NEW l \in Graph
  PROVE  /\ \A d : SortedDisk(L, d) => SortedDisk(Append(L, l), d)
         /\ \A f, b : SortedBuf(L, f, b) => SortedBuf(Append(L, l), f, b)
         /\ \A a : SortedAdrift(L, a) => SortedAdrift(Append(L, l), a)
<1>1. \A s : s \in Seq(Pc(L)) => s \in Seq(Pc(Append(L, l)))
  BY OfGrows, SeqMonotonic
<1>2. \A s, t : t \in Seq(Of(L, s)) => t \in Seq(Of(Append(L, l), s))
  BY OfGrows, SeqMonotonic
<1>3. ASSUME NEW d, SortedDisk(L, d) PROVE SortedDisk(Append(L, l), d)
  BY <1>1, <1>2, <1>3 DEF SortedDisk
<1>4. ASSUME NEW f, NEW b, SortedBuf(L, f, b) PROVE SortedBuf(Append(L, l), f, b)
  BY <1>1, <1>2, <1>4 DEF SortedBuf
<1>5. ASSUME NEW a, SortedAdrift(L, a) PROVE SortedAdrift(Append(L, l), a)
  BY <1>1, <1>2, <1>5 DEF SortedAdrift
<1> QED
  BY <1>3, <1>4, <1>5

(* Closing a stream leaves the files sorted.                               *)
LEMMA FcloseSorted ==
  ASSUME NEW L, NEW d, NEW w \in Slot,
         SortedDisk(L, d), SortedBuf(L, fp, buf)
  PROVE  SortedDisk(L, Fclose(d, w))
<1>1. CASE fp[w] = Closed
  BY <1>1 DEF Fclose
<1>2. CASE fp[w] # Closed
  <2> DEFINE p == fp[w]
             c == d[p] \o buf[w]
  <2>1. p \in Path /\ d[p] \in Seq(Pc(L)) /\ buf[w] \in Seq(Pc(L))
        /\ d[p] \in Seq(Of(L, p[2])) /\ buf[w] \in Seq(Of(L, p[2]))
    BY <1>2 DEF SortedDisk, SortedBuf
  <2>2. c \in Seq(Pc(L)) /\ c \in Seq(Of(L, p[2]))
    BY <2>1, ConcatProperties
  <2>3. Fclose(d, w) = [d EXCEPT ![p] = c]
    BY <1>2, <2>1 DEF Fclose, SortedDisk
  <2> QED
    BY <2>1, <2>2, <2>3 DEF SortedDisk
<1> QED
  BY <1>1, <1>2

(* A stream that is lost sight of is as sorted as before.                  *)
LEMMA OverwrittenSorted ==
  ASSUME NEW L, NEW w \in Slot, SortedBuf(L, fp, buf), SortedAdrift(L, adrift)
  PROVE  SortedAdrift(L, Overwritten(w))
<1>1. ASSUME fp[w] # Closed
      PROVE  <<fp[w], buf[w]>> \in Path \X Seq(Pc(L)) /\ buf[w] \in Seq(Of(L, fp[w][2]))
  BY <1>1 DEF SortedBuf
<1> QED
  BY <1>1 DEF SortedAdrift, Overwritten

(* Writing a line to the stream of its graph leaves files and buffers      *)
(* sorted, wherever the buffer is cut.                                     *)
LEMMA FwriteSorted ==
  ASSUME NEW L \in Seq(Graph), NEW l \in Label, NEW w \in Slot,
         NEW d, NEW p \in Path, NEW b,
         p[2] = Mkfn(Truncate(l)),
         SortedDisk(L, d), buf \in [Slot -> Seq(Pc(L))], b \in Seq(Of(L, p[2])),
         Fwrite(d, w, p, b, Len(L) + 1)
  PROVE  /\ SortedDisk(Append(L, l), disk')
         /\ buf' \in [Slot -> Seq(Pc(Append(L, l)))]
         /\ \A v \in Slot : v # w => buf'[v] = buf[v]
         /\ buf'[w] \in Seq(Of(Append(L, l), p[2]))
<1> DEFINE M   == Append(L, l)
           all == b \o Pieces(Len(L) + 1)
           O   == Of(M, p[2])
<1>0. l \in Graph /\ O \subseteq Pc(M)
  BY DEF Graph, Of
<1>1. Pieces(Len(L) + 1) \in Seq(O)
  BY <1>0, OfGrows DEF Pieces
<1>2. b \in Seq(O)
  BY <1>0, OfGrows, SeqMonotonic
<1>3. all \in Seq(O) /\ Len(all) \in Nat
  BY <1>1, <1>2, ConcatProperties, LenProperties
<1>4. PICK k \in 0..Len(all) :
        /\ buf' = [buf EXCEPT ![w] = SubSeq(all, k + 1, Len(all))]
        /\ disk' = IF k = 0 THEN d ELSE [d EXCEPT ![p] = @ \o SubSeq(all, 1, k)]
  BY PathNotClosed DEF Fwrite
<1>5. SubSeq(all, k + 1, Len(all)) \in Seq(O) /\ SubSeq(all, 1, k) \in Seq(O)
  <2>1. \A i \in 1..Len(all) : all[i] \in O
    BY <1>3, ElementOfSeq
  <2>2. /\ \A i \in (k + 1)..Len(all) : all[i] \in O
        /\ \A i \in 1..k : all[i] \in O
    BY <1>3, <2>1
  <2> QED
    BY <1>3, <2>2, SubSeqProperties
<1>6. SortedDisk(M, d) /\ buf \in [Slot -> Seq(Pc(M))]
  <2>1. SortedDisk(M, d)
    BY <1>0, SortedGrows
  <2>2. \A s : s \in Seq(Pc(L)) => s \in Seq(Pc(M))
    BY <1>0, OfGrows, SeqMonotonic
  <2> QED
    BY <2>1, <2>2
<1>7. SortedDisk(M, disk')
  <2> DEFINE c == d[p] \o SubSeq(all, 1, k)
  <2>1. d[p] \in Seq(O)
    BY <1>6 DEF SortedDisk
  <2>2. c \in Seq(O)
    BY <1>5, <2>1, ConcatProperties
  <2>3. c \in Seq(Pc(M))
    BY <1>0, <2>2, SeqMonotonic
  <2>4. disk' = IF k = 0 THEN d ELSE [d EXCEPT ![p] = c]
    BY <1>4
  <2> QED
    BY <1>6, <2>2, <2>3, <2>4 DEF SortedDisk
<1>8. SubSeq(all, k + 1, Len(all)) \in Seq(Pc(M))
  BY <1>0, <1>5, SeqMonotonic
<1> HIDE DEF all, O, M
<1> QED
  BY <1>4, <1>5, <1>6, <1>7, <1>8 DEF O, M
-----------------------------------------------------------------------------
(* The inductive invariant.                                                *)

\* The types that SortedDisk, SortedBuf and SortedAdrift do not give.
Types ==
  /\ phase \in {"main", "explode", "close", "exit", "done"}
  /\ inputs \in 0..MaxInputs
  /\ lines \in Seq(Graph) /\ Len(lines) <= MaxLines
  /\ reported \in SUBSET (1..Len(lines))
  /\ fails \in 0..MaxFails
  /\ spilt \in SUBSET {"prefix", "tick", "when"}
  /\ tick \in 0..Len(lines)
  /\ last \in [Slot -> Row]
  /\ when \in [Slot -> 0..Len(lines)]
  /\ cl \in 1..(NMRU + 1)

\* There is a slot the search for a victim can settle on.
Evictable == \E w \in Slot : when[w] <= tick

\* A row that finds a name belongs to a stream on the file of that name.
Cached ==
  phase = "explode" =>
    \A w \in Slot, l \in Label :
      Match(last[w], Truncate(l)) =>
        fp[w] # Closed /\ fp[w][2] = Mkfn(Truncate(l))

\* A slot with a tick has an open stream, and outside of explode no slot has.
Ticked ==
  /\ phase = "explode" => \A w \in Slot : when[w] # 0 => fp[w] # Closed
  /\ phase \in {"main", "exit", "done"} =>
       \A w \in Slot : fp[w] = Closed /\ when[w] = 0 /\ last[w] = Blank
  /\ phase = "done" => adrift = {}

\* With when as the code left it no other stream is open.
Known ==
  WhenKept =>
    /\ adrift = {}
    /\ phase = "explode" => \A w \in Slot : when[w] = 0 => fp[w] = Closed
    /\ phase = "close" => \A w \in Slot : w < cl \/ when[w] = 0 => fp[w] = Closed

IInv == /\ Types
        /\ Evictable
        /\ SortedDisk(lines, disk)
        /\ SortedBuf(lines, fp, buf)
        /\ SortedAdrift(lines, adrift)
        /\ Cached
        /\ Ticked
        /\ Known

(* At the start nothing is cached, open or written.                        *)
LEMMA InitIInv == Init => IInv
<1> SUFFICES ASSUME Init PROVE IInv
  OBVIOUS
<1>1. Types
  <2>1. Blank \in Row
    BY DEF Blank, Row
  <2>2. lines \in Seq(Graph) /\ Len(lines) = 0
    BY EmptySeq DEF Init
  <2> QED
    BY <2>1, <2>2, CacheAssumption, BoundAssumption DEF Init, Types
<1>2. SortedDisk(lines, disk)
  BY EmptySeq DEF Init, SortedDisk
<1>3. SortedBuf(lines, fp, buf)
  BY EmptySeq DEF Init, SortedBuf
<1>4. Cached /\ Ticked /\ Known /\ SortedAdrift(lines, adrift)
  BY DEF Init, Cached, Ticked, Known, SortedAdrift
<1>5. Evictable
  BY SMTT(30), CacheAssumption DEF Init, Evictable, Slot
<1> QED
  BY <1>1, <1>2, <1>3, <1>4, <1>5 DEF IInv

(* Reading a line keeps the types that depend on the lines alone.          *)
LEMMA GetlineTypes ==
  ASSUME Types, NEW l \in Graph, Getline(l)
  PROVE  /\ phase = "explode" /\ phase' = "explode"
         /\ inputs' \in 0..MaxInputs /\ cl' \in 1..(NMRU + 1)
         /\ lines' = Append(lines, l)
         /\ lines' \in Seq(Graph) /\ Len(lines') = Len(lines) + 1
         /\ Len(lines) \in Nat /\ Len(lines') <= MaxLines
         /\ reported \in SUBSET (1..Len(lines'))
         /\ reported \cup {ThisLine} \in SUBSET (1..Len(lines'))
         /\ ThisLine = Len(lines) + 1
         /\ tick \in 0..Len(lines') /\ tick + 1 \in 0..Len(lines')
         /\ when \in [Slot -> 0..Len(lines')]
<1>1. lines \in Seq(Graph) /\ Len(lines) \in Nat /\ lines' = Append(lines, l)
  BY LenProperties DEF Types, Getline
<1>2. lines' \in Seq(Graph) /\ Len(lines') = Len(lines) + 1
  BY <1>1, AppendProperties
<1>3. /\ reported \in SUBSET (1..Len(lines'))
      /\ reported \cup {ThisLine} \in SUBSET (1..Len(lines'))
  <2>1. 1..Len(lines) \subseteq 1..Len(lines') /\ ThisLine \in 1..Len(lines')
    BY <1>1, <1>2 DEF ThisLine
  <2> QED
    BY <2>1 DEF Types
<1>4. Len(lines) < MaxLines /\ MaxLines \in Nat
  BY BoundAssumption DEF Getline
<1>5. phase = "explode" /\ phase' = "explode" /\ inputs' \in 0..MaxInputs /\ cl' \in 1..(NMRU + 1)
  BY DEF Types, Getline
<1>6. tick \in 0..Len(lines') /\ tick + 1 \in 0..Len(lines')
  BY <1>1, <1>2 DEF Types
<1>7. when \in [Slot -> 0..Len(lines')]
  <2>1. \A k \in 0..Len(lines) : k \in 0..Len(lines')
    BY <1>1, <1>2
  <2> QED
    BY <2>1 DEF Types
<1> QED
  BY <1>1, <1>2, <1>3, <1>4, <1>5, <1>6, <1>7 DEF ThisLine

LEMMA NoGraphIInv ==
  ASSUME IInv, NoGraph
  PROVE  IInv'
<1>1. Types /\ NoLabel \in Graph /\ Getline(NoLabel)
  BY DEF IInv, NoGraph, Graph
<1>2. Types'
  BY <1>1, GetlineTypes DEF Types, NoGraph, cache
<1>3. SortedDisk(lines, disk)' /\ SortedBuf(lines, fp, buf)' /\ SortedAdrift(lines, adrift)'
  <2>1. lines \in Seq(Graph) /\ lines' = Append(lines, NoLabel)
    BY <1>1, GetlineTypes DEF Types
  <2>2. SortedDisk(lines', disk) /\ SortedBuf(lines', fp, buf) /\ SortedAdrift(lines', adrift)
    BY <1>1, <2>1, SortedGrows DEF IInv
  <2> QED
    BY <2>2 DEF NoGraph, cache, SortedDisk, SortedBuf, SortedAdrift
<1>4. Cached' /\ Ticked' /\ Known' /\ Evictable'
  BY <1>1, GetlineTypes DEF IInv, Cached, Ticked, Known, WhenKept, Evictable, NoGraph, cache
<1> QED
  BY <1>2, <1>3, <1>4 DEF IInv

LEMMA HitIInv ==
  ASSUME IInv, NEW l \in Label, NEW w \in Slot, Hit(l, w)
  PROVE  IInv'
<1>1. Types /\ l \in Graph /\ Getline(l) /\ phase = "explode"
  BY DEF IInv, Hit, Graph, Getline
<1>2. fp[w] \in Path /\ fp[w] # Closed /\ fp[w][2] = Mkfn(Truncate(l))
  BY <1>1 DEF IInv, Cached, Hit, FoundAt, SortedBuf
<1>3. UNCHANGED <<reported, fails, spilt, tick, last, when, fp, adrift>>
  BY DEF Hit, cache
<1>4. /\ lines \in Seq(Graph) /\ lines' = Append(lines, l)
      /\ SortedDisk(lines, disk) /\ SortedBuf(lines, fp, buf)
      /\ buf \in [Slot -> Seq(Pc(lines))]
      /\ buf[w] \in Seq(Of(lines, fp[w][2]))
      /\ Fwrite(disk, w, fp[w], buf[w], Len(lines) + 1)
  BY <1>1, <1>2, GetlineTypes DEF Hit, IInv, Types, SortedBuf
<1>5. /\ SortedDisk(lines', disk')
      /\ buf' \in [Slot -> Seq(Pc(lines'))]
      /\ \A v \in Slot : v # w => buf'[v] = buf[v]
      /\ buf'[w] \in Seq(Of(lines', fp[w][2]))
  BY <1>2, <1>4, FwriteSorted
<1>6. SortedBuf(lines', fp', buf')
  <2>1. SortedBuf(lines', fp, buf)
    BY <1>1, <1>4, SortedGrows
  <2> QED
    BY <1>2, <1>3, <1>5, <2>1 DEF SortedBuf
<1>7. Types'
  BY <1>1, <1>3, GetlineTypes DEF Types
<1>8. Cached' /\ Ticked' /\ Known' /\ Evictable'
  BY <1>1, <1>3, GetlineTypes DEF IInv, Cached, Ticked, Known, WhenKept, Evictable
<1>9. SortedAdrift(lines', adrift')
  BY <1>1, <1>3, <1>4, SortedGrows DEF IInv
<1> QED
  BY <1>5, <1>6, <1>7, <1>8, <1>9 DEF IInv, SortedDisk, SortedBuf, SortedAdrift

(* A miss closes the victim in the files, or loses sight of it.            *)
LEMMA MissFacts ==
  ASSUME IInv, NEW l \in Label, NEW w \in Slot, Miss(l, w)
  PROVE  /\ phase = "explode" /\ Getline(l) /\ l \in Graph /\ Types
         /\ SortedDisk(lines, Evicted(w))
         /\ SortedAdrift(lines, Overwritten(w))
         /\ WhenKept => Overwritten(w) = {}
<1>1. phase = "explode" /\ Getline(l) /\ l \in Graph /\ Types
  BY DEF Miss, Getline, Graph, IInv
<1>2. SortedDisk(lines, Evicted(w))
  BY FcloseSorted DEF IInv, Evicted
<1>3. SortedAdrift(lines, Overwritten(w))
  BY OverwrittenSorted DEF IInv
<1>4. WhenKept => Overwritten(w) = {}
  BY <1>1 DEF IInv, Known, Overwritten
<1> QED
  BY <1>1, <1>2, <1>3, <1>4

LEMMA MissOpenIInv ==
  ASSUME IInv, NEW l \in Label, NEW w \in Slot, MissOpen(l, w)
  PROVE  IInv'
<1> DEFINE g == Truncate(l)
           p == PathOf(g)
<1>1. Miss(l, w)
  BY DEF MissOpen
<1>2. /\ phase = "explode" /\ Getline(l) /\ l \in Graph /\ Types
      /\ SortedDisk(lines, Evicted(w))
      /\ SortedAdrift(lines, Overwritten(w))
      /\ WhenKept => Overwritten(w) = {}
  BY <1>1, MissFacts
<1>3. /\ fp'   = [fp EXCEPT ![w] = p]
      /\ when' = [when EXCEPT ![w] = tick + 1]
      /\ last' = [last EXCEPT ![w] = Overwrite(last[w], g)]
      /\ tick' = tick + 1 /\ adrift' = Overwritten(w)
      /\ UNCHANGED <<reported, fails, spilt>>
  BY DEF MissOpen, Stamp
<1>4. p \in Path /\ p # Closed /\ p[2] = Mkfn(g)
  BY <1>2, PathNotClosed DEF PathOf, Path, Stem, Name, Types
<1>5. /\ lines \in Seq(Graph) /\ lines' = Append(lines, l)
      /\ SortedBuf(lines, fp, buf)
      /\ buf \in [Slot -> Seq(Pc(lines))]
      /\ <<>> \in Seq(Of(lines, p[2]))
      /\ Fwrite(Evicted(w), w, p, <<>>, Len(lines) + 1)
  BY <1>2, GetlineTypes, EmptySeq DEF MissOpen, IInv, Types, SortedBuf
<1>6. /\ SortedDisk(lines', disk')
      /\ buf' \in [Slot -> Seq(Pc(lines'))]
      /\ \A v \in Slot : v # w => buf'[v] = buf[v]
      /\ buf'[w] \in Seq(Of(lines', p[2]))
  <2> HIDE DEF p
  <2>1. Fwrite(Evicted(w), w, p, <<>>, Len(lines) + 1) /\ SortedDisk(lines, Evicted(w))
    BY <1>2, <1>5
  <2>2. /\ SortedDisk(Append(lines, l), disk')
        /\ buf' \in [Slot -> Seq(Pc(Append(lines, l)))]
        /\ \A v \in Slot : v # w => buf'[v] = buf[v]
        /\ buf'[w] \in Seq(Of(Append(lines, l), p[2]))
    BY <1>4, <1>5, <2>1, FwriteSorted
  <2> QED
    BY <1>5, <2>2
<1>7. SortedBuf(lines', fp', buf')
  <2>1. SortedBuf(lines', fp, buf)
    BY <1>2, <1>5, SortedGrows
  <2>2. fp \in [Slot -> Path \cup {Closed}]
    BY <2>1 DEF SortedBuf
  <2>3. fp'[w] = p /\ \A v \in Slot : v # w => fp'[v] = fp[v] /\ buf'[v] = buf[v]
    BY <1>3, <1>6, <2>2
  <2>4. fp' \in [Slot -> Path \cup {Closed}]
    BY <1>3, <1>4, <2>2
  <2> HIDE DEF p
  <2> QED
    BY <1>4, <1>6, <2>1, <2>3, <2>4 DEF SortedBuf
<1>8. Types'
  <2>1. last' \in [Slot -> Row]
    BY <1>2, <1>3, OverwriteRow DEF Types
  <2>2. when' \in [Slot -> 0..Len(lines')]
    BY <1>2, <1>3, GetlineTypes
  <2> QED
    BY <1>2, <1>3, <2>1, <2>2, GetlineTypes DEF Types
<1>9. Cached'
  <2> SUFFICES ASSUME NEW v \in Slot, NEW k \in Label,
                      Match(last'[v], Truncate(k))
               PROVE  fp'[v] # Closed /\ fp'[v][2] = Mkfn(Truncate(k))
    BY DEF Cached, Match
  <2>1. CASE v = w
    <3>1. last'[w] = Overwrite(last[w], g) /\ last[w] \in Row /\ fp'[w] = p
      BY <1>2, <1>3 DEF Types, IInv, SortedBuf
    <3>2. Truncate(k) = g
      BY <2>1, <3>1, OverwriteMatches
    <3> QED
      BY <1>4, <2>1, <3>1, <3>2
  <2>2. CASE v # w
    <3>1. last'[v] = last[v] /\ fp'[v] = fp[v]
      BY <1>2, <1>3, <2>2 DEF Types, IInv, SortedBuf
    <3> QED
      BY <1>2, <3>1 DEF IInv, Cached
  <2> QED
    BY <2>1, <2>2
<1>10. Ticked' /\ Known' /\ Evictable'
  <2>1. phase' = "explode" /\ (WhenKept' => WhenKept)
    BY <1>2, <1>3, GetlineTypes DEF WhenKept
  <2>2. when'[w] = tick' /\ when'[w] # 0 /\ fp'[w] # Closed
    BY <1>2, <1>3, <1>4 DEF Types, IInv, SortedBuf
  <2>3. \A v \in Slot : v # w => when'[v] = when[v] /\ fp'[v] = fp[v]
    BY <1>2, <1>3 DEF Types, IInv, SortedBuf
  <2>4. Ticked'
    BY <1>2, <2>1, <2>2, <2>3 DEF IInv, Ticked
  <2>5. Known'
    BY <1>2, <1>3, <2>1, <2>2, <2>3 DEF IInv, Known
  <2>6. Evictable'
    BY <1>2, <1>3, <2>2 DEF Evictable, Types
  <2> QED
    BY <2>4, <2>5, <2>6
<1>11. SortedAdrift(lines', adrift')
  BY <1>2, <1>3, <1>5, SortedGrows
<1> QED
  BY <1>6, <1>7, <1>8, <1>9, <1>10, <1>11 DEF IInv, SortedDisk, SortedBuf, SortedAdrift

LEMMA MissFailIInv ==
  ASSUME IInv, NEW l \in Label, NEW w \in Slot, MissFail(l, w)
  PROVE  IInv'
<1>1. Miss(l, w)
  BY DEF MissFail
<1>2. /\ phase = "explode" /\ Getline(l) /\ l \in Graph /\ Types
      /\ SortedDisk(lines, Evicted(w))
      /\ SortedAdrift(lines, Overwritten(w))
      /\ WhenKept => Overwritten(w) = {}
  BY <1>1, MissFacts
<1>3. /\ fails < MaxFails /\ fails' = fails + 1
      /\ reported' = reported \cup {ThisLine}
      /\ disk'     = Evicted(w)
      /\ adrift'   = Overwritten(w)
      /\ fp'       = [fp EXCEPT ![w] = Closed]
      /\ buf'      = [buf EXCEPT ![w] = <<>>]
      /\ last'     = Cleared(w)
  BY DEF MissFail
<1>a. PICK hit \in Reached(w) :
        /\ spilt' = spilt \cup hit
        /\ tick'  = IF "tick" \in hit THEN 0 ELSE tick + 1
        /\ \E k \in 0..(IF "when" \in hit THEN NMRU ELSE 0) :
             when' = [v \in Slot |-> IF v = w \/ v <= k THEN 0 ELSE when[v]]
  BY DEF MissFail
<1>b. PICK k \in 0..(IF "when" \in hit THEN NMRU ELSE 0) :
        when' = [v \in Slot |-> IF v = w \/ v <= k THEN 0 ELSE when[v]]
  BY <1>a
<1>c. hit \subseteq {"prefix", "tick", "when"}
  BY CacheAssumption DEF Reached
<1>4. /\ lines \in Seq(Graph) /\ lines' = Append(lines, l)
      /\ SortedDisk(lines', disk') /\ SortedBuf(lines', fp, buf)
      /\ SortedAdrift(lines', adrift')
  <2>1. lines \in Seq(Graph) /\ lines' = Append(lines, l)
    BY <1>2, GetlineTypes DEF Types
  <2> QED
    BY <1>2, <1>3, <2>1, SortedGrows DEF IInv
<1>5. \A v \in Slot : last'[v] = Blank \/ last'[v] = last[v]
  BY <1>3 DEF Cleared
<1>6. last'[w] = Blank
  BY <1>3, CacheAssumption DEF Cleared, Slot
<1>7. \A v \in Slot : IF v = w THEN fp'[v] = Closed /\ buf'[v] = <<>>
                              ELSE fp'[v] = fp[v] /\ buf'[v] = buf[v]
  BY <1>2, <1>3, <1>4 DEF SortedBuf
<1>8. SortedBuf(lines', fp', buf')
  <2>1. fp' \in [Slot -> Path \cup {Closed}]
    BY <1>3, <1>4 DEF SortedBuf
  <2>2. buf' \in [Slot -> Seq(Pc(lines'))]
    BY <1>3, <1>4, EmptySeq DEF SortedBuf
  <2> QED
    BY <1>4, <1>7, <2>1, <2>2 DEF SortedBuf
<1>9. Types'
  <2>1. Blank \in Row
    BY DEF Blank, Row
  <2>2. last' \in [Slot -> Row]
    BY <1>2, <1>3, <2>1 DEF Types, Cleared
  <2>3. when' \in [Slot -> 0..Len(lines')]
    <3>1. when \in [Slot -> 0..Len(lines')] /\ Len(lines') \in Nat
      BY <1>2, GetlineTypes
    <3> QED
      BY <1>b, <3>1
  <2>4. fails' \in 0..MaxFails
    BY <1>2, <1>3, BoundAssumption DEF Types
  <2>5. spilt' \in SUBSET {"prefix", "tick", "when"}
    BY <1>2, <1>a, <1>c DEF Types
  <2>6. tick' \in 0..Len(lines')
    <3>1. tick + 1 \in 0..Len(lines') /\ Len(lines') \in Nat
      BY <1>2, GetlineTypes
    <3> QED
      BY <1>a, <3>1
  <2> QED
    BY <1>2, <1>3, <2>2, <2>3, <2>4, <2>5, <2>6, GetlineTypes DEF Types
<1>10. Cached'
  <2> SUFFICES ASSUME NEW v \in Slot, NEW m \in Label,
                      Match(last'[v], Truncate(m))
               PROVE  fp'[v] # Closed /\ fp'[v][2] = Mkfn(Truncate(m))
    BY DEF Cached, Match
  <2>1. last'[v] # Blank
    BY BlankMatches
  <2>2. v # w /\ last'[v] = last[v] /\ fp'[v] = fp[v]
    BY <1>5, <1>6, <1>7, <2>1
  <2> QED
    BY <1>2, <2>2 DEF IInv, Cached
<1>11. Ticked' /\ Known' /\ Evictable'
  <2>1. phase' = "explode"
    BY <1>2, GetlineTypes
  <2>2. \A v \in Slot : when'[v] = 0 \/ (v # w /\ when'[v] = when[v])
    BY <1>b
  <2>3. Ticked'
    BY <1>2, <1>7, <2>1, <2>2 DEF IInv, Ticked
  <2>4. ASSUME WhenKept' PROVE WhenKept /\ \A v \in Slot : v # w => when'[v] = when[v]
    <3>1. "when" \notin spilt /\ "when" \notin hit
      BY <1>a, <2>4 DEF WhenKept
    <3>2. k = 0 /\ \A v \in Slot : ~(v <= k)
      BY <3>1, CacheAssumption DEF Slot
    <3> QED
      BY <1>b, <3>1, <3>2 DEF WhenKept
  <2>5. Known'
    BY <1>2, <1>3, <1>7, <2>1, <2>4 DEF IInv, Known
  <2>6. when'[w] = 0 /\ tick' >= 0
    BY <1>2, <1>a, <1>b DEF Types
  <2>7. Evictable'
    BY <2>6 DEF Evictable
  <2> QED
    BY <2>3, <2>5, <2>7
<1> QED
  BY <1>4, <1>8, <1>9, <1>10, <1>11 DEF IInv, SortedDisk, SortedBuf, SortedAdrift

LEMMA EndOfInputIInv ==
  ASSUME IInv, EndOfInput
  PROVE  IInv'
<1>1. /\ phase = "explode" /\ phase' = "close" /\ cl' = 1
      /\ UNCHANGED <<inputs, lines, reported, fails, spilt, tick, last, when, fp, buf, adrift, disk>>
  BY DEF EndOfInput, cache
<1>2. Types'
  BY <1>1, CacheAssumption DEF IInv, Types
<1>3. Cached' /\ Ticked' /\ Evictable'
  BY <1>1 DEF IInv, Cached, Ticked, Evictable
<1>4. Known'
  <2>1. \A w \in Slot : ~(w < 1)
    BY DEF Slot
  <2> QED
    BY <1>1, <2>1 DEF IInv, Known, WhenKept
<1> QED
  BY <1>1, <1>2, <1>3, <1>4 DEF IInv, SortedDisk, SortedBuf, SortedAdrift

LEMMA CloseSlotIInv ==
  ASSUME IInv, CloseSlot
  PROVE  IInv'
<1>1. /\ phase = "close" /\ phase' = "close" /\ cl \in Slot /\ cl' = cl + 1
      /\ UNCHANGED <<inputs, lines, reported, fails, spilt, tick, last, when, adrift>>
  BY DEF CloseSlot, IInv, Types, Slot
<1>2. Types' /\ Evictable'
  BY <1>1, CacheAssumption DEF IInv, Types, Slot, Evictable
<1>3. Cached' /\ Ticked' /\ SortedAdrift(lines, adrift)'
  BY <1>1 DEF IInv, Cached, Ticked, SortedAdrift
<1>4. \A v \in Slot : v < cl' => v < cl \/ v = cl
  BY <1>1 DEF Slot
<1>5. CASE when[cl] # 0
  <2>1. /\ disk' = Fclose(disk, cl)
        /\ fp'   = [fp EXCEPT ![cl] = Closed]
        /\ buf'  = [buf EXCEPT ![cl] = <<>>]
    BY <1>5 DEF CloseSlot
  <2>2. SortedDisk(lines, disk') /\ SortedBuf(lines, fp, buf)
    BY <1>1, <2>1, FcloseSorted DEF IInv
  <2>3. \A v \in Slot : IF v = cl THEN fp'[v] = Closed /\ buf'[v] = <<>>
                                 ELSE fp'[v] = fp[v] /\ buf'[v] = buf[v]
    BY <2>1, <2>2 DEF SortedBuf
  <2>4. SortedBuf(lines, fp', buf')
    <3>1. fp' \in [Slot -> Path \cup {Closed}]
      BY <2>1, <2>2 DEF SortedBuf
    <3>2. buf' \in [Slot -> Seq(Pc(lines))]
      BY <2>1, <2>2, EmptySeq DEF SortedBuf
    <3> QED
      BY <2>2, <2>3, <3>1, <3>2 DEF SortedBuf
  <2>5. Known'
    BY <1>1, <1>4, <2>3 DEF IInv, Known, WhenKept
  <2> QED
    BY <1>1, <1>2, <1>3, <2>2, <2>4, <2>5 DEF IInv, SortedDisk, SortedBuf
<1>6. CASE when[cl] = 0
  <2>1. UNCHANGED <<disk, fp, buf>>
    BY <1>6 DEF CloseSlot
  <2>2. Known'
    BY <1>1, <1>4, <1>6, <2>1 DEF IInv, Known, WhenKept
  <2> QED
    BY <1>1, <1>2, <1>3, <2>1, <2>2 DEF IInv, SortedDisk, SortedBuf
<1> QED
  BY <1>5, <1>6

LEMMA ResetIInv ==
  ASSUME IInv, Reset
  PROVE  IInv'
<1>1. /\ phase = "close" /\ cl > NMRU /\ phase' = "main"
      /\ last' = [w \in Slot |-> Blank]
      /\ when' = [w \in Slot |-> 0]
      /\ adrift' = adrift \cup {<<fp[w], buf[w]>> : w \in {v \in Slot : fp[v] # Closed}}
      /\ fp' = [w \in Slot |-> Closed]
      /\ buf' = [w \in Slot |-> <<>>]
      /\ UNCHANGED <<inputs, lines, reported, fails, spilt, tick, disk, cl>>
  BY DEF Reset, Forgotten
<1>2. Types' /\ Evictable'
  <2>1. Blank \in Row /\ 1 \in Slot
    BY CacheAssumption DEF Blank, Row, Slot
  <2>2. lines \in Seq(Graph) /\ Len(lines) \in Nat /\ tick \in 0..Len(lines)
    BY LenProperties DEF IInv, Types
  <2> QED
    BY <1>1, <2>1, <2>2 DEF IInv, Types, Evictable
<1>3. Cached' /\ Ticked'
  BY <1>1 DEF Cached, Ticked
<1>4. Known'
  <2> SUFFICES ASSUME WhenKept PROVE adrift' = {}
    BY <1>1 DEF Known, WhenKept
  <2>1. \A w \in Slot : w < cl
    BY <1>1, CacheAssumption DEF IInv, Types, Slot
  <2> QED
    BY <1>1, <2>1 DEF IInv, Known
<1>5. SortedAdrift(lines, adrift')
  <2>1. ASSUME NEW w \in Slot, fp[w] # Closed
        PROVE  <<fp[w], buf[w]>> \in Path \X Seq(Pc(lines)) /\ buf[w] \in Seq(Of(lines, fp[w][2]))
    BY <2>1 DEF IInv, SortedBuf
  <2>2. ASSUME NEW s \in adrift'
        PROVE  s \in Path \X Seq(Pc(lines)) /\ s[2] \in Seq(Of(lines, s[1][2]))
    <3>1. CASE s \in adrift
      BY <3>1 DEF IInv, SortedAdrift
    <3>2. CASE s \notin adrift
      <4>1. PICK w \in Slot : fp[w] # Closed /\ s = <<fp[w], buf[w]>>
        BY <1>1, <3>2
      <4>2. s[1] = fp[w] /\ s[2] = buf[w]
        BY <4>1
      <4> QED
        BY <2>1, <4>1, <4>2
    <3> QED
      BY <3>1, <3>2
  <2> QED
    BY <2>2 DEF SortedAdrift
<1>6. SortedBuf(lines, fp', buf')
  BY <1>1, EmptySeq DEF SortedBuf
<1> QED
  BY <1>1, <1>2, <1>3, <1>4, <1>5, <1>6 DEF IInv, SortedDisk, SortedBuf, SortedAdrift

(* main's own steps leave the cache alone.                                 *)
LEMMA MainIInv ==
  ASSUME IInv, OpenInput \/ Exit \/ UNCHANGED vars
  PROVE  IInv'
<1>1. UNCHANGED <<lines, reported, fails, spilt, tick, last, when, fp, buf, adrift, disk, cl>>
  BY DEF OpenInput, Exit, vars, cache
<1>2. SortedDisk(lines, disk)' /\ SortedBuf(lines, fp, buf)' /\ SortedAdrift(lines, adrift)'
  BY <1>1 DEF IInv, SortedDisk, SortedBuf, SortedAdrift
<1>3. inputs' \in 0..MaxInputs /\ phase' \in {"main", "explode", "close", "exit", "done"}
  BY BoundAssumption DEF OpenInput, Exit, vars, IInv, Types
<1>4. Types' /\ Evictable'
  BY <1>1, <1>3 DEF IInv, Types, Evictable
<1>5. Cached'
  <2>1. CASE OpenInput
    BY <1>1, <2>1, BlankMatches DEF OpenInput, IInv, Cached, Ticked
  <2>2. CASE Exit
    BY <2>2 DEF Exit, Cached
  <2>3. CASE UNCHANGED vars
    BY <1>1, <2>3 DEF vars, IInv, Cached
  <2> QED
    BY <2>1, <2>2, <2>3
<1>6. Ticked'
  BY <1>1 DEF OpenInput, Exit, vars, IInv, Ticked
<1>7. Known'
  <2>1. CASE OpenInput
    BY <1>1, <2>1 DEF OpenInput, IInv, Ticked, Known, WhenKept
  <2>2. CASE Exit
    BY <1>1, <2>2 DEF Exit, IInv, Known, WhenKept
  <2>3. CASE UNCHANGED vars
    BY <1>1, <2>3 DEF vars, IInv, Known, WhenKept
  <2> QED
    BY <2>1, <2>2, <2>3
<1> QED
  BY <1>2, <1>4, <1>5, <1>6, <1>7 DEF IInv

(* At exit a stream adrift is closed: its pieces come to its file.         *)
LEMMA FlushIInv ==
  ASSUME IInv, Flush
  PROVE  IInv'
<1>1. /\ phase = "exit" /\ phase' \in {"exit", "done"} /\ (phase' = "done" => adrift' = {})
      /\ UNCHANGED <<inputs, lines, reported, fails, spilt, tick, last, when, fp, buf, cl>>
      /\ adrift' \subseteq adrift
  BY DEF Flush, cache
<1>2. Types' /\ Evictable' /\ Cached' /\ Ticked' /\ Known'
  BY <1>1 DEF IInv, Types, Evictable, Cached, Ticked, Known, WhenKept
<1>3. SortedBuf(lines, fp, buf)' /\ SortedAdrift(lines, adrift)'
  BY <1>1 DEF IInv, SortedBuf, SortedAdrift
<1>4. CASE adrift = {}
  BY <1>1, <1>2, <1>3, <1>4 DEF Flush, IInv, SortedDisk
<1>5. CASE adrift # {}
  <2>1. PICK s \in adrift : disk' = [disk EXCEPT ![s[1]] = disk[s[1]] \o s[2]]
    BY <1>5 DEF Flush
  <2> DEFINE p == s[1]
             c == disk[p] \o s[2]
  <2>2. /\ p \in Path /\ s[2] \in Seq(Pc(lines)) /\ s[2] \in Seq(Of(lines, p[2]))
        /\ disk[p] \in Seq(Pc(lines)) /\ disk[p] \in Seq(Of(lines, p[2]))
        /\ disk \in [Path -> Seq(Pc(lines))]
    BY DEF IInv, SortedAdrift, SortedDisk
  <2>3. c \in Seq(Pc(lines)) /\ c \in Seq(Of(lines, p[2]))
    BY <2>2, ConcatProperties
  <2>4. disk' = [disk EXCEPT ![p] = c]
    BY <2>1
  <2> HIDE DEF p, c
  <2>5. SortedDisk(lines, disk')
    BY <2>2, <2>3, <2>4 DEF IInv, SortedDisk
  <2> QED
    BY <1>1, <1>2, <1>3, <2>5 DEF IInv, SortedDisk
<1> QED
  BY <1>4, <1>5

(* The invariant is inductive.                                             *)
THEOREM Inductive == Spec => []IInv
<1>1. Init => IInv
  BY InitIInv
<1>2. IInv /\ [Next]_vars => IInv'
  <2> SUFFICES ASSUME IInv, [Next]_vars
               PROVE  IInv'
    OBVIOUS
  <2>1. CASE NoGraph
    BY <2>1, NoGraphIInv
  <2>2. ASSUME NEW l \in Label, NEW w \in Slot, Hit(l, w)
        PROVE  IInv'
    BY <2>2, HitIInv
  <2>3. ASSUME NEW l \in Label, NEW w \in Slot, MissOpen(l, w)
        PROVE  IInv'
    BY <2>3, MissOpenIInv
  <2>4. ASSUME NEW l \in Label, NEW w \in Slot, MissFail(l, w)
        PROVE  IInv'
    BY <2>4, MissFailIInv
  <2>5. CASE EndOfInput
    BY <2>5, EndOfInputIInv
  <2>6. CASE CloseSlot
    BY <2>6, CloseSlotIInv
  <2>7. CASE Reset
    BY <2>7, ResetIInv
  <2>8. CASE OpenInput \/ Exit \/ UNCHANGED vars
    BY <2>8, MainIInv
  <2>9. CASE Flush
    BY <2>9, FlushIInv
  <2> QED
    BY <2>1, <2>2, <2>3, <2>4, <2>5, <2>6, <2>7, <2>8, <2>9 DEF Next, Explode, Terminated
<1> QED
  BY <1>1, <1>2, PTL DEF Spec

-----------------------------------------------------------------------------
(* What follows from it.                                                   *)

(* Every variable of explode and main keeps to its type.                   *)
THEOREM TypeCorrect == Spec => []TypeOK
<1>1. IInv => TypeOK
  BY DEF IInv, Types, SortedDisk, SortedBuf, SortedAdrift, TypeOK, Graph, Pc, Piece
<1> QED
  BY <1>1, Inductive, PTL

(* Whatever a memset has cleared, no stream is used that is not open; and  *)
(* unless it has cleared some of when, none is forgotten open.             *)
THEOREM StreamsSound == Spec => []Streams
<1>1. IInv => Streams
  <2> SUFFICES ASSUME IInv, phase = "explode", NEW w \in Slot
               PROVE  /\ when[w] # 0 => fp[w] # Closed
                      /\ fp[w] = Closed => buf[w] = <<>>
                      /\ \A g \in Name : Match(last[w], g) => fp[w] # Closed
                      /\ WhenKept /\ when[w] = 0 => fp[w] = Closed
    BY DEF Streams
  <2> QED
    BY DEF IInv, Ticked, Known, SortedBuf, Cached, Name
<1> QED
  BY <1>1, Inductive, PTL

(* explode leaves nothing open and nothing unwritten, unless a memset has  *)
(* cleared some of when, and nothing cached; the program leaves nothing    *)
(* unwritten in any case.                                                  *)
THEOREM NothingLeftOpen == Spec => []AtRest
<1>1. IInv => AtRest
  BY DEF IInv, Ticked, Known, SortedBuf, AtRest
<1> QED
  BY <1>1, Inductive, PTL

(* Whatever a memset has cleared, a line is never written to the file of   *)
(* another name.                                                           *)
THEOREM NothingMisfiled == Spec => []NoMisfile
<1>1. IInv => NoMisfile
  <2> SUFFICES ASSUME IInv PROVE NoMisfile
    OBVIOUS
  <2>1. ASSUME NEW p \in Path, NEW k \in 1..Len(disk[p])
        PROVE  StemOf(disk[p][k][1]) = p[2]
    <3>1. disk[p][k] \in Of(lines, p[2])
      BY ElementOfSeq DEF IInv, SortedDisk
    <3> QED
      BY <3>1 DEF Of, StemOf
  <2>2. ASSUME NEW w \in Slot, fp[w] # Closed, NEW k \in 1..Len(buf[w])
        PROVE  StemOf(buf[w][k][1]) = fp[w][2]
    <3>1. buf[w][k] \in Of(lines, fp[w][2])
      BY <2>2, ElementOfSeq DEF IInv, SortedBuf
    <3> QED
      BY <3>1 DEF Of, StemOf
  <2>3. ASSUME NEW s \in adrift, NEW k \in 1..Len(s[2])
        PROVE  StemOf(s[2][k][1]) = s[1][2]
    <3>1. s[2][k] \in Of(lines, s[1][2])
      BY ElementOfSeq DEF IInv, SortedAdrift
    <3> QED
      BY <3>1 DEF Of, StemOf
  <2> QED
    BY <2>1, <2>2, <2>3 DEF NoMisfile
<1> QED
  BY <1>1, Inductive, PTL

(* Unless a memset has cleared tick, a slot is filled at a tick later than *)
(* all of those before: no two slots in use have the same one, none has    *)
(* that of a later one, and a miss evicts the one filled first.            *)
THEOREM TicksDiffer == Spec => []TicksDistinct
<1>1. Init => TicksDistinct
  BY DEF Init, TicksDistinct
<1>2. IInv /\ TicksDistinct /\ [Next]_vars => TicksDistinct'
  <2> SUFFICES ASSUME IInv, TicksDistinct, [Next]_vars, TickKept'
               PROVE  /\ \A w \in Slot : when'[w] <= tick'
                      /\ \A v, w \in Slot : v # w /\ when'[v] # 0 => when'[v] # when'[w]
    BY DEF TicksDistinct
  <2>0. /\ when \in [Slot -> Nat] /\ tick \in Nat
        /\ TickKept => /\ \A w \in Slot : when[w] <= tick
                       /\ \A v, w \in Slot : v # w /\ when[v] # 0 => when[v] # when[w]
    BY DEF IInv, Types, TicksDistinct
  <2>1. ASSUME NEW l \in Label, NEW u \in Slot, MissOpen(l, u)
        PROVE  /\ \A w \in Slot : when'[w] <= tick'
               /\ \A v, w \in Slot : v # w /\ when'[v] # 0 => when'[v] # when'[w]
    <3>1. when' = [when EXCEPT ![u] = tick + 1] /\ tick' = tick + 1 /\ TickKept
      BY <2>1 DEF MissOpen, Stamp, TickKept
    <3>2. when'[u] = tick + 1 /\ \A v \in Slot : v # u => when'[v] = when[v]
      BY <2>0, <3>1
    <3>3. \A v \in Slot : when[v] \in 0..tick
      BY <2>0, <3>1
    <3> QED
      BY <2>0, <3>1, <3>2, <3>3
  <2>2. ASSUME NEW l \in Label, NEW u \in Slot, MissFail(l, u)
        PROVE  /\ \A w \in Slot : when'[w] <= tick'
               /\ \A v, w \in Slot : v # w /\ when'[v] # 0 => when'[v] # when'[w]
    <3>1. PICK hit \in Reached(u) :
            /\ spilt' = spilt \cup hit
            /\ tick'  = IF "tick" \in hit THEN 0 ELSE tick + 1
            /\ \E k \in 0..(IF "when" \in hit THEN NMRU ELSE 0) :
                 when' = [v \in Slot |-> IF v = u \/ v <= k THEN 0 ELSE when[v]]
      BY <2>2 DEF MissFail
    <3>2. TickKept /\ tick' = tick + 1
      BY <3>1 DEF TickKept
    <3>3. \A v \in Slot : when'[v] = 0 \/ when'[v] = when[v]
      BY <3>1
    <3> QED
      BY <2>0, <3>2, <3>3
  <2>3. ASSUME NEW l \in Label, NEW u \in Slot, Hit(l, u)
        PROVE  UNCHANGED <<when, tick, spilt>>
    BY <2>3 DEF Hit, cache
  <2>4. CASE Reset
    BY <2>0, <2>4 DEF Reset
  <2>5. CASE UNCHANGED <<when, tick, spilt>>
    BY <2>0, <2>5 DEF TickKept
  <2>6. CASE NoGraph \/ EndOfInput \/ CloseSlot \/ OpenInput \/ Exit \/ Flush \/ UNCHANGED vars
    BY <2>5, <2>6 DEF NoGraph, EndOfInput, CloseSlot, OpenInput, Exit, Flush, vars, cache
  <2> QED
    BY <2>1, <2>2, <2>3, <2>4, <2>5, <2>6 DEF Next, Explode, Terminated
<1> QED
  BY <1>1, <1>2, Inductive, PTL DEF Spec

-----------------------------------------------------------------------------
(* Where the two halves of every line are: in one file or one buffer, at   *)
(* one place, or nowhere when a message was printed for the line.          *)

(* Sequences of pieces.                                                    *)

Has(s, x) == \E k \in 1..Len(s) : s[k] = x
Once(s)   == \A j, k \in 1..Len(s) : s[j] = s[k] => j = k
Apart(s, t) == \A x : ~(Has(s, x) /\ Has(t, x))

LEMMA HasNone == \A x : ~Has(<<>>, x)
  BY DEF Has

LEMMA OnceNone == Once(<<>>)
  BY DEF Once

LEMMA HasInSet ==
  ASSUME NEW S, NEW s \in Seq(S), NEW x, Has(s, x)
  PROVE  x \in S
  BY ElementOfSeq DEF Has

(* A concatenation has what its parts have.                                *)
LEMMA ConcatHas ==
  ASSUME NEW S, NEW s \in Seq(S), NEW t \in Seq(S)
  PROVE  \A x : Has(s \o t, x) <=> Has(s, x) \/ Has(t, x)
<1>1. /\ Len(s) \in Nat /\ Len(t) \in Nat /\ Len(s \o t) = Len(s) + Len(t)
      /\ \A k \in 1..(Len(s) + Len(t)) : (s \o t)[k] = IF k <= Len(s) THEN s[k] ELSE t[k - Len(s)]
  BY ConcatProperties, LenProperties
<1>2. ASSUME NEW x, Has(s, x) PROVE Has(s \o t, x)
  <2>1. PICK k \in 1..Len(s) : s[k] = x
    BY <1>2 DEF Has
  <2>2. k \in 1..Len(s \o t) /\ (s \o t)[k] = x
    BY <1>1, <2>1
  <2> QED
    BY <2>2 DEF Has
<1>3. ASSUME NEW x, Has(t, x) PROVE Has(s \o t, x)
  <2>1. PICK k \in 1..Len(t) : t[k] = x
    BY <1>3 DEF Has
  <2>2. /\ k + Len(s) \in 1..(Len(s) + Len(t)) /\ ~(k + Len(s) <= Len(s))
        /\ k + Len(s) - Len(s) = k
    BY <1>1
  <2>3. (s \o t)[k + Len(s)] = x
    BY <1>1, <2>1, <2>2
  <2> QED
    BY <1>1, <2>2, <2>3 DEF Has
<1>4. ASSUME NEW x, Has(s \o t, x) PROVE Has(s, x) \/ Has(t, x)
  <2>1. PICK k \in 1..(Len(s) + Len(t)) : (s \o t)[k] = x
    BY <1>1, <1>4 DEF Has
  <2>2. CASE k <= Len(s)
    BY <1>1, <2>1, <2>2 DEF Has
  <2>3. CASE k > Len(s)
    <3>1. k - Len(s) \in 1..Len(t) /\ t[k - Len(s)] = x
      BY <1>1, <2>1, <2>3
    <3> QED
      BY <3>1 DEF Has
  <2> QED
    BY <1>1, <2>2, <2>3
<1> QED
  BY <1>2, <1>3, <1>4

(* Nothing is repeated in a concatenation of parts in which nothing is,    *)
(* and which have nothing in common.                                       *)
LEMMA ConcatOnce ==
  ASSUME NEW S, NEW s \in Seq(S), NEW t \in Seq(S)
  PROVE  Once(s \o t) <=> Once(s) /\ Once(t) /\ Apart(s, t)
<1> DEFINE m == Len(s)
           n == Len(t)
           c == s \o t
<1>1. /\ m \in Nat /\ n \in Nat /\ Len(c) = m + n
      /\ \A k \in 1..(m + n) : c[k] = IF k <= m THEN s[k] ELSE t[k - m]
  BY ConcatProperties, LenProperties
<1>2. \A k \in 1..m : k \in 1..Len(c) /\ c[k] = s[k]
  BY <1>1
<1>3. \A k \in 1..n : k + m \in 1..Len(c) /\ c[k + m] = t[k]
  <2> SUFFICES ASSUME NEW k \in 1..n PROVE k + m \in 1..Len(c) /\ c[k + m] = t[k]
    OBVIOUS
  <2>1. k + m \in 1..(m + n) /\ ~(k + m <= m) /\ k + m - m = k
    BY <1>1
  <2> QED
    BY <1>1, <2>1
<1>4. \A k \in 1..Len(c) : k \in 1..m \/ \E i \in 1..n : k = i + m
  <2> SUFFICES ASSUME NEW k \in 1..(m + n), ~(k <= m) PROVE \E i \in 1..n : k = i + m
    BY <1>1
  <2>1. k - m \in 1..n /\ k = (k - m) + m
    BY <1>1
  <2> QED
    BY <2>1
<1> HIDE DEF m, n, c
<1>5. ASSUME Once(c) PROVE Once(s) /\ Once(t) /\ Apart(s, t)
  <2>1. Once(s)
    BY <1>2, <1>5 DEF Once, m
  <2>2. Once(t)
    <3> SUFFICES ASSUME NEW j \in 1..n, NEW k \in 1..n, t[j] = t[k] PROVE j = k
      BY DEF Once, n
    <3>1. j + m = k + m
      BY <1>3, <1>5 DEF Once
    <3> QED
      BY <1>1, <3>1
  <2>3. Apart(s, t)
    <3> SUFFICES ASSUME NEW x, Has(s, x), Has(t, x) PROVE FALSE
      BY DEF Apart
    <3>1. PICK j \in 1..m : s[j] = x
      BY DEF Has, m
    <3>2. PICK k \in 1..n : t[k] = x
      BY DEF Has, n
    <3>3. j = k + m
      BY <1>2, <1>3, <1>5, <3>1, <3>2 DEF Once
    <3> QED
      BY <1>1, <3>3
  <2> QED
    BY <2>1, <2>2, <2>3
<1>6. ASSUME Once(s), Once(t), Apart(s, t) PROVE Once(c)
  <2> SUFFICES ASSUME NEW j \in 1..Len(c), NEW k \in 1..Len(c), c[j] = c[k] PROVE j = k
    BY DEF Once
  <2>1. CASE j \in 1..m /\ k \in 1..m
    BY <1>2, <1>6, <2>1 DEF Once, m
  <2>2. CASE j \in 1..m /\ \E i \in 1..n : k = i + m
    BY ZenonT(60), <1>2, <1>3, <1>6, <2>2 DEF Apart, Has, m, n
  <2>3. CASE k \in 1..m /\ \E i \in 1..n : j = i + m
    BY <1>2, <1>3, <1>6, <2>3 DEF Apart, Has, m, n
  <2>4. CASE (\E i \in 1..n : j = i + m) /\ (\E i \in 1..n : k = i + m)
    BY <1>3, <1>6, <2>4 DEF Once, n
  <2> QED
    BY <1>4, <2>1, <2>2, <2>3, <2>4
<1> QED
  BY <1>5, <1>6 DEF c

(* Where a sequence is cut does not matter.                                *)
LEMMA Cut ==
  ASSUME NEW S, NEW s \in Seq(S), NEW k \in 0..Len(s)
  PROVE  /\ SubSeq(s, 1, k) \in Seq(S) /\ SubSeq(s, k + 1, Len(s)) \in Seq(S)
         /\ s = SubSeq(s, 1, k) \o SubSeq(s, k + 1, Len(s))
<1> DEFINE f == SubSeq(s, 1, k)
           r == SubSeq(s, k + 1, Len(s))
<1>1. Len(s) \in Nat /\ \A i \in 1..Len(s) : s[i] \in S
  BY ElementOfSeq
<1>2. f \in Seq(S) /\ Len(f) = k /\ \A i \in 1..k : f[i] = s[i]
  BY <1>1, SubSeqProperties
<1>3. r \in Seq(S) /\ Len(r) = Len(s) - k /\ \A i \in 1..(Len(s) - k) : r[i] = s[k + i]
  BY <1>1, SubSeqProperties
<1> HIDE DEF f, r
<1>4. /\ f \o r \in Seq(S) /\ Len(f \o r) = Len(s)
      /\ \A i \in 1..Len(s) : (f \o r)[i] = IF i <= k THEN f[i] ELSE r[i - k]
  <2>1. k + (Len(s) - k) = Len(s) /\ Len(s) - k \in Nat /\ k \in Nat
    BY <1>1
  <2>2. /\ f \o r \in Seq(S) /\ Len(f \o r) = Len(f) + Len(r)
        /\ \A i \in 1..(Len(f) + Len(r)) : (f \o r)[i] = IF i <= Len(f) THEN f[i] ELSE r[i - Len(f)]
    BY <1>2, <1>3, ConcatProperties
  <2> QED
    BY <1>2, <1>3, <2>1, <2>2
<1>5. \A i \in 1..Len(s) : (f \o r)[i] = s[i]
  <2> SUFFICES ASSUME NEW i \in 1..Len(s) PROVE (f \o r)[i] = s[i]
    OBVIOUS
  <2>1. CASE i <= k
    BY <1>1, <1>2, <1>4, <2>1
  <2>2. CASE i > k
    <3>1. i - k \in 1..(Len(s) - k) /\ k + (i - k) = i /\ ~(i <= k)
      BY <1>1, <2>2
    <3> QED
      BY <1>3, <1>4, <3>1
  <2> QED
    <3>1. k \in Nat /\ i \in Nat /\ (i <= k \/ i > k)
      BY <1>1
    <3> QED
      BY <2>1, <2>2, <3>1
<1>6. s = f \o r
  BY <1>4, <1>5, SeqEqual
<1> QED
  BY <1>2, <1>3, <1>6 DEF f, r

(* The two halves of a line.                                               *)
LEMMA PiecesOf ==
  ASSUME NEW n \in Nat
  PROVE  Once(Pieces(n)) /\ \A x : Has(Pieces(n), x) <=> x \in {<<n, 1>>, <<n, 2>>}
<1>1. /\ Len(Pieces(n)) = 2 /\ Pieces(n)[1] = <<n, 1>> /\ Pieces(n)[2] = <<n, 2>>
  BY DEF Pieces
<1>2. \A k \in 1..2 : k = 1 \/ k = 2
  OBVIOUS
<1>3. <<n, 1>> # <<n, 2>> /\ 1 \in 1..2 /\ 2 \in 1..2
  OBVIOUS
<1> QED
  BY <1>1, <1>2, <1>3 DEF Once, Has

-----------------------------------------------------------------------------
(* Files d, buffers b, and streams a that no slot has any more.            *)

Lies(d, b, a, x) == \/ \E p \in Path : Has(d[p], x)
                    \/ \E w \in Slot : Has(b[w], x)
                    \/ \E s \in a : Has(s[2], x)

\* No piece is at two places.
Single(d, b, a) ==
  /\ \A p \in Path : Once(d[p]) /\ \A q \in Path : q # p => Apart(d[p], d[q])
  /\ \A w \in Slot : Once(b[w]) /\ \A v \in Slot : v # w => Apart(b[v], b[w])
  /\ \A s \in a : Once(s[2]) /\ \A t \in a : t # s => Apart(s[2], t[2])
  /\ \A p \in Path, w \in Slot : Apart(d[p], b[w])
  /\ \A p \in Path, s \in a : Apart(d[p], s[2])
  /\ \A w \in Slot, s \in a : Apart(b[w], s[2])

\* Pieces go from buffer w to file p, and new ones, N, come to either.
Moves(d, b, e, c, a, p, w, N) ==
  /\ p \in Path /\ w \in Slot
  /\ Single(d, b, a) /\ \A x \in N : ~Lies(d, b, a, x)
  /\ \A q \in Path : q # p => e[q] = d[q]
  /\ \A v \in Slot : v # w => c[v] = b[v]
  /\ Once(e[p]) /\ Once(c[w]) /\ Apart(e[p], c[w])
  /\ \A x : Has(e[p], x) \/ Has(c[w], x) <=> Has(d[p], x) \/ Has(b[w], x) \/ x \in N

(* Whatever is moved this way, no piece is at two places.                  *)
LEMMA Moved ==
  ASSUME NEW d, NEW b, NEW e, NEW c, NEW a, NEW p, NEW w, NEW N, Moves(d, b, e, c, a, p, w, N)
  PROVE  Single(e, c, a) /\ \A x : Lies(e, c, a, x) <=> Lies(d, b, a, x) \/ x \in N
<1> USE DEF Moves
<1>0. p \in Path /\ w \in Slot
  OBVIOUS
<1>1. \A q \in Path : q # p => Apart(e[p], d[q]) /\ Apart(c[w], d[q])
  BY DEF Single, Apart, Lies
<1>2. \A v \in Slot : v # w => Apart(e[p], b[v]) /\ Apart(c[w], b[v])
  BY DEF Single, Apart, Lies
<1>3. \A s, t : Apart(s, t) => Apart(t, s)
  BY DEF Apart
<1>4. ASSUME NEW q \in Path
      PROVE  Once(e[q]) /\ \A r \in Path : r # q => Apart(e[q], e[r])
  <2>1. CASE q = p
    BY <1>1, <2>1
  <2>2. CASE q # p
    BY <1>1, <1>3, <2>2 DEF Single
  <2> QED
    BY <2>1, <2>2
<1>5. ASSUME NEW v \in Slot
      PROVE  Once(c[v]) /\ \A u \in Slot : u # v => Apart(c[u], c[v])
  <2>1. CASE v = w
    BY <1>2, <1>3, <2>1
  <2>2. CASE v # w
    BY <1>2, <1>3, <2>2 DEF Single
  <2> QED
    BY <2>1, <2>2
<1>6. ASSUME NEW q \in Path, NEW v \in Slot
      PROVE  Apart(e[q], c[v])
  <2>1. CASE q = p
    BY <1>2, <2>1
  <2>2. CASE q # p
    BY <1>1, <1>3, <2>2 DEF Single
  <2> QED
    BY <2>1, <2>2
<1>7. ASSUME NEW x PROVE Lies(e, c, a, x) <=> Lies(d, b, a, x) \/ x \in N
  <2>1. ASSUME Lies(e, c, a, x) PROVE Lies(d, b, a, x) \/ x \in N
    BY <2>1 DEF Lies
  <2>2. ASSUME Lies(d, b, a, x) \/ x \in N PROVE Lies(e, c, a, x)
    BY <2>2 DEF Lies
  <2> QED
    BY <2>1, <2>2
<1>8. ASSUME NEW s \in a
      PROVE  Apart(e[p], s[2]) /\ Apart(c[w], s[2])
  <2>1. Apart(d[p], s[2]) /\ Apart(b[w], s[2]) /\ \A x \in N : ~Has(s[2], x)
    BY DEF Single, Lies
  <2> QED
    BY <2>1 DEF Apart
<1>9. /\ \A q \in Path, s \in a : Apart(e[q], s[2])
      /\ \A v \in Slot, s \in a : Apart(c[v], s[2])
  BY <1>8 DEF Single
<1>10. \A s \in a : Once(s[2]) /\ \A t \in a : t # s => Apart(s[2], t[2])
  BY DEF Single
<1> QED
  BY <1>4, <1>5, <1>6, <1>7, <1>9, <1>10 DEF Single

\* The streams a, and those of the slots W.
With(a, f, b, W) == a \cup {<<f[w], b[w]>> : w \in W}

(* What the streams of the slots W hold back goes adrift with them.        *)
LEMMA Leaked ==
  ASSUME NEW d, NEW b, NEW c, NEW a, NEW g, NEW W, W \subseteq Slot, Single(d, b, a),
         \A v \in Slot : c[v] = IF v \in W THEN <<>> ELSE b[v]
  PROVE  /\ Single(d, c, With(a, g, b, W))
         /\ \A x : Lies(d, c, With(a, g, b, W), x) <=> Lies(d, b, a, x)
<1> DEFINE A == With(a, g, b, W)
<1>1. \A s \in A : s \in a \/ \E w \in W : s = <<g[w], b[w]>> /\ s[2] = b[w]
  BY DEF With
<1>2. \A w \in W : <<g[w], b[w]>> \in A /\ <<g[w], b[w]>>[2] = b[w]
  BY DEF With
<1>3. \A s \in a : s \in A
  BY DEF With
<1> HIDE DEF A
<1>4. /\ \A v \in Slot : Once(c[v]) /\ \A x : Has(c[v], x) => v \notin W /\ Has(b[v], x)
      /\ \A s, t : Apart(s, t) <=> Apart(t, s)
      /\ \A v \in Slot : v \notin W => c[v] = b[v]
  BY HasNone, OnceNone DEF Single, Apart
<1>5. ASSUME NEW v \in Slot, NEW u \in Slot, u # v PROVE Apart(c[u], c[v])
  BY <1>4, <1>5 DEF Single, Apart
<1>6. ASSUME NEW s \in A
      PROVE  /\ Once(s[2])
             /\ \A t \in A : t # s => Apart(s[2], t[2])
             /\ \A p \in Path : Apart(d[p], s[2])
             /\ \A w \in Slot : Apart(c[w], s[2])
  <2>1. CASE s \in a
    <3>1. ASSUME NEW t \in A, t # s PROVE Apart(s[2], t[2])
      BY <1>1, <1>4, <2>1, <3>1 DEF Single
    <3>2. ASSUME NEW w \in Slot PROVE Apart(c[w], s[2])
      BY <1>4, <2>1 DEF Single, Apart
    <3> QED
      BY <2>1, <3>1, <3>2 DEF Single
  <2>2. ASSUME NEW w \in W, s = <<g[w], b[w]>>, s[2] = b[w]
        PROVE  /\ Once(s[2])
               /\ \A t \in A : t # s => Apart(s[2], t[2])
               /\ \A p \in Path : Apart(d[p], s[2])
               /\ \A v \in Slot : Apart(c[v], s[2])
    <3>0. w \in Slot
      OBVIOUS
    <3>1. ASSUME NEW t \in A, t # s PROVE Apart(s[2], t[2])
      <4>1. CASE t \in a
        BY <2>2, <3>0, <4>1 DEF Single
      <4>2. ASSUME NEW v \in W, t = <<g[v], b[v]>>, t[2] = b[v] PROVE Apart(s[2], t[2])
        <5>1. v # w /\ v \in Slot
          BY <2>2, <3>1, <4>2
        <5> QED
          BY <2>2, <3>0, <4>2, <5>1 DEF Single
      <4> QED
        BY <1>1, <4>1, <4>2
    <3>2. ASSUME NEW v \in Slot PROVE Apart(c[v], s[2])
      BY <1>4, <2>2, <3>0 DEF Single, Apart
    <3> QED
      BY <2>2, <3>0, <3>1, <3>2 DEF Single
  <2> QED
    BY <1>1, <2>1, <2>2
<1>7. Single(d, c, A)
  <2>1. \A p \in Path : Once(d[p]) /\ \A q \in Path : q # p => Apart(d[p], d[q])
    BY DEF Single
  <2>2. \A p \in Path, w \in Slot : Apart(d[p], c[w])
    BY <1>4 DEF Single, Apart
  <2> QED
    BY <1>4, <1>5, <1>6, <2>1, <2>2 DEF Single
<1>8. ASSUME NEW x PROVE Lies(d, c, A, x) <=> Lies(d, b, a, x)
  <2>1. ASSUME Lies(d, c, A, x) PROVE Lies(d, b, a, x)
    <3>1. CASE \E s \in A : Has(s[2], x)
      BY <1>1, <3>1 DEF Lies
    <3> QED
      BY <1>4, <2>1, <3>1 DEF Lies
  <2>2. ASSUME Lies(d, b, a, x) PROVE Lies(d, c, A, x)
    <3>1. ASSUME NEW w \in Slot, Has(b[w], x) PROVE Lies(d, c, A, x)
      BY <1>2, <1>4, <3>1 DEF Lies
    <3> QED
      BY <1>3, <2>2, <3>1 DEF Lies
  <2> QED
    BY <2>1, <2>2
<1> QED
  BY <1>7, <1>8 DEF A

(* What a stream adrift held back goes to its file.                        *)
LEMMA Flushed ==
  ASSUME NEW S, NEW d \in [Path -> Seq(S)], NEW b, NEW a, NEW s \in a, Single(d, b, a),
         s[1] \in Path, s[2] \in Seq(S)
  PROVE  LET e == [d EXCEPT ![s[1]] = @ \o s[2]]
         IN  Single(e, b, a \ {s}) /\ \A x : Lies(e, b, a \ {s}, x) <=> Lies(d, b, a, x)
<1> DEFINE e == [d EXCEPT ![s[1]] = d[s[1]] \o s[2]]
           p == s[1]
<1>1. e[p] = d[p] \o s[2] /\ \A q \in Path : q # p => e[q] = d[q]
  OBVIOUS
<1>2. Once(e[p]) /\ \A x : Has(e[p], x) <=> Has(d[p], x) \/ Has(s[2], x)
  BY <1>1, ConcatHas, ConcatOnce DEF Single
<1> HIDE DEF e, p
<1>3. p \in Path /\ \A u, v : Apart(u, v) <=> Apart(v, u)
  BY DEF p, Apart
<1>4. \A t \in a : t # s => Apart(e[p], t[2])
  BY <1>2, <1>3 DEF Single, Apart
<1>5. \A w \in Slot : Apart(e[p], b[w])
  BY <1>2, <1>3 DEF Single, Apart
<1>6. \A q \in Path : q # p => Apart(e[p], e[q])
  BY <1>1, <1>2, <1>3 DEF Single, Apart
<1>7. Single(e, b, a \ {s})
  <2>1. ASSUME NEW q \in Path PROVE Once(e[q]) /\ \A r \in Path : r # q => Apart(e[q], e[r])
    BY <1>1, <1>2, <1>3, <1>6 DEF Single
  <2>2. ASSUME NEW q \in Path, NEW w \in Slot PROVE Apart(e[q], b[w])
    BY <1>1, <1>5 DEF Single
  <2>3. ASSUME NEW q \in Path, NEW t \in a \ {s} PROVE Apart(e[q], t[2])
    BY <1>1, <1>4 DEF Single
  <2> QED
    BY <2>1, <2>2, <2>3 DEF Single
<1>8. ASSUME NEW x PROVE Lies(e, b, a \ {s}, x) <=> Lies(d, b, a, x)
  <2>1. (\E q \in Path : Has(e[q], x)) <=> Has(s[2], x) \/ \E q \in Path : Has(d[q], x)
    BY <1>1, <1>2, <1>3
  <2>2. (\E t \in a : Has(t[2], x)) <=> Has(s[2], x) \/ \E t \in a \ {s} : Has(t[2], x)
    OBVIOUS
  <2> QED
    BY <2>1, <2>2 DEF Lies
<1> QED
  BY <1>7, <1>8 DEF e

(* fclose moves what the stream holds back to its file.                    *)
LEMMA FcloseMoves ==
  ASSUME NEW L, NEW d, NEW a, NEW w \in Slot,
         SortedDisk(L, d), SortedBuf(L, fp, buf), Single(d, buf, a)
  PROVE  /\ Single(Fclose(d, w), [buf EXCEPT ![w] = <<>>], a)
         /\ \A x : Lies(Fclose(d, w), [buf EXCEPT ![w] = <<>>], a, x) <=> Lies(d, buf, a, x)
<1> DEFINE c == [buf EXCEPT ![w] = <<>>]
<1>1. buf \in [Slot -> Seq(Pc(L))] /\ c[w] = <<>> /\ \A v \in Slot : v # w => c[v] = buf[v]
  BY DEF SortedBuf
<1>2. CASE fp[w] = Closed
  <2>1. c = buf /\ Fclose(d, w) = d
    BY <1>1, <1>2 DEF Fclose, SortedBuf
  <2> QED
    BY <2>1
<1>3. CASE fp[w] # Closed
  <2> DEFINE p == fp[w]
             e == [d EXCEPT ![p] = d[p] \o buf[w]]
  <2>1. p \in Path /\ d \in [Path -> Seq(Pc(L))] /\ d[p] \in Seq(Pc(L)) /\ buf[w] \in Seq(Pc(L))
    BY <1>3 DEF SortedDisk, SortedBuf
  <2>2. Fclose(d, w) = e
    BY <1>3 DEF Fclose
  <2>3. e[p] = d[p] \o buf[w] /\ \A q \in Path : q # p => e[q] = d[q]
    BY <2>1
  <2> HIDE DEF p, e, c
  <2>4. Once(e[p]) /\ \A x : Has(e[p], x) <=> Has(d[p], x) \/ Has(buf[w], x)
    BY <2>1, <2>3, ConcatHas, ConcatOnce DEF Single
  <2>5. Once(c[w]) /\ \A x : ~Has(c[w], x)
    BY <1>1, HasNone, OnceNone
  <2>6. Apart(e[p], c[w])
    BY <2>5 DEF Apart
  <2>7. \A x : Has(e[p], x) \/ Has(c[w], x) <=> Has(d[p], x) \/ Has(buf[w], x) \/ x \in {}
    BY <2>4, <2>5
  <2>8. Single(e, c, a) /\ \A x : Lies(e, c, a, x) <=> Lies(d, buf, a, x) \/ x \in {}
    <3>1. Moves(d, buf, e, c, a, p, w, {})
      BY <1>1, <2>1, <2>3, <2>4, <2>5, <2>6, <2>7 DEF Moves
    <3> QED
      BY <3>1, Moved
  <2> QED
    BY <2>2, <2>8 DEF c
<1> QED
  BY <1>2, <1>3

Halves(n) == {<<n, 1>>, <<n, 2>>}

(* fwrite adds the halves of line n, wherever what is written is cut: b    *)
(* are the buffers before, where all but that of w are those there are.    *)
LEMMA FwriteAdds ==
  ASSUME NEW S, NEW n \in Nat, NEW d, NEW b, NEW a, NEW w \in Slot, NEW p \in Path,
         Halves(n) \subseteq S,
         d \in [Path -> Seq(S)], b \in [Slot -> Seq(S)], buf \in [Slot -> Seq(S)],
         \A v \in Slot : v # w => b[v] = buf[v],
         Single(d, b, a),
         \A x \in Halves(n) : ~Lies(d, b, a, x),
         Fwrite(d, w, p, b[w], n)
  PROVE  /\ Single(disk', buf', a)
         /\ \A x : Lies(disk', buf', a, x) <=> Lies(d, b, a, x) \/ x \in Halves(n)
<1> DEFINE all == b[w] \o Pieces(n)
<1>1. Pieces(n) \in Seq(S) /\ b[w] \in Seq(S) /\ d[p] \in Seq(S)
  BY DEF Pieces, Halves
<1>2. \A x : Has(Pieces(n), x) <=> x \in Halves(n)
  BY PiecesOf DEF Halves
<1>3. all \in Seq(S)
  BY <1>1, ConcatProperties
<1>4. Once(all) /\ \A x : Has(all, x) <=> Has(b[w], x) \/ x \in Halves(n)
  <2>1. Apart(b[w], Pieces(n))
    BY <1>2 DEF Apart, Lies
  <2>2. Once(b[w]) /\ Once(Pieces(n))
    BY PiecesOf DEF Single
  <2> QED
    BY <1>1, <1>2, <2>1, <2>2, ConcatHas, ConcatOnce
<1>5. PICK k \in 0..Len(all) :
        /\ buf' = [buf EXCEPT ![w] = SubSeq(all, k + 1, Len(all))]
        /\ disk' = IF k = 0 THEN d ELSE [d EXCEPT ![p] = @ \o SubSeq(all, 1, k)]
  BY PathNotClosed DEF Fwrite
<1> DEFINE f == SubSeq(all, 1, k)
           r == SubSeq(all, k + 1, Len(all))
<1>6. f \in Seq(S) /\ r \in Seq(S) /\ all = f \o r
  BY <1>3, Cut
<1>7. k = 0 => f = <<>>
  BY <1>3
<1>8. /\ buf'[w] = r /\ \A v \in Slot : v # w => buf'[v] = b[v]
      /\ disk'[p] = (IF k = 0 THEN d[p] ELSE d[p] \o f)
      /\ \A q \in Path : q # p => disk'[q] = d[q]
  BY <1>5
<1> HIDE DEF f, r, all
<1>9. Once(f) /\ Once(r) /\ Apart(f, r) /\ \A x : Has(all, x) <=> Has(f, x) \/ Has(r, x)
  BY <1>4, <1>6, ConcatHas, ConcatOnce
<1>10. Once(d[p]) /\ Apart(d[p], all)
  <2>1. Once(d[p]) /\ Apart(d[p], b[w]) /\ \A x \in Halves(n) : ~Has(d[p], x)
    BY DEF Single, Lies
  <2> QED
    BY <1>4, <2>1 DEF Apart
<1>11. Once(disk'[p]) /\ \A x : Has(disk'[p], x) <=> Has(d[p], x) \/ Has(f, x)
  <2>1. Apart(d[p], f)
    BY <1>9, <1>10 DEF Apart
  <2>2. CASE k = 0
    BY <1>7, <1>8, <1>10, <2>2, HasNone
  <2>3. CASE k # 0
    BY <1>1, <1>6, <1>8, <1>9, <1>10, <2>1, <2>3, ConcatHas, ConcatOnce
  <2> QED
    BY <2>2, <2>3
<1>12. Apart(disk'[p], buf'[w])
  BY <1>8, <1>9, <1>10, <1>11 DEF Apart
<1>13. \A x : Has(disk'[p], x) \/ Has(buf'[w], x)
              <=> Has(d[p], x) \/ Has(b[w], x) \/ x \in Halves(n)
  BY <1>4, <1>8, <1>9, <1>11
<1> QED
  <2>1. Moves(d, b, disk', buf', a, p, w, Halves(n))
    BY <1>8, <1>9, <1>11, <1>12, <1>13 DEF Moves
  <2> QED
    BY <2>1, Moved

-----------------------------------------------------------------------------
(* The inductive invariant.                                                *)

\* Every half of a line read lies somewhere, unless a message was printed for the line.
Settled == \A x \in Pc(lines) : Lies(disk, buf, adrift, x) <=> x[1] \notin reported
Acc     == Single(disk, buf, adrift) /\ Settled

LEMMA LiesInPc ==
  ASSUME NEW L, NEW d \in [Path -> Seq(Pc(L))], NEW b \in [Slot -> Seq(Pc(L))],
         NEW a, SortedAdrift(L, a), NEW x, Lies(d, b, a, x)
  PROVE  x \in Pc(L)
<1>1. CASE \E p \in Path : Has(d[p], x)
  BY <1>1, HasInSet
<1>2. CASE \E w \in Slot : Has(b[w], x)
  BY <1>2, HasInSet
<1>3. CASE \E s \in a : Has(s[2], x)
  <2>1. PICK s \in a : Has(s[2], x)
    BY <1>3
  <2>2. s[2] \in Seq(Pc(L))
    BY DEF SortedAdrift
  <2> QED
    BY <2>1, <2>2, HasInSet
<1> QED
  BY <1>1, <1>2, <1>3 DEF Lies

(* A line adds its halves to the pieces there are.                         *)
LEMMA PiecesGrow ==
  ASSUME NEW L \in Seq(Graph), NEW l \in Graph
  PROVE  /\ Len(L) + 1 \in Nat
         /\ Pc(Append(L, l)) = Pc(L) \cup Halves(Len(L) + 1)
         /\ \A x \in Pc(L) : x[1] \in 1..Len(L) /\ x[1] # Len(L) + 1
         /\ \A x \in Halves(Len(L) + 1) : x[1] = Len(L) + 1 /\ x \notin Pc(L)
<1>1. Len(L) \in Nat /\ Len(Append(L, l)) = Len(L) + 1
  BY AppendProperties, LenProperties
<1>2. \A k : k \in 1..(Len(L) + 1) <=> k \in 1..Len(L) \/ k = Len(L) + 1
  BY <1>1
<1>3. Pc(Append(L, l)) = Pc(L) \cup Halves(Len(L) + 1)
  BY <1>1, <1>2 DEF Pc, Halves
<1>4. \A x \in Pc(L) : x[1] \in 1..Len(L) /\ x[1] # Len(L) + 1
  BY <1>1 DEF Pc
<1>5. \A x \in Halves(Len(L) + 1) : x[1] = Len(L) + 1
  BY DEF Halves
<1> QED
  BY <1>1, <1>3, <1>4, <1>5

(* A line is written, or reported.                                         *)
LEMMA LineSettled ==
  ASSUME IInv, Acc, NEW l \in Graph, lines' = Append(lines, l), Single(disk', buf', adrift'),
         \/ /\ reported' = reported
            /\ \A x : Lies(disk', buf', adrift', x)
                       <=> Lies(disk, buf, adrift, x) \/ x \in Halves(ThisLine)
         \/ /\ reported' = reported \cup {ThisLine}
            /\ \A x : Lies(disk', buf', adrift', x) <=> Lies(disk, buf, adrift, x)
  PROVE  Acc'
<1>1. /\ lines \in Seq(Graph) /\ reported \subseteq 1..Len(lines)
      /\ disk \in [Path -> Seq(Pc(lines))] /\ buf \in [Slot -> Seq(Pc(lines))]
      /\ SortedAdrift(lines, adrift)
  BY DEF IInv, Types, SortedDisk, SortedBuf
<1>2. /\ Pc(lines') = Pc(lines) \cup Halves(ThisLine)
      /\ \A x \in Pc(lines) : x[1] # ThisLine
      /\ \A x \in Halves(ThisLine) : x[1] = ThisLine /\ x \notin Pc(lines)
      /\ ThisLine \notin reported
  BY <1>1, PiecesGrow DEF ThisLine
<1>3. \A x \in Halves(ThisLine) : ~Lies(disk, buf, adrift, x)
  BY <1>1, <1>2, LiesInPc
<1>4. \A x \in Pc(lines') : Lies(disk', buf', adrift', x) <=> x[1] \notin reported'
  BY <1>2, <1>3 DEF Acc, Settled
<1>5. Settled'
  BY <1>4 DEF Settled, Lies, Has, Pc
<1>6. Single(disk, buf, adrift)'
  BY DEF Single, Once, Apart, Has
<1> QED
  BY <1>5, <1>6 DEF Acc

LEMMA NoGraphAcc ==
  ASSUME IInv, Acc, NoGraph
  PROVE  Acc'
<1>1. /\ NoLabel \in Graph /\ lines' = Append(lines, NoLabel)
      /\ reported' = reported \cup {ThisLine}
      /\ disk' = disk /\ buf' = buf /\ adrift' = adrift
  BY DEF NoGraph, Getline, Graph
<1>2. /\ Single(disk', buf', adrift')
      /\ \A x : Lies(disk', buf', adrift', x) <=> Lies(disk, buf, adrift, x)
  BY <1>1 DEF Acc
<1> QED
  BY <1>1, <1>2, LineSettled

LEMMA HitAcc ==
  ASSUME IInv, Acc, NEW l \in Label, NEW w \in Slot, Hit(l, w)
  PROVE  Acc'
<1>1. /\ l \in Graph /\ lines' = Append(lines, l) /\ reported' = reported
      /\ phase = "explode" /\ adrift' = adrift
  BY DEF Hit, Getline, Graph
<1>2. /\ lines \in Seq(Graph) /\ SortedDisk(lines, disk) /\ SortedBuf(lines, fp, buf)
      /\ disk \in [Path -> Seq(Pc(lines))] /\ buf \in [Slot -> Seq(Pc(lines))]
      /\ SortedAdrift(lines, adrift)
  BY DEF IInv, Types, SortedDisk, SortedBuf
<1>3. fp[w] \in Path
  BY <1>1, <1>2 DEF IInv, Cached, Hit, FoundAt, SortedBuf
<1>4. /\ ThisLine \in Nat /\ Pc(lines') = Pc(lines) \cup Halves(ThisLine)
      /\ \A x \in Halves(ThisLine) : ~Lies(disk, buf, adrift, x)
  BY <1>1, <1>2, PiecesGrow, LiesInPc DEF ThisLine
<1>5. disk \in [Path -> Seq(Pc(lines'))] /\ buf \in [Slot -> Seq(Pc(lines'))]
  BY <1>2, <1>4, SeqMonotonic
<1>6. /\ Fwrite(disk, w, fp[w], buf[w], ThisLine) /\ Single(disk, buf, adrift)
      /\ Halves(ThisLine) \subseteq Pc(lines')
  BY <1>4 DEF Hit, Acc
<1>7. /\ Single(disk', buf', adrift)
      /\ \A x : Lies(disk', buf', adrift, x)
                 <=> Lies(disk, buf, adrift, x) \/ x \in Halves(ThisLine)
  BY <1>3, <1>4, <1>5, <1>6, FwriteAdds
<1> QED
  BY <1>1, <1>7, LineSettled

(* Evicting a slot moves what its stream holds back to the file, or adrift *)
(* with the stream.                                                        *)
LEMMA EvictMoves ==
  ASSUME IInv, Acc, phase = "explode", NEW w \in Slot
  PROVE  /\ SortedDisk(lines, Evicted(w))
         /\ [buf EXCEPT ![w] = <<>>] \in [Slot -> Seq(Pc(lines))]
         /\ SortedAdrift(lines, Overwritten(w))
         /\ Single(Evicted(w), [buf EXCEPT ![w] = <<>>], Overwritten(w))
         /\ \A x : Lies(Evicted(w), [buf EXCEPT ![w] = <<>>], Overwritten(w), x)
                    <=> Lies(disk, buf, adrift, x)
<1> DEFINE c == [buf EXCEPT ![w] = <<>>]
<1>1. SortedDisk(lines, disk) /\ SortedBuf(lines, fp, buf) /\ Single(disk, buf, adrift)
  BY DEF IInv, Acc
<1>2. c \in [Slot -> Seq(Pc(lines))] /\ \A v \in Slot : c[v] = IF v \in {w} THEN <<>> ELSE buf[v]
  BY <1>1, EmptySeq DEF SortedBuf
<1>3. SortedDisk(lines, Evicted(w)) /\ SortedAdrift(lines, Overwritten(w))
  BY <1>1, FcloseSorted, OverwrittenSorted DEF Evicted, IInv
<1>4. CASE when[w] # 0 \/ fp[w] = Closed
  <2>1. Evicted(w) = Fclose(disk, w) /\ Overwritten(w) = adrift
    BY <1>4 DEF Evicted, Fclose, Overwritten
  <2>2. /\ Single(Fclose(disk, w), c, adrift)
        /\ \A x : Lies(Fclose(disk, w), c, adrift, x) <=> Lies(disk, buf, adrift, x)
    BY <1>1, FcloseMoves
  <2> QED
    BY <1>2, <1>3, <2>1, <2>2
<1>5. CASE when[w] = 0 /\ fp[w] # Closed
  <2>1. Evicted(w) = disk /\ Overwritten(w) = With(adrift, fp, buf, {w})
    BY <1>5 DEF Evicted, Overwritten, With
  <2>2. {w} \subseteq Slot
    OBVIOUS
  <2> HIDE DEF c
  <2>3. /\ Single(disk, c, With(adrift, fp, buf, {w}))
        /\ \A x : Lies(disk, c, With(adrift, fp, buf, {w}), x) <=> Lies(disk, buf, adrift, x)
    BY <1>1, <1>2, <2>2, Leaked
  <2> QED
    BY <1>2, <1>3, <2>1, <2>3 DEF c
<1> QED
  BY <1>4, <1>5

LEMMA MissOpenAcc ==
  ASSUME IInv, Acc, NEW l \in Label, NEW w \in Slot, MissOpen(l, w)
  PROVE  Acc'
<1> DEFINE b == [buf EXCEPT ![w] = <<>>]
           d == Evicted(w)
           a == Overwritten(w)
           p == PathOf(Truncate(l))
<1>1. /\ l \in Graph /\ lines' = Append(lines, l) /\ reported' = reported
      /\ phase = "explode" /\ adrift' = a
  BY DEF MissOpen, Miss, Getline, Graph
<1>2. lines \in Seq(Graph) /\ buf \in [Slot -> Seq(Pc(lines))]
  BY DEF IInv, Types, SortedBuf
<1>3. p \in Path
  BY DEF PathOf, Path, Stem, Name
<1>4. b[w] = <<>> /\ \A v \in Slot : v # w => b[v] = buf[v]
  BY <1>2
<1>5. Fwrite(d, w, p, <<>>, ThisLine)
  BY DEF MissOpen
<1>6. /\ d \in [Path -> Seq(Pc(lines))] /\ b \in [Slot -> Seq(Pc(lines))] /\ SortedAdrift(lines, a)
      /\ Single(d, b, a) /\ \A x : Lies(d, b, a, x) <=> Lies(disk, buf, adrift, x)
  BY <1>1, EvictMoves DEF SortedDisk
<1> HIDE DEF b, d, a, p
<1>7. /\ ThisLine \in Nat /\ Pc(lines') = Pc(lines) \cup Halves(ThisLine)
      /\ \A x \in Halves(ThisLine) : ~Lies(d, b, a, x)
  BY <1>1, <1>2, <1>6, PiecesGrow, LiesInPc DEF ThisLine
<1>8. /\ d \in [Path -> Seq(Pc(lines'))] /\ b \in [Slot -> Seq(Pc(lines'))]
      /\ buf \in [Slot -> Seq(Pc(lines'))] /\ Halves(ThisLine) \subseteq Pc(lines')
  BY <1>2, <1>6, <1>7, SeqMonotonic
<1>9. Fwrite(d, w, p, b[w], ThisLine)
  BY <1>4, <1>5
<1>10. /\ Single(disk', buf', a)
       /\ \A x : Lies(disk', buf', a, x) <=> Lies(d, b, a, x) \/ x \in Halves(ThisLine)
  BY <1>3, <1>4, <1>6, <1>7, <1>8, <1>9, FwriteAdds
<1> QED
  BY <1>1, <1>6, <1>10, LineSettled

LEMMA MissFailAcc ==
  ASSUME IInv, Acc, NEW l \in Label, NEW w \in Slot, MissFail(l, w)
  PROVE  Acc'
<1>1. /\ l \in Graph /\ lines' = Append(lines, l) /\ phase = "explode"
      /\ reported' = reported \cup {ThisLine}
      /\ disk' = Evicted(w) /\ buf' = [buf EXCEPT ![w] = <<>>] /\ adrift' = Overwritten(w)
  BY DEF MissFail, Miss, Getline, Graph
<1>2. /\ Single(disk', buf', adrift')
      /\ \A x : Lies(disk', buf', adrift', x) <=> Lies(disk, buf, adrift, x)
  BY <1>1, EvictMoves
<1> QED
  BY <1>1, <1>2, LineSettled

(* The other steps read no line.                                           *)
LEMMA OtherAcc ==
  ASSUME IInv, Acc,
         EndOfInput \/ CloseSlot \/ Reset \/ OpenInput \/ Exit \/ Flush \/ UNCHANGED vars
  PROVE  Acc'
<1>1. lines' = lines /\ reported' = reported
  BY DEF EndOfInput, CloseSlot, Reset, OpenInput, Exit, Flush, vars
<1>2. /\ SortedDisk(lines, disk) /\ SortedBuf(lines, fp, buf) /\ SortedAdrift(lines, adrift)
      /\ Single(disk, buf, adrift)
  BY DEF IInv, Acc
<1>3. /\ Single(disk', buf', adrift')
      /\ \A x : Lies(disk', buf', adrift', x) <=> Lies(disk, buf, adrift, x)
  <2>1. CASE UNCHANGED <<disk, buf, adrift>>
    BY <2>1 DEF Acc
  <2>2. CASE CloseSlot /\ when[cl] # 0
    <3>1. /\ disk' = Fclose(disk, cl) /\ buf' = [buf EXCEPT ![cl] = <<>>]
          /\ adrift' = adrift /\ cl \in Slot
      BY <2>2 DEF CloseSlot, IInv, Types, Slot
    <3> QED
      BY <1>2, <3>1, FcloseMoves
  <2>3. CASE Reset
    <3> DEFINE W == {v \in Slot : fp[v] # Closed}
               c == [w \in Slot |-> <<>>]
    <3>1. disk' = disk /\ buf' = c /\ adrift' = With(adrift, fp, buf, W)
      BY <2>3 DEF Reset, With
    <3>2. W \subseteq Slot /\ \A v \in Slot : c[v] = IF v \in W THEN <<>> ELSE buf[v]
      BY <1>2 DEF SortedBuf
    <3> HIDE DEF W, c
    <3>3. /\ Single(disk, c, With(adrift, fp, buf, W))
          /\ \A x : Lies(disk, c, With(adrift, fp, buf, W), x) <=> Lies(disk, buf, adrift, x)
      BY <1>2, <3>2, Leaked
    <3> QED
      BY <3>1, <3>3
  <2>4. CASE Flush /\ adrift # {}
    <3>1. PICK s \in adrift : /\ adrift' = adrift \ {s} /\ buf' = buf
                              /\ disk' = [disk EXCEPT ![s[1]] = @ \o s[2]]
      BY <2>4 DEF Flush
    <3>2. /\ disk \in [Path -> Seq(Pc(lines))]
          /\ s[1] \in Path /\ s[2] \in Seq(Pc(lines))
      BY <1>2 DEF SortedAdrift, SortedDisk
    <3> DEFINE e == [disk EXCEPT ![s[1]] = @ \o s[2]]
    <3>3. /\ Single(e, buf, adrift \ {s})
          /\ \A x : Lies(e, buf, adrift \ {s}, x) <=> Lies(disk, buf, adrift, x)
      BY <1>2, <3>2, Flushed
    <3> HIDE DEF e
    <3> QED
      BY <3>1, <3>3 DEF e
  <2>5. CASE Flush /\ adrift = {}
    BY <2>1, <2>5 DEF Flush
  <2> QED
    BY <2>1, <2>2, <2>3, <2>4, <2>5 DEF EndOfInput, CloseSlot, OpenInput, Exit, vars
<1>4. \A x \in Pc(lines') : Lies(disk', buf', adrift', x) <=> x[1] \notin reported'
  BY <1>1, <1>3 DEF Acc, Settled
<1>5. Settled' /\ Single(disk, buf, adrift)'
  BY <1>3, <1>4 DEF Settled, Lies, Has, Pc, Single, Once, Apart
<1> QED
  BY <1>5 DEF Acc

(* No piece is ever at two places, and those that are nowhere have been    *)
(* reported.                                                               *)
LEMMA AlwaysAcc == Spec => []Acc
<1>1. Init => Acc
  <2> SUFFICES ASSUME Init PROVE Acc
    OBVIOUS
  <2>1. /\ \A p \in Path : disk[p] = <<>>
        /\ \A w \in Slot : buf[w] = <<>>
        /\ adrift = {} /\ Pc(lines) = {}
    BY DEF Init, Pc
  <2> QED
    BY <2>1, HasNone, OnceNone DEF Acc, Settled, Single, Apart
<1>2. IInv /\ Acc /\ [Next]_vars => Acc'
  <2> SUFFICES ASSUME IInv, Acc, [Next]_vars
               PROVE  Acc'
    OBVIOUS
  <2>1. CASE NoGraph
    BY <2>1, NoGraphAcc
  <2>2. ASSUME NEW l \in Label, NEW w \in Slot, Hit(l, w) \/ MissOpen(l, w) \/ MissFail(l, w)
        PROVE  Acc'
    BY <2>2, HitAcc, MissOpenAcc, MissFailAcc
  <2>3. CASE EndOfInput \/ CloseSlot \/ Reset \/ OpenInput \/ Exit \/ Flush \/ UNCHANGED vars
    BY <2>3, OtherAcc
  <2> QED
    BY <2>1, <2>2, <2>3 DEF Next, Explode, Terminated
<1> QED
  BY <1>1, <1>2, Inductive, PTL DEF Spec

-----------------------------------------------------------------------------
(* Counting the places.                                                    *)

PlaceAt(I, f, x) == {z \in UNION {{i} \X (1..Len(f[i])) : i \in I} : f[z[1]][z[2]] = x}

(* A piece that is in one sequence of a family, once, has one place in it. *)
LEMMA OnePlace ==
  ASSUME NEW I, NEW f, NEW x, NEW i \in I, Has(f[i], x), Once(f[i]),
         \A j \in I : j # i => ~Has(f[j], x)
  PROVE  Cardinality(PlaceAt(I, f, x)) = 1
<1>1. PICK k \in 1..Len(f[i]) : f[i][k] = x
  BY DEF Has
<1>2. <<i, k>> \in PlaceAt(I, f, x)
  BY <1>1 DEF PlaceAt
<1>3. ASSUME NEW z \in PlaceAt(I, f, x) PROVE z = <<i, k>>
  <2>1. PICK j \in I : z \in {j} \X (1..Len(f[j])) /\ f[z[1]][z[2]] = x
    BY DEF PlaceAt
  <2>2. z = <<j, z[2]>> /\ z[2] \in 1..Len(f[j]) /\ f[j][z[2]] = x
    BY <2>1
  <2>3. j = i
    BY <2>2 DEF Has
  <2>4. z[2] = k
    BY <1>1, <2>2, <2>3 DEF Once
  <2> QED
    BY <2>2, <2>3, <2>4
<1>4. PlaceAt(I, f, x) = {<<i, k>>}
  BY <1>2, <1>3
<1> QED
  BY <1>4, FS_Singleton

LEMMA NoPlace ==
  ASSUME NEW I, NEW f, NEW x, \A i \in I : ~Has(f[i], x)
  PROVE  Cardinality(PlaceAt(I, f, x)) = 0
<1>1. PlaceAt(I, f, x) = {}
  BY DEF PlaceAt, Has
<1> QED
  BY <1>1, FS_EmptySet

LEMMA PlacesAre ==
  ASSUME NEW I, NEW S, NEW f \in [I -> Seq(S)], NEW x
  PROVE  Places(f, x) = PlaceAt(I, f, x)
<1>1. DOMAIN f = I /\ \A i \in I : DOMAIN f[i] = 1..Len(f[i])
  OBVIOUS
<1>2. {{i} \X DOMAIN f[i] : i \in DOMAIN f} = {{i} \X (1..Len(f[i])) : i \in I}
  BY <1>1
<1> QED
  BY <1>2 DEF Places, PlaceAt

(* Every line read is in the files or on its way there, once and with both *)
(* its halves, or an error message was printed for it.                     *)
THEOREM NothingLost == Spec => []Accounted
<1> DEFINE held == [s \in adrift |-> s[2]]
<1>1. IInv /\ Acc => Accounted
  <2> SUFFICES ASSUME IInv, Acc, NEW n \in 1..Len(lines), NEW h \in {1, 2}
               PROVE  Copies(n, h) = IF n \in reported THEN 0 ELSE 1
    BY DEF Accounted
  <2> DEFINE x == <<n, h>>
             D == Cardinality(PlaceAt(Path, disk, x))
             B == Cardinality(PlaceAt(Slot, buf, x))
             A == Cardinality(PlaceAt(adrift, held, x))
  <2>1. x \in Pc(lines) /\ x[1] = n
    BY DEF Pc
  <2>2. /\ disk \in [Path -> Seq(Pc(lines))] /\ buf \in [Slot -> Seq(Pc(lines))]
        /\ held \in [adrift -> Seq(Pc(lines))]
    BY DEF IInv, SortedDisk, SortedBuf, SortedAdrift
  <2>3. Copies(n, h) = D + B + A
    <3>1. Places(disk, x) = PlaceAt(Path, disk, x) /\ Places(buf, x) = PlaceAt(Slot, buf, x)
      BY <2>2, PlacesAre
    <3>2. Places(held, x) = PlaceAt(adrift, held, x)
      BY <2>2, PlacesAre
    <3> QED
      BY <3>1, <3>2 DEF Copies
  <2>a. \A s \in adrift : held[s] = s[2]
    OBVIOUS
  <2> HIDE DEF x, held
  <2>4. Lies(disk, buf, adrift, x) <=> n \notin reported
    BY <2>1 DEF Acc, Settled
  <2>5. CASE n \in reported
    <3>1. /\ \A p \in Path : ~Has(disk[p], x)
          /\ \A w \in Slot : ~Has(buf[w], x)
          /\ \A s \in adrift : ~Has(held[s], x)
      BY <2>a, <2>4, <2>5 DEF Lies
    <3>2. D = 0 /\ B = 0 /\ A = 0
      BY <3>1, NoPlace
    <3> QED
      BY <2>3, <2>5, <3>2
  <2>6. ASSUME n \notin reported, NEW p \in Path, Has(disk[p], x)
        PROVE  Copies(n, h) = 1
    <3>1. /\ Once(disk[p]) /\ \A q \in Path : q # p => ~Has(disk[q], x)
          /\ \A w \in Slot : ~Has(buf[w], x)
          /\ \A s \in adrift : ~Has(held[s], x)
      BY <2>a, <2>6 DEF Acc, Single, Apart
    <3>2. D = 1 /\ B = 0 /\ A = 0
      BY <2>6, <3>1, OnePlace, NoPlace
    <3> QED
      BY <2>3, <3>2
  <2>7. ASSUME n \notin reported, NEW w \in Slot, Has(buf[w], x)
        PROVE  Copies(n, h) = 1
    <3>1. /\ Once(buf[w]) /\ \A v \in Slot : v # w => ~Has(buf[v], x)
          /\ \A p \in Path : ~Has(disk[p], x)
          /\ \A s \in adrift : ~Has(held[s], x)
      BY <2>a, <2>7 DEF Acc, Single, Apart
    <3>2. D = 0 /\ B = 1 /\ A = 0
      BY <2>7, <3>1, OnePlace, NoPlace
    <3> QED
      BY <2>3, <3>2
  <2>8. ASSUME n \notin reported, NEW s \in adrift, Has(held[s], x)
        PROVE  Copies(n, h) = 1
    <3>1. /\ Once(held[s]) /\ \A t \in adrift : t # s => ~Has(held[t], x)
          /\ \A p \in Path : ~Has(disk[p], x)
          /\ \A w \in Slot : ~Has(buf[w], x)
      BY <2>a, <2>8 DEF Acc, Single, Apart
    <3>2. D = 0 /\ B = 0 /\ A = 1
      BY <2>8, <3>1, OnePlace, NoPlace
    <3> QED
      BY <2>3, <3>2
  <2> QED
    BY <2>a, <2>4, <2>5, <2>6, <2>7, <2>8 DEF Lies
<1> QED
  BY <1>1, AlwaysAcc, Inductive, PTL

-----------------------------------------------------------------------------
(* The cache of streams implements ExplodeSpec: as long as every fopen     *)
(* succeeds, explode cannot be told from appending each line to its file.  *)

\* No two graph names make one file name.
OneName == \A g, h \in Name : Mkfn(g) = Mkfn(h) => g = h

-----------------------------------------------------------------------------
(* One stream per file.                                                    *)

Alone(f) == \A v, w \in Slot : v # w /\ f[v] # Closed => f[v] # f[w]

\* While no fopen has failed, the prefix is the one given, files have one
\* stream at most, and an open one is found by the name of its file.
Faithful ==
  fails = 0 =>
    /\ spilt = {}
    /\ Alone(fp)
    /\ phase = "explode" =>
         \A w \in Slot : fp[w] # Closed =>
           \E l \in Label : /\ fp[w] = Prefixed(Mkfn(Truncate(l)))
                            /\ Match(last[w], Truncate(l))

(* A row finds the name it was overwritten with.                           *)
LEMMA OverwriteFinds ==
  ASSUME NEW row \in Row, NEW l \in Label
  PROVE  Match(Overwrite(row, Truncate(l)), Truncate(l))
<1>1. Len(Truncate(l)) \in 2..MAX_GN
  BY NameFacts
<1>2. \A i \in 1..Len(Truncate(l)) : i \in 1..MAX_GN /\ i <= Len(Truncate(l))
  BY <1>1, MaxGnAssumption
<1> QED
  BY <1>2 DEF Match, Overwrite

LEMMA MissOpenFaithful ==
  ASSUME IInv, Faithful, OneName, NEW l \in Label, NEW w \in Slot, MissOpen(l, w)
  PROVE  Faithful'
<1> DEFINE g == Truncate(l)
<1>1. /\ phase = "explode" /\ spilt' = spilt /\ fails' = fails
      /\ \A v \in Slot : ~Match(last[v], g)
      /\ fp' = [fp EXCEPT ![w] = PathOf(g)]
      /\ last' = [last EXCEPT ![w] = Overwrite(last[w], g)]
  BY DEF MissOpen, Miss, Getline
<1>2. fp \in [Slot -> Path \cup {Closed}] /\ last \in [Slot -> Row]
  BY DEF IInv, SortedBuf, Types
<1>3. /\ fp'[w] = PathOf(g) /\ last'[w] = Overwrite(last[w], g)
      /\ \A v \in Slot : v # w => fp'[v] = fp[v] /\ last'[v] = last[v]
  BY <1>1, <1>2
<1> SUFFICES ASSUME fails = 0
             PROVE  /\ spilt' = {}
                    /\ Alone(fp')
                    /\ \A v \in Slot : fp'[v] # Closed =>
                         \E k \in Label : /\ fp'[v] = Prefixed(Mkfn(Truncate(k)))
                                          /\ Match(last'[v], Truncate(k))
  BY <1>1 DEF Faithful, Alone, Match
<1>4. spilt = {} /\ Alone(fp) /\ PathOf(g) = Prefixed(Mkfn(g))
  BY DEF Faithful, PathOf, Prefixed
<1>5. \A v \in Slot : fp[v] # Closed =>
        \E k \in Label : fp[v] = Prefixed(Mkfn(Truncate(k))) /\ Match(last[v], Truncate(k))
  BY <1>1 DEF Faithful
<1>6. ASSUME NEW v \in Slot, fp[v] = PathOf(g) PROVE FALSE
  <2>1. fp[v] # Closed
    <3>1. PathOf(g) \in Path
      BY DEF PathOf, Path, Stem, Name, IInv, Types
    <3> QED
      BY <1>6, <3>1, PathNotClosed
  <2>2. PICK k \in Label : fp[v] = Prefixed(Mkfn(Truncate(k))) /\ Match(last[v], Truncate(k))
    BY <1>5, <2>1
  <2>3. Mkfn(Truncate(k)) = Mkfn(g)
    BY <1>4, <1>6, <2>2 DEF Prefixed
  <2>4. Truncate(k) = g
    BY <2>3 DEF OneName, Name
  <2> QED
    BY <1>1, <2>2, <2>4
<1>7. Alone(fp')
  BY <1>3, <1>4, <1>6 DEF Alone
<1>8. Match(last'[w], g)
  BY <1>2, <1>3, OverwriteFinds
<1> QED
  BY <1>1, <1>3, <1>4, <1>5, <1>7, <1>8

LEMMA OtherFaithful ==
  ASSUME IInv, Faithful, [Next]_vars, ~(\E l \in Label, w \in Slot : MissOpen(l, w))
  PROVE  Faithful'
<1>0. fails \in Nat /\ fp \in [Slot -> Path \cup {Closed}]
  BY BoundAssumption DEF IInv, Types, SortedBuf
<1>1. CASE NoGraph
  BY <1>1 DEF NoGraph, Getline, cache, Faithful, Alone, Match
<1>2. ASSUME NEW l \in Label, NEW w \in Slot, Hit(l, w) PROVE Faithful'
  BY <1>2 DEF Hit, Getline, cache, Faithful, Alone, Match
<1>3. ASSUME NEW l \in Label, NEW w \in Slot, MissFail(l, w) PROVE Faithful'
  BY <1>0, <1>3 DEF MissFail, Faithful
<1>4. CASE CloseSlot
  <2>1. /\ phase' # "explode" /\ spilt' = spilt /\ fails' = fails
        /\ fp' = fp \/ fp' = [fp EXCEPT ![cl] = Closed]
    BY <1>4 DEF CloseSlot
  <2>2. \A v \in Slot : fp'[v] = fp[v] \/ fp'[v] = Closed
    BY <1>0, <2>1
  <2>3. Alone(fp) => Alone(fp')
    BY <2>2 DEF Alone
  <2> QED
    BY <2>1, <2>3 DEF Faithful, Alone
<1>5. CASE EndOfInput \/ Reset
  BY <1>5 DEF EndOfInput, Reset, cache, Faithful, Alone, Match
<1>6. CASE OpenInput \/ Exit \/ Flush
  <2>1. \A w \in Slot : fp[w] = Closed
    BY <1>6 DEF OpenInput, Exit, Flush, IInv, Ticked
  <2> QED
    BY <1>6, <2>1 DEF OpenInput, Exit, Flush, cache, Faithful, Alone, Match
<1>7. CASE UNCHANGED vars
  BY <1>7 DEF vars, cache, Faithful, Alone, Match
<1> QED
  BY <1>1, <1>2, <1>3, <1>4, <1>5, <1>6, <1>7 DEF Next, Explode, Terminated

LEMMA AlwaysFaithful == OneName => (Spec => []Faithful)
<1> SUFFICES ASSUME OneName PROVE Spec => []Faithful
  OBVIOUS
<1>1. Init => Faithful
  BY DEF Init, Faithful, Alone
<1>2. IInv /\ Faithful /\ [Next]_vars => Faithful'
  BY MissOpenFaithful, OtherFaithful
<1> QED
  BY <1>1, <1>2, Inductive, PTL DEF Spec

(* A file is open in one slot at most.  This fails for two names that make *)
(* one file name, and once fopen has failed, for the names of other slots  *)
(* are cleared then; it fails for no other reason: without these two       *)
(* OneStreamPerFile holds for all labels, slots and inputs.                *)
THEOREM OneStream ==
  OneName => (Spec => [](fails = 0 => OneStreamPerFile))
<1>1. Faithful => (fails = 0 => OneStreamPerFile)
  BY DEF Faithful, Alone, OneStreamPerFile
<1> QED
  BY <1>1, AlwaysFaithful, PTL

-----------------------------------------------------------------------------
(* The files, with what is on its way to them.                             *)

(* A file for every stem.                                                  *)
LEMMA PrefixedFiles ==
  /\ \A s : Prefixed(s) # Closed
  /\ \A s \in Stem : Prefixed(s) \in Path
  /\ \A s, t : Prefixed(s) = Prefixed(t) => s = t
  BY DEF Prefixed, Closed, Path

\* A name of its own for concatenation, so that provers leave it alone.
Cat(u, v) == u \o v

LEMMA CatFacts ==
  ASSUME NEW S
  PROVE  /\ \A u \in Seq(S) : Cat(u, <<>>) = u
         /\ \A u, v \in Seq(S) : Cat(u, v) \in Seq(S)
         /\ \A u, v, x \in Seq(S) : Cat(Cat(u, v), x) = Cat(u, Cat(v, x))
<1>1. ASSUME NEW u \in Seq(S) PROVE Cat(u, <<>>) = u
  BY ConcatEmptySeq DEF Cat
<1>2. ASSUME NEW u \in Seq(S), NEW v \in Seq(S) PROVE Cat(u, v) \in Seq(S)
  BY ConcatProperties DEF Cat
<1>3. ASSUME NEW u \in Seq(S), NEW v \in Seq(S), NEW x \in Seq(S)
      PROVE  Cat(Cat(u, v), x) = Cat(u, Cat(v, x))
  <2>1. (u \o v) \o x = u \o (v \o x)
    BY ConcatAssociative, SMT
  <2> QED
    BY <2>1, Zenon DEF Cat
<1> QED
  BY <1>1, <1>2, <1>3

\* Streams f, files d, and buffers b.
Filing(S, f, d, b) ==
  /\ f \in [Slot -> Path \cup {Closed}] /\ d \in [Path -> Seq(S)] /\ b \in [Slot -> Seq(S)]
  /\ Alone(f)

LEMMA FileOpen ==
  ASSUME NEW S, NEW f, NEW d, NEW b, Filing(S, f, d, b),
         NEW s \in Stem, NEW w \in Slot, f[w] = Prefixed(s)
  PROVE  FileIn(f, d, b, s) = Cat(d[Prefixed(s)], b[w])
<1>1. Prefixed(s) # Closed
  BY PrefixedFiles
<1>2. {v \in Slot : f[v] = Prefixed(s)} = {w}
  BY <1>1 DEF Alone, Filing
<1>3. (CHOOSE v \in {w} : TRUE) = w
  OBVIOUS
<1> QED
  BY <1>2, <1>3 DEF FileIn, HeldFor, Cat

LEMMA FileShut ==
  ASSUME NEW S, NEW f, NEW d, NEW b, Filing(S, f, d, b),
         NEW s \in Stem, \A w \in Slot : f[w] # Prefixed(s)
  PROVE  FileIn(f, d, b, s) = d[Prefixed(s)]
<1>1. {w \in Slot : f[w] = Prefixed(s)} = {}
  OBVIOUS
<1>2. FileIn(f, d, b, s) = Cat(d[Prefixed(s)], <<>>)
  BY <1>1 DEF FileIn, HeldFor, Cat
<1>3. d[Prefixed(s)] \in Seq(S)
  BY PrefixedFiles DEF Filing
<1> QED
  BY <1>2, <1>3, CatFacts

(* Nothing changes for a file when it and its stream stay as they are.     *)
LEMMA FileSame ==
  ASSUME NEW S, NEW s \in Stem, NEW f, NEW d, NEW b, NEW h, NEW e, NEW c,
         Filing(S, f, d, b), Filing(S, h, e, c),
         e[Prefixed(s)] = d[Prefixed(s)],
         \A w \in Slot : f[w] = Prefixed(s) <=> h[w] = Prefixed(s),
         \A w \in Slot : f[w] = Prefixed(s) => c[w] = b[w]
  PROVE  FileIn(h, e, c, s) = FileIn(f, d, b, s)
<1>1. CASE \E w \in Slot : f[w] = Prefixed(s)
  <2>1. PICK w \in Slot : f[w] = Prefixed(s)
    BY <1>1
  <2>2. FileIn(f, d, b, s) = Cat(d[Prefixed(s)], b[w])
    BY <2>1, FileOpen
  <2>3. h[w] = Prefixed(s) /\ c[w] = b[w]
    BY <2>1
  <2>4. FileIn(h, e, c, s) = Cat(e[Prefixed(s)], c[w])
    BY <2>3, FileOpen
  <2> QED
    BY <2>2, <2>3, <2>4
<1>2. CASE \A w \in Slot : f[w] # Prefixed(s)
  <2>1. \A w \in Slot : h[w] # Prefixed(s)
    BY <1>2
  <2>2. FileIn(f, d, b, s) = d[Prefixed(s)]
    BY <1>2, FileShut
  <2>3. FileIn(h, e, c, s) = e[Prefixed(s)]
    BY <2>1, FileShut
  <2> QED
    BY <2>2, <2>3
<1> QED
  BY <1>1, <1>2

(* fclose puts into the file what was on its way there.                    *)
LEMMA FcloseSame ==
  ASSUME NEW w \in Slot, IInv, Alone(fp)
  PROVE  LET f == [fp EXCEPT ![w] = Closed]
             d == Fclose(disk, w)
             b == [buf EXCEPT ![w] = <<>>]
         IN  /\ Filing(Pc(lines), f, d, b)
             /\ \A s \in Stem : FileIn(f, d, b, s) = FileIn(fp, disk, buf, s)
<1> DEFINE f == [fp EXCEPT ![w] = Closed]
           b == [buf EXCEPT ![w] = <<>>]
           d == Fclose(disk, w)
           P == Pc(lines)
<1>1. /\ fp \in [Slot -> Path \cup {Closed}] /\ buf \in [Slot -> Seq(P)] /\ disk \in [Path -> Seq(P)]
      /\ Filing(P, fp, disk, buf)
  BY DEF IInv, SortedBuf, SortedDisk, Filing
<1>2. f[w] = Closed /\ b[w] = <<>> /\ \A v \in Slot : v # w => f[v] = fp[v] /\ b[v] = buf[v]
  BY <1>1
<1>3. Filing(P, f, d, b)
  <2>1. d \in [Path -> Seq(P)]
    BY FcloseSorted DEF IInv, SortedDisk
  <2>2. f \in [Slot -> Path \cup {Closed}] /\ b \in [Slot -> Seq(P)]
    BY <1>1, EmptySeq
  <2>3. Alone(f)
    BY <1>2 DEF Alone
  <2> QED
    BY <2>1, <2>2, <2>3 DEF Filing
<1>4. ASSUME NEW s \in Stem PROVE FileIn(f, d, b, s) = FileIn(fp, disk, buf, s)
  <2>1. Prefixed(s) # Closed /\ Prefixed(s) \in Path
    BY PrefixedFiles
  <2>2. CASE fp[w] = Prefixed(s)
    <3>1. d[Prefixed(s)] = Cat(disk[Prefixed(s)], buf[w])
      BY <1>1, <2>1, <2>2 DEF Fclose, Cat
    <3>2. \A v \in Slot : f[v] # Prefixed(s)
      BY <1>2, <2>1, <2>2 DEF Alone
    <3> HIDE DEF f, b, d, P
    <3>3. FileIn(f, d, b, s) = d[Prefixed(s)]
      BY <1>3, <3>2, FileShut
    <3>4. FileIn(fp, disk, buf, s) = Cat(disk[Prefixed(s)], buf[w])
      BY <1>1, <2>2, FileOpen
    <3> QED
      BY <3>1, <3>3, <3>4
  <2>3. CASE fp[w] # Prefixed(s)
    <3>1. d[Prefixed(s)] = disk[Prefixed(s)]
      BY <1>1, <2>3 DEF Fclose
    <3>2. /\ \A v \in Slot : fp[v] = Prefixed(s) <=> f[v] = Prefixed(s)
          /\ \A v \in Slot : fp[v] = Prefixed(s) => b[v] = buf[v]
      BY <1>2, <2>1, <2>3
    <3> HIDE DEF f, b, d, P
    <3> QED
      BY SMTT(30), <1>1, <1>3, <3>1, <3>2, FileSame
  <2> QED
    BY <2>2, <2>3
<1> QED
  BY <1>3, <1>4

(* fwrite appends the two halves of line n to the file of its stream,      *)
(* wherever what is written is cut, and leaves the others.                 *)
LEMMA FwriteAppends ==
  ASSUME NEW S, NEW n, Pieces(n) \in Seq(S), NEW f, NEW d, NEW c, Filing(S, f, d, c),
         NEW w \in Slot, NEW t \in Stem, f[w] = Prefixed(t),
         buf \in [Slot -> Seq(S)], \A v \in Slot : v # w => c[v] = buf[v],
         Fwrite(d, w, Prefixed(t), c[w], n)
  PROVE  \A s \in Stem : FileIn(f, disk', buf', s) =
           IF s = t THEN Cat(FileIn(f, d, c, s), Pieces(n)) ELSE FileIn(f, d, c, s)
<1> DEFINE p   == Prefixed(t)
           all == Cat(c[w], Pieces(n))
<1>1. /\ p \in Path /\ p # Closed /\ f \in [Slot -> Path \cup {Closed}] /\ d \in [Path -> Seq(S)]
      /\ c \in [Slot -> Seq(S)] /\ d[p] \in Seq(S) /\ c[w] \in Seq(S) /\ Alone(f)
  BY PrefixedFiles DEF Filing
<1>2. all \in Seq(S) /\ Len(all) \in Nat
  BY <1>1, CatFacts, LenProperties
<1>3. PICK k \in 0..Len(all) :
        /\ buf' = [buf EXCEPT ![w] = SubSeq(all, k + 1, Len(all))]
        /\ disk' = IF k = 0 THEN d ELSE [d EXCEPT ![p] = Cat(d[p], SubSeq(all, 1, k))]
  BY <1>1 DEF Fwrite, Cat
<1> DEFINE x == SubSeq(all, 1, k)
           r == SubSeq(all, k + 1, Len(all))
<1>4. x \in Seq(S) /\ r \in Seq(S) /\ all = Cat(x, r)
  BY <1>2, Cut DEF Cat
<1>5. k = 0 => x = <<>>
  BY <1>2
<1>6. /\ buf'[w] = r /\ \A v \in Slot : v # w => buf'[v] = buf[v]
      /\ disk'[p] = IF k = 0 THEN d[p] ELSE Cat(d[p], x)
      /\ \A u \in Path : u # p => disk'[u] = d[u]
  BY <1>1, <1>3
<1>7. Filing(S, f, disk', buf')
  <2>1. buf' \in [Slot -> Seq(S)]
    BY <1>3, <1>4
  <2>2. Cat(d[p], x) \in Seq(S)
    BY <1>1, <1>4, CatFacts
  <2>3. disk' \in [Path -> Seq(S)]
    BY <1>1, <1>3, <2>2
  <2> QED
    BY <1>1, <2>1, <2>3 DEF Filing
<1> HIDE DEF x, r, all
<1>8. disk'[p] = Cat(d[p], x)
  BY <1>1, <1>5, <1>6, CatFacts
<1>9. FileIn(f, disk', buf', t) = Cat(FileIn(f, d, c, t), Pieces(n))
  <2>1. FileIn(f, disk', buf', t) = Cat(Cat(d[p], x), r)
    BY <1>6, <1>7, <1>8, FileOpen
  <2>2. Cat(Cat(d[p], x), r) = Cat(d[p], Cat(x, r))
    BY <1>1, <1>4, CatFacts
  <2>3. FileIn(f, d, c, t) = Cat(d[p], c[w])
    BY FileOpen
  <2>4. Cat(Cat(d[p], c[w]), Pieces(n)) = Cat(d[p], Cat(c[w], Pieces(n)))
    BY <1>1, CatFacts
  <2> QED
    BY <1>4, <2>1, <2>2, <2>3, <2>4 DEF all
<1>10. ASSUME NEW s \in Stem, s # t PROVE FileIn(f, disk', buf', s) = FileIn(f, d, c, s)
  <2>1. Prefixed(s) # p /\ f[w] # Prefixed(s) /\ Prefixed(s) \in Path
    BY <1>10, PrefixedFiles
  <2>2. disk'[Prefixed(s)] = d[Prefixed(s)]
    BY <1>6, <2>1
  <2>3. \A v \in Slot : f[v] = Prefixed(s) => buf'[v] = c[v]
    BY <1>6, <2>1
  <2> QED
    BY <1>7, <2>2, <2>3, FileSame
<1> QED
  BY <1>9, <1>10

-----------------------------------------------------------------------------
(* Every step is one of ExplodeSpec's, or changes nothing there.           *)

LEMMA SameMkfn == \A g : Promise!Mkfn(g) = Mkfn(g)
  BY DEF Promise!Mkfn, Promise!Mtrcpy, Promise!Mapped, Promise!Other, Promise!Occurs,
         Promise!FirstAmong, Promise!LastAmong, Mkfn, Mtrcpy, Mapped, Other, Occurs, FirstAmong, LastAmong

LEMMA SameTruncate == \A g : Promise!Truncate(g) = Truncate(g)
  BY DEF Promise!Truncate, Truncate

LEMMA SameStem == Promise!Stem = Stem
  BY SameMkfn, SameTruncate DEF Promise!Stem, Stem, Name

LEMMA InitMaps == Init => Promise!Init
<1> SUFFICES ASSUME Init PROVE Promise!Init
  OBVIOUS
<1>1. ASSUME NEW s \in Stem PROVE File[s] = <<>>
  <2>1. disk[Prefixed(s)] = <<>> /\ \A w \in Slot : fp[w] # Prefixed(s)
    BY PrefixedFiles DEF Init
  <2>2. HeldFor(fp, buf, s) = <<>>
    BY <2>1 DEF HeldFor
  <2>3. FileIn(fp, disk, buf, s) = <<>> \o <<>>
    BY <2>1, <2>2 DEF FileIn
  <2>4. <<>> \o <<>> = <<>>
    OBVIOUS
  <2> QED
    BY <2>3, <2>4 DEF File
<1>2. File = [s \in Stem |-> <<>>]
  BY <1>1 DEF File
<1> QED
  BY <1>2, SameStem DEF Init, Promise!Init

(* A line whose halves are added to the file of its graph, or to what is   *)
(* on its way there, has been appended.                                    *)
LEMMA LineMaps ==
  ASSUME NEW l \in Label, Len(lines) < MaxLines, lines' = Append(lines, l),
         UNCHANGED <<reported, fails>>,
         \A s \in Stem : FileIn(fp', disk', buf', s) =
           IF s = Mkfn(Truncate(l)) THEN Cat(FileIn(fp, disk, buf, s), Pieces(ThisLine))
                                    ELSE FileIn(fp, disk, buf, s)
  PROVE  Promise!Line
<1> DEFINE t == Mkfn(Truncate(l))
<1>1. t \in Stem
  BY DEF Stem, Name
<1>2. File' = [s \in Stem |-> FileIn(fp', disk', buf', s)]
  BY DEF File, FileIn, HeldFor
<1>3. \A s \in Stem : File[s] = FileIn(fp, disk, buf, s) /\ File'[s] = FileIn(fp', disk', buf', s)
  BY <1>2 DEF File
<1>4. File' = [File EXCEPT ![t] = Cat(File[t], Pieces(ThisLine))]
  <2>1. \A s \in Stem : File'[s] = IF s = t THEN Cat(File[t], Pieces(ThisLine)) ELSE File[s]
    BY <1>3
  <2>2. DOMAIN File = Stem /\ File = [s \in Stem |-> File[s]] /\ File' = [s \in Stem |-> File'[s]]
    BY <1>2, <1>3 DEF File
  <2> HIDE DEF t
  <2> QED
    BY <1>1, <2>1, <2>2
<1>5. File' = [File EXCEPT ![t] = @ \o << <<Len(lines) + 1, 1>>, <<Len(lines) + 1, 2>> >>]
  BY <1>4 DEF Cat, Pieces, ThisLine
<1>6. Promise!Mkfn(Promise!Truncate(l)) = t
  BY SameMkfn, SameTruncate
<1>7. Promise!Append2(l)
  BY <1>5, <1>6 DEF Promise!Append2
<1> QED
  BY <1>7 DEF Promise!Line

LEMMA FilingNow ==
  ASSUME IInv, Alone(fp)
  PROVE  Filing(Pc(lines), fp, disk, buf)
  BY DEF IInv, SortedBuf, SortedDisk, Filing

LEMMA FilingGrows ==
  ASSUME IInv, NEW l \in Graph, NEW f, NEW d, NEW b, Filing(Pc(lines), f, d, b)
  PROVE  /\ Filing(Pc(Append(lines, l)), f, d, b)
         /\ buf \in [Slot -> Seq(Pc(Append(lines, l)))]
         /\ Pieces(ThisLine) \in Seq(Pc(Append(lines, l)))
<1>1. lines \in Seq(Graph) /\ buf \in [Slot -> Seq(Pc(lines))]
  BY DEF IInv, Types, SortedBuf
<1>2. \A u : u \in Seq(Pc(lines)) => u \in Seq(Pc(Append(lines, l)))
  BY <1>1, OfGrows, SeqMonotonic
<1>3. Pieces(ThisLine) \in Seq(Pc(Append(lines, l)))
  BY <1>1, OfGrows DEF Pieces, ThisLine
<1> QED
  BY <1>1, <1>2, <1>3 DEF Filing

LEMMA HitMaps ==
  ASSUME IInv, Faithful, fails = 0, NEW l \in Label, NEW w \in Slot, Hit(l, w)
  PROVE  Promise!Line
<1> DEFINE t == Mkfn(Truncate(l))
<1>1. /\ phase = "explode" /\ Len(lines) < MaxLines /\ lines' = Append(lines, l) /\ l \in Graph
      /\ UNCHANGED <<reported, fails, fp>> /\ Match(last[w], Truncate(l))
      /\ Fwrite(disk, w, fp[w], buf[w], ThisLine)
  BY DEF Hit, Getline, FoundAt, cache, Graph
<1>2. Alone(fp) /\ t \in Stem
  BY DEF Faithful, Stem, Name
<1>3. fp[w] # Closed /\ fp[w][2] = t
  BY <1>1 DEF IInv, Cached
<1>4. fp[w] = Prefixed(t)
  <2>1. PICK k \in Label : fp[w] = Prefixed(Mkfn(Truncate(k)))
    BY <1>1, <1>3 DEF Faithful
  <2>2. Mkfn(Truncate(k)) = t
    BY <1>3, <2>1 DEF Prefixed
  <2> QED
    BY <2>1, <2>2
<1>5. /\ Filing(Pc(Append(lines, l)), fp, disk, buf)
      /\ buf \in [Slot -> Seq(Pc(Append(lines, l)))] /\ Pieces(ThisLine) \in Seq(Pc(Append(lines, l)))
  BY <1>1, <1>2, FilingNow, FilingGrows
<1> HIDE DEF t
<1>6. \A s \in Stem : FileIn(fp, disk', buf', s) =
        IF s = t THEN Cat(FileIn(fp, disk, buf, s), Pieces(ThisLine)) ELSE FileIn(fp, disk, buf, s)
  BY <1>1, <1>2, <1>4, <1>5, FwriteAppends
<1> QED
  BY <1>1, <1>6, LineMaps DEF t

LEMMA MissOpenMaps ==
  ASSUME IInv, Faithful, Faithful', fails = 0, NEW l \in Label, NEW w \in Slot, MissOpen(l, w)
  PROVE  Promise!Line
<1> DEFINE t == Mkfn(Truncate(l))
           f == [fp EXCEPT ![w] = Closed]
           d == Fclose(disk, w)
           b == [buf EXCEPT ![w] = <<>>]
           P == Pc(Append(lines, l))
<1>1. /\ phase = "explode" /\ Len(lines) < MaxLines /\ lines' = Append(lines, l) /\ l \in Graph
      /\ UNCHANGED <<reported, fails>>
      /\ fp' = [fp EXCEPT ![w] = PathOf(Truncate(l))]
      /\ Fwrite(Evicted(w), w, PathOf(Truncate(l)), <<>>, ThisLine)
  BY DEF MissOpen, Miss, Getline, Graph
<1>2. Alone(fp) /\ Alone(fp') /\ t \in Stem /\ PathOf(Truncate(l)) = Prefixed(t)
  BY <1>1 DEF Faithful, Stem, Name, PathOf, Prefixed, Alone
<1>3. Evicted(w) = d
  BY <1>1 DEF Evicted, Fclose, IInv, Known, WhenKept, Faithful
<1>4. Filing(Pc(lines), f, d, b) /\ \A s \in Stem : FileIn(f, d, b, s) = FileIn(fp, disk, buf, s)
  BY <1>2, FcloseSame
<1>5. /\ Filing(P, f, d, b) /\ buf \in [Slot -> Seq(P)] /\ Pieces(ThisLine) \in Seq(P)
  BY <1>1, <1>4, FilingGrows
<1>6. /\ fp \in [Slot -> Path \cup {Closed}] /\ buf \in [Slot -> Seq(Pc(lines))]
      /\ Prefixed(t) \in Path /\ Prefixed(t) # Closed
  BY <1>2, PrefixedFiles DEF IInv, SortedBuf
<1>7. /\ fp'[w] = Prefixed(t) /\ f[w] = Closed /\ b[w] = <<>>
      /\ \A v \in Slot : v # w => fp'[v] = fp[v] /\ f[v] = fp[v] /\ b[v] = buf[v]
  BY <1>1, <1>2, <1>6
<1>8. Filing(P, fp', d, b)
  BY <1>1, <1>2, <1>5, <1>6 DEF Filing
<1>9. Fwrite(d, w, Prefixed(t), b[w], ThisLine)
  BY <1>1, <1>2, <1>3, <1>7
<1>10. \A v \in Slot : f[v] # Prefixed(t)
  BY <1>2, <1>6, <1>7 DEF Alone
<1> HIDE DEF t, f, d, b, P
<1>11. ASSUME NEW s \in Stem PROVE FileIn(fp', d, b, s) = FileIn(f, d, b, s)
  <2>1. CASE s = t
    <3>1. FileIn(fp', d, b, t) = Cat(d[Prefixed(t)], <<>>)
      BY <1>2, <1>7, <1>8, FileOpen
    <3>2. FileIn(f, d, b, t) = d[Prefixed(t)]
      BY <1>2, <1>5, <1>10, FileShut
    <3>3. d[Prefixed(t)] \in Seq(P)
      BY <1>5, <1>6 DEF Filing
    <3> QED
      BY <2>1, <3>1, <3>2, <3>3, CatFacts
  <2>2. CASE s # t
    <3>1. Prefixed(s) # Prefixed(t) /\ Prefixed(s) # Closed
      BY <2>2, PrefixedFiles
    <3>2. \A v \in Slot : f[v] = Prefixed(s) <=> fp'[v] = Prefixed(s)
      BY <1>7, <3>1
    <3> QED
      BY <1>5, <1>8, <3>2, FileSame
  <2> QED
    BY <2>1, <2>2
<1>12. \A s \in Stem : FileIn(fp', disk', buf', s) =
         IF s = t THEN Cat(FileIn(fp', d, b, s), Pieces(ThisLine)) ELSE FileIn(fp', d, b, s)
  BY <1>2, <1>5, <1>7, <1>8, <1>9, FwriteAppends
<1>13. \A s \in Stem : FileIn(fp', disk', buf', s) =
         IF s = t THEN Cat(FileIn(fp, disk, buf, s), Pieces(ThisLine)) ELSE FileIn(fp, disk, buf, s)
  BY <1>4, <1>11, <1>12
<1> QED
  BY <1>1, <1>13, LineMaps DEF t

(* A line without a graph is reported, and closing a stream moves nothing  *)
(* to another file.                                                        *)
LEMMA OtherMaps ==
  ASSUME IInv, Faithful, fails = 0, [Next]_vars,
         ~\E l \in Label, w \in Slot : Hit(l, w) \/ MissOpen(l, w) \/ MissFail(l, w)
  PROVE  Promise!Line \/ UNCHANGED Promise!vars
<1>1. CASE NoGraph
  <2>1. File' = File
    BY <1>1 DEF NoGraph, cache, File, FileIn, HeldFor
  <2> QED
    BY <1>1, <2>1 DEF NoGraph, Getline, NoLabel, ThisLine, Promise!Line, Promise!Report
<1>2. CASE UNCHANGED <<lines, reported, fails, fp, disk, buf>>
  <2>1. File' = File
    BY <1>2 DEF File, FileIn, HeldFor
  <2> QED
    BY <1>2, <2>1 DEF Promise!vars
<1>3. CASE CloseSlot /\ when[cl] # 0
  <2>1. /\ cl \in Slot /\ UNCHANGED <<lines, reported, fails>>
        /\ fp' = [fp EXCEPT ![cl] = Closed] /\ disk' = Fclose(disk, cl)
        /\ buf' = [buf EXCEPT ![cl] = <<>>]
    BY <1>3 DEF CloseSlot, IInv, Types, Slot
  <2>2. \A s \in Stem : FileIn(fp', disk', buf', s) = FileIn(fp, disk, buf, s)
    BY <2>1, FcloseSame DEF Faithful
  <2>3. File' = [s \in Stem |-> FileIn(fp', disk', buf', s)]
    BY DEF File, FileIn, HeldFor
  <2>4. File' = File
    BY <2>2, <2>3 DEF File
  <2> QED
    BY <2>1, <2>4 DEF Promise!vars
<1>4. CASE Reset
  <2>1. WhenKept
    BY DEF Faithful, WhenKept
  <2>2. \A w \in Slot : fp[w] = Closed
    BY <1>4, <2>1, CacheAssumption DEF Reset, IInv, Types, Known, Slot
  <2>3. \A w \in Slot : fp'[w] = Closed
    BY <1>4 DEF Reset
  <2>4. ASSUME NEW s \in Stem PROVE FileIn(fp', disk', buf', s) = FileIn(fp, disk, buf, s)
    <3>1. \A w \in Slot : fp[w] # Prefixed(s) /\ fp'[w] # Prefixed(s)
      BY <2>2, <2>3, PrefixedFiles
    <3>2. HeldFor(fp, buf, s) = <<>> /\ HeldFor(fp', buf', s) = <<>>
      BY <3>1 DEF HeldFor
    <3>3. disk' = disk
      BY <1>4 DEF Reset
    <3> QED
      BY <3>2, <3>3 DEF FileIn
  <2>5. File' = [s \in Stem |-> FileIn(fp', disk', buf', s)]
    BY DEF File, FileIn, HeldFor
  <2>6. File' = File
    BY <2>4, <2>5 DEF File
  <2> QED
    BY <1>4, <2>6 DEF Reset, Promise!vars
<1>5. CASE Flush
  <2>1. adrift = {}
    BY DEF Faithful, WhenKept, IInv, Known
  <2> QED
    BY <1>2, <1>5, <2>1 DEF Flush, cache
<1> QED
  BY <1>1, <1>2, <1>3, <1>4, <1>5
  DEF Next, Explode, EndOfInput, CloseSlot, OpenInput, Exit, Terminated, vars, cache

LEMMA StepMaps ==
  ASSUME IInv, Faithful, Faithful', [Next]_vars
  PROVE  [Promise!Line \/ Promise!Void]_Promise!vars
<1>1. CASE fails' # 0
  BY <1>1 DEF Promise!Void
<1>2. CASE fails' = 0
  <2>1. fails = 0
    <3>1. fails \in Nat
      BY BoundAssumption DEF IInv, Types
    <3>2. fails' = fails \/ fails' = fails + 1
      BY DEF Next, Explode, NoGraph, Hit, MissOpen, MissFail, EndOfInput, CloseSlot, Reset,
             OpenInput, Exit, Flush, Terminated, vars, Getline, cache
    <3> QED
      BY <1>2, <3>1, <3>2
  <2>2. ASSUME NEW l \in Label, NEW w \in Slot, MissFail(l, w) PROVE FALSE
    BY <1>2, <2>1, <2>2 DEF MissFail
  <2>3. ASSUME NEW l \in Label, NEW w \in Slot, Hit(l, w) \/ MissOpen(l, w)
        PROVE  Promise!Line
    BY <2>1, <2>3, HitMaps, MissOpenMaps
  <2> QED
    BY <2>1, <2>2, <2>3, OtherMaps
<1> QED
  BY <1>1, <1>2

(* While no fopen has failed, and no two names make one file name, the     *)
(* files and what is on its way to them are what appending line after line *)
(* to the file of its graph would make.                                    *)
THEOREM Implements == OneName => (Spec => ImplementsPromise)
<1> SUFFICES ASSUME OneName PROVE Spec => ImplementsPromise
  OBVIOUS
<1>1. Init => Promise!Init
  BY InitMaps
<1>2. IInv /\ Faithful /\ Faithful' /\ [Next]_vars => [Promise!Line \/ Promise!Void]_Promise!vars
  BY StepMaps
<1>3. Spec => []IInv
  BY Inductive
<1>4. Spec => []Faithful
  BY AlwaysFaithful
<1> QED
  BY <1>1, <1>2, <1>3, <1>4, PTL DEF Spec, ImplementsPromise, Promise!Spec

-----------------------------------------------------------------------------
(* Every line finds a slot, and the run comes to its end with every line   *)
(* in its file.                                                            *)

LEMMA Smallest ==
  ASSUME NEW S, S \subseteq Nat, S # {}
  PROVE  \E k \in S : \A o \in S : k <= o
<1> DEFINE R == OpToRel(<, Nat)
<1>1. \E k \in S : \A o \in S : <<o, k>> \notin R
  <2> HIDE DEF R
  <2> QED
    BY NatLessThanWellFounded, WFMin DEF R
<1>2. \A k, o \in S : <<o, k>> \notin R => k <= o
  BY DEF OpToRel
<1> QED
  BY <1>1, <1>2

\* The searches stop, at one slot only; a stream is closed or lost for a miss
\* only when all slots are taken, unless a memset has cleared some of when, and
\* unless it has cleared tick the stream is that of the slot filled first.
FindsSlot(g) ==
  \/ \E w \in Slot : FoundAt(w, g) /\ \A v \in Slot : FoundAt(v, g) => v = w
  \/ /\ \A v \in Slot : ~Match(last[v], g)
     /\ \E w \in Slot :
          /\ Victim(w) /\ \A v \in Slot : Victim(v) => v = w
          /\ WhenKept /\ fp[w] # Closed => \A v \in Slot : fp[v] # Closed
          /\ WhenKept /\ TickKept /\ fp[w] # Closed =>
               \A v \in Slot : v # w => when[w] < when[v]

LEMMA FoundOnce ==
  ASSUME NEW g, NEW u \in Slot, Match(last[u], g)
  PROVE  \E w \in Slot : FoundAt(w, g) /\ \A v \in Slot : FoundAt(v, g) => v = w
<1> DEFINE S == {w \in Slot : Match(last[w], g)}
<1>1. Slot \subseteq Nat
  BY CacheAssumption DEF Slot
<1>2. PICK w \in S : \A o \in S : w <= o
  <2>1. S \subseteq Nat /\ S # {}
    BY <1>1
  <2> HIDE DEF S
  <2> QED
    BY <2>1, Smallest
<1>3. \A v \in 1..(w - 1) : v \in Slot /\ v < w
  BY <1>1, CacheAssumption DEF Slot
<1>4. FoundAt(w, g)
  BY <1>1, <1>2, <1>3 DEF FoundAt
<1>5. ASSUME NEW v \in Slot, FoundAt(v, g) PROVE v = w
  <2>1. v \in Nat /\ v >= 1 /\ w \in Nat /\ w >= 1
    BY CacheAssumption DEF Slot
  <2>2. ~(v < w)
    BY <1>2, <1>5, <2>1 DEF FoundAt
  <2>3. ~(w < v)
    <3>1. w < v => w \in 1..(v - 1)
      BY <2>1
    <3> QED
      BY <1>5, <3>1 DEF FoundAt
  <2> QED
    BY <2>1, <2>2, <2>3
<1> QED
  BY <1>4, <1>5

LEMMA VictimOnce ==
  ASSUME IInv
  PROVE  \E w \in Slot : Victim(w) /\ \A v \in Slot : Victim(v) => v = w
<1>1. Slot \subseteq Nat /\ 1 \in Slot
  BY CacheAssumption DEF Slot
<1>2. tick \in Nat /\ \A w \in Slot : when[w] \in Nat
  BY DEF IInv, Types
<1> DEFINE S == {when[w] : w \in Slot}
<1>3. PICK m \in S : \A o \in S : m <= o
  <2>1. S \subseteq Nat /\ S # {}
    BY <1>1, <1>2
  <2> HIDE DEF S
  <2> QED
    BY <2>1, Smallest
<1> DEFINE T == {w \in Slot : when[w] = m}
<1>4. PICK w \in T : \A o \in T : w <= o
  <2>1. T \subseteq Nat /\ T # {}
    BY <1>1, <1>3
  <2> HIDE DEF T
  <2> QED
    BY <2>1, Smallest
<1>5. Victim(w)
  <2>1. ASSUME NEW v \in Slot PROVE when[w] <= when[v]
    BY <1>3, <1>4
  <2>2. ASSUME NEW v \in Slot, v < w PROVE when[w] # when[v]
    BY <1>1, <1>4, <2>2
  <2>3. when[w] <= tick
    <3>1. PICK u \in Slot : when[u] <= tick
      BY DEF IInv, Evictable
    <3>2. when[w] <= when[u] /\ when[w] \in Nat /\ when[u] \in Nat
      BY <1>2, <2>1
    <3> QED
      BY <1>2, <3>1, <3>2
  <2> QED
    BY <2>1, <2>2, <2>3 DEF Victim
<1>6. ASSUME NEW v \in Slot, Victim(v) PROVE v = w
  <2>1. when[v] <= when[w] /\ when[w] <= when[v]
    BY <1>5, <1>6 DEF Victim
  <2>2. when[v] = when[w]
    BY <1>2, <2>1
  <2>3. ~(v < w) /\ ~(w < v)
    BY <1>5, <1>6, <2>2 DEF Victim
  <2> QED
    BY <1>1, <2>3
<1> QED
  BY <1>5, <1>6

LEMMA VictimFirst ==
  ASSUME IInv, TicksDistinct, WhenKept, phase = "explode",
         NEW w \in Slot, Victim(w), fp[w] # Closed, NEW v \in Slot
  PROVE  /\ fp[v] # Closed
         /\ TickKept /\ v # w => when[w] < when[v]
<1>1. when[w] \in Nat /\ when[v] \in Nat
  BY DEF IInv, Types
<1>2. when[w] # 0 /\ when[w] <= when[v]
  BY DEF IInv, Known, Victim
<1>3. when[v] # 0
  BY <1>1, <1>2
<1>4. TickKept /\ v # w => when[v] # when[w]
  BY <1>3 DEF TicksDistinct
<1> QED
  BY <1>1, <1>2, <1>3, <1>4 DEF IInv, Ticked

(* No line of the input is one the cache cannot serve, whatever a memset   *)
(* has cleared: the search for its name or the search for a victim ends at *)
(* a slot.  With when as the code left it no stream is evicted while a     *)
(* slot is free, and with tick as it was left too it is the one opened     *)
(* first.                                                                  *)
THEOREM LineFindsSlot ==
  Spec => [](phase = "explode" => \A l \in Label : FindsSlot(Truncate(l)))
<1>1. IInv /\ TicksDistinct => (phase = "explode" => \A l \in Label : FindsSlot(Truncate(l)))
  <2> SUFFICES ASSUME IInv, TicksDistinct, phase = "explode", NEW l \in Label
               PROVE  FindsSlot(Truncate(l))
    OBVIOUS
  <2>1. CASE \E u \in Slot : Match(last[u], Truncate(l))
    BY <2>1, FoundOnce DEF FindsSlot
  <2>2. CASE \A u \in Slot : ~Match(last[u], Truncate(l))
    <3>1. PICK w \in Slot : Victim(w) /\ \A v \in Slot : Victim(v) => v = w
      BY VictimOnce
    <3>2. WhenKept /\ fp[w] # Closed =>
            \A v \in Slot : fp[v] # Closed /\ (TickKept /\ v # w => when[w] < when[v])
      BY <3>1, VictimFirst
    <3> QED
      BY <2>2, <3>1, <3>2 DEF FindsSlot
  <2> QED
    BY <2>1, <2>2
<1> QED
  BY <1>1, Inductive, TicksDiffer, PTL

\* The phases of an input, and what a step gets on with: the inputs, the
\* phases of one, its lines, the slots to be closed, the streams to be closed
\* at exit.
Phases == [explode |-> 4, close |-> 3, main |-> 2, exit |-> 1, done |-> 0]
Proceeds ==
  \/ inputs' < inputs
  \/ inputs' = inputs /\ Phases[phase'] < Phases[phase]
  \/ /\ inputs' = inputs /\ phase' = phase
     /\ \/ Len(lines') > Len(lines)
        \/ cl' > cl
        \/ \E s \in adrift : adrift' = adrift \ {s}

(* The run ends for every number of inputs and slots: a step takes the     *)
(* next input, leaves the loop it is in for good, reads a line, looks at a *)
(* slot not looked at before, or closes a stream left open at exit.  All   *)
(* of these have their end: TypeCorrect bounds the first ones, and only a  *)
(* line that is read opens a stream.                                       *)
THEOREM RunEnds == Spec => [][Proceeds]_vars
<1>1. IInv /\ [Next]_vars => [Proceeds]_vars
  <2> SUFFICES ASSUME IInv, Next, vars' # vars
               PROVE  Proceeds
    OBVIOUS
  <2>1. /\ Phases["explode"] = 4 /\ Phases["close"] = 3 /\ Phases["main"] = 2
        /\ Phases["exit"] = 1 /\ Phases["done"] = 0
    BY DEF Phases
  <2>2. lines \in Seq(Graph) /\ inputs \in Nat /\ cl \in Nat
    BY CacheAssumption, BoundAssumption DEF IInv, Types
  <2>3. ASSUME NEW l, Getline(l) PROVE Proceeds
    <3>1. lines' = Append(lines, l) /\ inputs' = inputs /\ phase' = phase
      BY <2>3 DEF Getline
    <3>2. Len(lines') = Len(lines) + 1 /\ Len(lines) \in Nat
      BY <2>2, <3>1
    <3> QED
      BY <3>1, <3>2 DEF Proceeds
  <2>4. CASE NoGraph
    BY <2>3, <2>4 DEF NoGraph
  <2>5. CASE \E l \in Label, w \in Slot : Hit(l, w) \/ MissOpen(l, w) \/ MissFail(l, w)
    <3>1. PICK l \in Label, w \in Slot : Hit(l, w) \/ MissOpen(l, w) \/ MissFail(l, w)
      BY <2>5
    <3>2. Getline(l)
      BY <3>1 DEF Hit, MissOpen, MissFail, Miss
    <3> QED
      BY <2>3, <3>2
  <2>6. CASE EndOfInput
    BY <2>1, <2>6 DEF EndOfInput, Proceeds
  <2>7. CASE CloseSlot
    BY <2>2, <2>7 DEF CloseSlot, Proceeds
  <2>8. CASE Reset
    BY <2>1, <2>8 DEF Reset, Proceeds
  <2>9. CASE OpenInput
    BY <2>2, <2>9 DEF OpenInput, Proceeds
  <2>10. CASE Exit
    BY <2>1, <2>10 DEF Exit, Proceeds
  <2>11. CASE Flush
    <3>1. CASE adrift = {}
      BY <2>1, <2>11, <3>1 DEF Flush, Proceeds
    <3>2. CASE adrift # {}
      <4>1. /\ inputs' = inputs /\ phase' = phase
            /\ \E s \in adrift : adrift' = adrift \ {s}
        BY <2>11, <3>2 DEF Flush
      <4> QED
        BY <4>1 DEF Proceeds
    <3> QED
      BY <3>1, <3>2
  <2> QED
    BY <2>4, <2>5, <2>6, <2>7, <2>8, <2>9, <2>10, <2>11 DEF Next, Explode, Terminated
<1> QED
  BY <1>1, Inductive, PTL DEF Spec

\* Both halves of line n are in the file of its graph, with the prefix or
\* without it.
InItsFile(n) ==
  \A h \in {1, 2} :
    \E p \in Path : p[2] = StemOf(n) /\ \E k \in 1..Len(disk[p]) : disk[p][k] = <<n, h>>

(* When the program is done, whatever a memset has cleared, and between    *)
(* the inputs unless it has cleared some of when, every line that was read *)
(* is in the file of its graph, unless an error message was printed for    *)
(* it.                                                                     *)
THEOREM AllWritten ==
  Spec => [](phase = "done" \/ (phase = "main" /\ WhenKept) =>
               \A n \in 1..Len(lines) : n \notin reported => InItsFile(n))
<1>1. IInv /\ Acc /\ AtRest /\ NoMisfile =>
        (phase = "done" \/ (phase = "main" /\ WhenKept) =>
           \A n \in 1..Len(lines) : n \notin reported => InItsFile(n))
  <2> SUFFICES ASSUME IInv, Acc, AtRest, NoMisfile, phase = "done" \/ (phase = "main" /\ WhenKept),
                      NEW n \in 1..Len(lines), n \notin reported, NEW h \in {1, 2}
               PROVE  \E p \in Path : /\ p[2] = StemOf(n)
                                      /\ \E k \in 1..Len(disk[p]) : disk[p][k] = <<n, h>>
    BY DEF InItsFile
  <2> DEFINE x == <<n, h>>
  <2>1. x \in Pc(lines) /\ x[1] = n
    BY DEF Pc
  <2> HIDE DEF x
  <2>2. Lies(disk, buf, adrift, x)
    BY <2>1 DEF Acc, Settled
  <2>3. adrift = {} /\ \A w \in Slot : ~Has(buf[w], x)
    BY DEF AtRest, Has
  <2>4. PICK p \in Path : Has(disk[p], x)
    BY <2>2, <2>3 DEF Lies
  <2>5. PICK k \in 1..Len(disk[p]) : disk[p][k] = x
    BY <2>4 DEF Has
  <2>6. p[2] = StemOf(n)
    BY <2>1, <2>5 DEF NoMisfile
  <2> QED
    BY <2>5, <2>6 DEF x
<1> QED
  BY <1>1, AlwaysAcc, Inductive, NothingLeftOpen, NothingMisfiled, PTL
=============================================================================
