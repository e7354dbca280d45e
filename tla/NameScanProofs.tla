--------------------------- MODULE NameScanProofs ---------------------------
(***************************************************************************)
(* The loops of snarf_graph, mkfn and mtrcpy stay in the line, in the row  *)
(* and in prfx, end, and compute what GraphNames says, for every line and  *)
(* every length of a row.                                                  *)
(***************************************************************************)
EXTENDS NameScan, SequenceTheorems, WellFoundedInduction, TLAPS

-----------------------------------------------------------------------------
(* The operators of GraphNames.                                            *)

LEMMA LastAmongIs ==
  ASSUME NEW s, NEW C, Len(s) \in Nat, NEW k \in 1..Len(s), s[k] \in C,
         \A o \in (k + 1)..Len(s) : s[o] \notin C
  PROVE  LastAmong(s, C) = k
<1> DEFINE m == LastAmong(s, C)
<1>1. m \in 1..Len(s) /\ s[m] \in C /\ \A o \in (m + 1)..Len(s) : s[o] \notin C
  BY DEF LastAmong
<1> HIDE DEF m
<1>2. ~(m < k) /\ ~(k < m)
  BY <1>1
<1> QED
  BY <1>1, <1>2 DEF m

LEMMA FirstAmongIs ==
  ASSUME NEW s, NEW C, Len(s) \in Nat, NEW k \in 1..Len(s), s[k] \in C,
         \A o \in 1..(k - 1) : s[o] \notin C
  PROVE  FirstAmong(s, C) = k
<1> DEFINE m == FirstAmong(s, C)
<1>1. m \in 1..Len(s) /\ s[m] \in C /\ \A o \in 1..(m - 1) : s[o] \notin C
  BY DEF FirstAmong
<1> HIDE DEF m
<1>2. ~(m < k) /\ ~(k < m)
  BY <1>1
<1> QED
  BY <1>1, <1>2 DEF m

LEMMA Smallest ==
  ASSUME NEW S, S \subseteq Nat, S # {}
  PROVE  \E k \in S : \A o \in S : k <= o
<1> DEFINE R == OpToRel(<, Nat)
<1>1. \E k \in S : \A o \in S : <<o, k>> \notin R
  <2> HIDE DEF R
  <2> QED
    BY NatLessThanWellFounded, WFMin DEF R
<1>2. \A k, o \in S : <<o, k>> \notin R => k <= o
  BY DEF OpToRel
<1> QED
  BY <1>1, <1>2

(* Where a character occurs, there is a first place of it.                 *)
LEMMA FirstThere ==
  ASSUME NEW s, NEW c, Len(s) \in Nat, Occurs(s, c)
  PROVE  FirstAmong(s, {c}) \in 1..Len(s)
<1> DEFINE S == {k \in 1..Len(s) : s[k] = c}
<1>1. PICK k \in S : \A o \in S : k <= o
  <2>1. S \subseteq Nat /\ S # {}
    BY DEF Occurs
  <2> HIDE DEF S
  <2> QED
    BY <2>1, Smallest
<1>2. \A o \in 1..(k - 1) : s[o] \notin {c}
  BY <1>1
<1> QED
  BY <1>1, <1>2, FirstAmongIs

(* A part of a sequence.                                                   *)
LEMMA Part ==
  ASSUME NEW T, NEW s \in Seq(T), NEW a \in 1..(Len(s) + 1), NEW b \in (a - 1)..Len(s)
  PROVE  /\ SubSeq(s, a, b) \in Seq(T) /\ Len(SubSeq(s, a, b)) = b - a + 1
         /\ \A o \in 1..(b - a + 1) : SubSeq(s, a, b)[o] = s[a + o - 1]
<1>1. Len(s) \in Nat
  BY LenProperties
<1>2. \A o \in a..b : s[o] \in T
  BY <1>1, ElementOfSeq
<1> QED
  BY <1>1, <1>2, SubSeqProperties

LEMMA PartBehind ==
  ASSUME NEW T, NEW s \in Seq(T), NEW f \in 0..Len(s), NEW b \in f..Len(s)
  PROVE  /\ SubSeq(s, f + 1, b) \in Seq(T) /\ Len(SubSeq(s, f + 1, b)) = b - f
         /\ \A o \in 1..(b - f) : SubSeq(s, f + 1, b)[o] = s[f + o]
<1>0. Len(s) \in Nat
  BY LenProperties
<1>1. PICK a \in 1..(Len(s) + 1) : a = f + 1
  BY <1>0
<1>2. b \in (a - 1)..Len(s) /\ b - a + 1 = b - f
  BY <1>0, <1>1
<1>3. /\ SubSeq(s, a, b) \in Seq(T) /\ Len(SubSeq(s, a, b)) = b - f
      /\ \A o \in 1..(b - f) : SubSeq(s, a, b)[o] = s[a + o - 1]
  BY <1>2, Part
<1>4. \A o \in 1..(b - f) : a + o - 1 = f + o
  BY <1>0, <1>1
<1> QED
  BY <1>1, <1>3, <1>4

(* The graph name of a line is what lies between its last closing bracket  *)
(* and the opening one in front of it.                                     *)
LEMMA SnarfIs ==
  ASSUME NEW t \in Seq(STRING), NEW e \in 1..(Len(t) - 1), t[e] = ">",
         \A o \in (e + 1)..(Len(t) - 1) : t[o] # ">",
         NEW f \in 1..e, t[f] = "<", \A o \in (f + 1)..e : t[o] # "<"
  PROVE  SnarfGraph(t) = Truncate(SubSeq(t, f, e))
<1> DEFINE body == SubSeq(t, 1, Len(t) - 1)
           upto == SubSeq(body, 1, e)
<1>0. Len(t) \in Nat
  BY LenProperties
<1>1. /\ body \in Seq(STRING) /\ Len(body) = Len(t) - 1
      /\ \A o \in 1..(Len(t) - 1) : body[o] = t[o]
  <2>1. Len(t) - 1 - 1 + 1 = Len(t) - 1 /\ 1 \in 1..(Len(t) + 1) /\ Len(t) - 1 \in (1 - 1)..Len(t)
    BY <1>0
  <2> QED
    BY <1>0, <2>1, Part
<1> HIDE DEF body
<1>2. /\ upto \in Seq(STRING) /\ Len(upto) = e
      /\ \A o \in 1..e : upto[o] = t[o]
  <2>1. e - 1 + 1 = e /\ 1 \in 1..(Len(body) + 1) /\ e \in (1 - 1)..Len(body)
    BY <1>0, <1>1
  <2> QED
    BY <1>0, <1>1, <2>1, Part
<1>3. LastAmong(body, {">"}) = e
  <2>1. /\ Len(body) \in Nat /\ e \in 1..Len(body) /\ body[e] \in {">"}
        /\ \A o \in (e + 1)..Len(body) : body[o] \notin {">"}
    BY <1>0, <1>1
  <2> QED
    BY <2>1, LastAmongIs
<1> HIDE DEF upto
<1>4. LastAmong(upto, {"<"}) = f
  BY SMTT(30), <1>2, LastAmongIs
<1>5. Occurs(body, ">") /\ Occurs(upto, "<") /\ t # <<>>
  BY <1>0, <1>1, <1>2 DEF Occurs
<1>6. SubSeq(upto, f, e) = SubSeq(t, f, e)
  <2>1. f \in 1..(Len(upto) + 1) /\ e \in (f - 1)..Len(upto) /\ f \in 1..(Len(t) + 1) /\ e \in (f - 1)..Len(t)
    BY <1>0, <1>2
  <2>2. /\ SubSeq(upto, f, e) \in Seq(STRING) /\ Len(SubSeq(upto, f, e)) = e - f + 1
        /\ \A o \in 1..(e - f + 1) : SubSeq(upto, f, e)[o] = upto[f + o - 1]
    BY <1>2, <2>1, Part
  <2>3. /\ SubSeq(t, f, e) \in Seq(STRING) /\ Len(SubSeq(t, f, e)) = e - f + 1
        /\ \A o \in 1..(e - f + 1) : SubSeq(t, f, e)[o] = t[f + o - 1]
    BY <2>1, Part
  <2>4. \A o \in 1..(e - f + 1) : f + o - 1 \in 1..e
    OBVIOUS
  <2>5. \A o \in 1..(e - f + 1) : SubSeq(upto, f, e)[o] = SubSeq(t, f, e)[o]
    BY <1>2, <2>2, <2>3, <2>4
  <2> QED
    BY <2>2, <2>3, <2>5, SeqEqual
<1>7. SnarfGraph(t) = Truncate(SubSeq(upto, LastAmong(upto, {"<"}), Len(upto)))
  BY <1>3, <1>5 DEF SnarfGraph, body, upto
<1> QED
  BY <1>2, <1>4, <1>6, <1>7

(* Without a closing bracket, or an opening one in front of the last one,  *)
(* there is none.                                                          *)
LEMMA SnarfNone ==
  ASSUME NEW t \in Seq(STRING), Len(t) # 0, NEW e \in 0..(Len(t) - 1),
         \A o \in (e + 1)..(Len(t) - 1) : t[o] # ">",
         e # 0 => t[e] = ">" /\ \A o \in 1..e : t[o] # "<"
  PROVE  SnarfGraph(t) = <<>>
<1> DEFINE body == SubSeq(t, 1, Len(t) - 1)
           upto == SubSeq(body, 1, e)
<1>0. Len(t) \in Nat
  BY LenProperties
<1>1. /\ body \in Seq(STRING) /\ Len(body) = Len(t) - 1
      /\ \A o \in 1..(Len(t) - 1) : body[o] = t[o]
  <2>1. Len(t) - 1 - 1 + 1 = Len(t) - 1 /\ 1 \in 1..(Len(t) + 1) /\ Len(t) - 1 \in (1 - 1)..Len(t)
    BY <1>0
  <2> QED
    BY <1>0, <2>1, Part
<1> HIDE DEF body
<1>2. CASE e = 0
  <2>1. ~Occurs(body, ">")
    BY <1>0, <1>1, <1>2 DEF Occurs
  <2> QED
    BY <2>1 DEF SnarfGraph, body
<1>3. CASE e # 0
  <2>1. /\ upto \in Seq(STRING) /\ Len(upto) = e
        /\ \A o \in 1..e : upto[o] = t[o]
    <3>1. e - 1 + 1 = e /\ 1 \in 1..(Len(body) + 1) /\ e \in (1 - 1)..Len(body)
      BY <1>0, <1>1
    <3> QED
      BY <1>0, <1>1, <3>1, Part
  <2>2. LastAmong(body, {">"}) = e
    BY SMTT(30), <1>0, <1>1, <1>3, LastAmongIs
  <2> HIDE DEF upto
  <2>3. ~Occurs(upto, "<")
    BY <1>3, <2>1 DEF Occurs
  <2> QED
    BY <2>2, <2>3 DEF SnarfGraph, body, upto
<1> QED
  BY <1>2, <1>3

(* What mtrcpy makes of underscores alone, and of a name between them.     *)
Underscore == "_"

LEMMA MtrcpyNothing ==
  ASSUME NEW src, \A x \in 1..Len(src) : Mapped(src[x]) = Underscore
  PROVE  Mtrcpy(src) = <<>>
<1> DEFINE m == [x \in 1..Len(src) |-> Mapped(src[x])]
<1>1. {x \in 1..Len(src) : m[x] # "_"} = {}
  BY DEF Underscore
<1> QED
  BY <1>1, Zenon DEF Mtrcpy

LEMMA MtrcpyIs ==
  ASSUME NEW src, Len(src) \in Nat, NEW f \in 1..Len(src), NEW n \in 1..(Len(src) - f + 1),
         Mapped(src[f]) # Underscore, Mapped(src[f + n - 1]) # Underscore,
         \A x \in 1..(f - 1) : Mapped(src[x]) = Underscore,
         \A x \in (f + n)..Len(src) : Mapped(src[x]) = Underscore
  PROVE  Mtrcpy(src) = [o \in 1..n |-> Mapped(src[f + o - 1])]
<1> DEFINE m == [x \in 1..Len(src) |-> Mapped(src[x])]
           All == {m[x] : x \in 1..Len(src)}
           kept == {x \in 1..Len(src) : m[x] # "_"}
           C == {m[x] : x \in kept}
           e == f + n - 1
<1>1. /\ m \in Seq(All) /\ Len(m) = Len(src)
      /\ \A x \in 1..Len(src) : m[x] = Mapped(src[x])
  <2>1. m \in [1..Len(src) -> All]
    OBVIOUS
  <2> HIDE DEF m
  <2>2. m \in Seq(All)
    BY <2>1, SeqDef
  <2>3. Len(m) = Len(src)
    BY <2>1, <2>2, LenProperties
  <2> QED
    BY <2>2, <2>3 DEF m
<1> HIDE DEF All
<1>2. kept = {x \in 1..Len(src) : m[x] # Underscore}
  BY DEF Underscore
<1> HIDE DEF m, kept
<1>3. /\ e \in f..Len(src) /\ f \in 1..Len(src) /\ e \in 1..Len(src) /\ e + 1 = f + n
      /\ f \in 1..(Len(m) + 1) /\ e \in (f - 1)..Len(m) /\ e - f + 1 = n /\ Len(m) \in Nat
  BY <1>1
<1>4. f \in kept /\ e \in kept
  BY <1>1, <1>2, <1>3
<1>5. \A c \in C : c # Underscore
  BY <1>2
<1>6. FirstAmong(m, C) = f
  <2>1. m[f] \in C
    BY <1>4
  <2>2. \A o \in 1..(f - 1) : o \in 1..Len(src) /\ m[o] = Underscore
    BY <1>1, <1>3
  <2>3. \A o \in 1..(f - 1) : m[o] \notin C
    BY <1>5, <2>2
  <2>4. f \in 1..Len(m)
    BY <1>1, <1>3
  <2> HIDE DEF C
  <2> QED
    BY <1>3, <2>1, <2>3, <2>4, FirstAmongIs
<1>7. LastAmong(m, C) = e
  <2>1. m[e] \in C
    BY <1>4
  <2>2. \A o \in (e + 1)..Len(m) : o \in 1..Len(src) /\ m[o] = Underscore
    BY <1>1, <1>3
  <2>3. \A o \in (e + 1)..Len(m) : m[o] \notin C
    BY <1>5, <2>2
  <2>4. e \in 1..Len(m)
    BY <1>1, <1>3
  <2> HIDE DEF C, e
  <2> QED
    BY <1>3, <2>1, <2>3, <2>4, LastAmongIs
<1>8. Mtrcpy(src) = SubSeq(m, f, e)
  <2>1. kept # {}
    BY <1>4
  <2>2. Mtrcpy(src) = IF kept = {} THEN <<>> ELSE SubSeq(m, FirstAmong(m, C), LastAmong(m, C))
    BY Zenon DEF Mtrcpy, m, kept
  <2> HIDE DEF C, e
  <2> QED
    BY <1>6, <1>7, <2>1, <2>2
<1>9. /\ SubSeq(m, f, e) \in Seq(All) /\ Len(SubSeq(m, f, e)) = n
      /\ \A o \in 1..n : SubSeq(m, f, e)[o] = m[f + o - 1]
  <2> HIDE DEF e
  <2> QED
    BY <1>1, <1>3, Part
<1>10. SubSeq(m, f, e) \in [1..n -> All]
  <2> HIDE DEF e
  <2> QED
    BY <1>9, LenProperties
<1>11. \A o \in 1..n : f + o - 1 \in 1..Len(src)
  OBVIOUS
<1>12. \A o \in 1..n : SubSeq(m, f, e)[o] = Mapped(src[f + o - 1])
  <2> HIDE DEF e
  <2> QED
    BY <1>1, <1>9, <1>11
<1> HIDE DEF e
<1> QED
  BY <1>8, <1>10, <1>12

-----------------------------------------------------------------------------
Behind == {"copy", "trim", "done"}

Char == STRING \cup {"_", "NUL"}

TypeOK ==
  /\ quad \in Quads
  /\ pc \in {"ep", "fp", "cut", "none"} \cup Behind
  /\ ep \in 0..Len(line) /\ fp \in -1..Len(line)
  /\ i \in Nat /\ j \in Nat /\ (pc \notin Behind => i = 0 /\ j = 0)
  /\ tgt \in [0..(MAX_GN - 1) -> Char]

\* How far the scans have come.
Scans ==
  /\ pc \in {"ep", "fp", "cut", "none"} =>
       ep \in 0..(Len(line) - 1) /\ \A o \in (ep + 1)..(Len(line) - 1) : line[o] # ">"
  /\ pc \in {"fp", "cut", "none"} =>
       /\ ep > 0 => line[ep] = ">"
       /\ fp \in -1..(ep - 1) /\ \A o \in (fp + 2)..ep : line[o] # "<"
  /\ pc \in {"cut", "none"} => fp < 0 \/ line[fp + 1] = "<"
  /\ pc = "none" => fp < 0 \/ ep <= 0
  /\ pc \in Behind => g = SnarfGraph(line) /\ g \in Seq(STRING) /\ Len(g) \in 2..MAX_GN

\* Byte number x behind the scheme as it is copied.
Byte(x) == Mapped(g[From + x])

\* All bytes read are underscores, or those kept begin with the one at f, which is not,
\* and all behind them are underscores.
Blanks == j = 0 /\ \A x \in 1..i : Byte(x) = Underscore
Run(f) == /\ Byte(f) # Underscore /\ \A x \in 1..(f - 1) : Byte(x) = Underscore
          /\ j \in 1..(i - f + 1) /\ \A o \in 0..(j - 1) : tgt[o] = Byte(f + o)
          /\ \A x \in (f + j)..i : Byte(x) = Underscore
          /\ pc = "copy" => j = i - f + 1
          /\ pc = "done" => tgt[j - 1] # Underscore
Copies ==
  pc \in Behind => /\ i \in 0..Span /\ (pc # "copy" => i = Span)
                   /\ Blanks \/ \E f \in 1..i : Run(f)

IInv == TypeOK /\ Scans /\ Copies

LEMMA Line ==
  ASSUME quad \in Quads
  PROVE  line \in Seq(STRING) /\ Len(line) \in Nat /\ Len(line) >= 1
<1>1. quad \in [text : Seq(STRING) \ {<<>>}, graph : Seq(STRING)]
  BY QuadAssumption, Zenon
<1>2. line \in Seq(STRING) /\ line # <<>>
  BY <1>1 DEF line
<1> QED
  BY <1>2, EmptySeq, LenProperties

(* Behind the scheme there is something left, and it is shorter than prfx. *)
LEMMA SpanOf ==
  ASSUME NEW h \in Seq(STRING), Len(h) \in 2..MAX_GN, BytesBehindColon(h)
  PROVE  (IF Occurs(h, ":") THEN FirstAmong(h, {":"}) ELSE 1) \in 1..(Len(h) - 1)
<1>1. CASE Occurs(h, ":")
  BY <1>1, FirstThere, MaxGnAssumption DEF BytesBehindColon
<1>2. CASE ~Occurs(h, ":")
  BY <1>2, MaxGnAssumption
<1> QED
  BY <1>1, <1>2

LEMMA Spans ==
  ASSUME TypeOK, Scans, pc \in Behind
  PROVE  From \in 1..(Len(g) - 1) /\ Span \in 0..(MAX_GN - 2) /\ Len(g) \in 2..MAX_GN /\ g \in Seq(STRING)
<1>1. g \in Seq(STRING) /\ Len(g) \in 2..MAX_GN /\ BytesBehindColon(g)
  BY SchemeAssumption DEF TypeOK, Scans, line
<1>2. From \in 1..(Len(g) - 1)
  BY <1>1, SpanOf DEF From
<1> QED
  BY <1>1, <1>2, MaxGnAssumption DEF Span

(* A byte that is copied is a string, and never a slash.                   *)
LEMMA Bytes ==
  ASSUME TypeOK, Scans, pc \in Behind, NEW x \in 1..Span
  PROVE  Byte(x) \in Char /\ Byte(x) # "/"
<1>1. From + x \in 1..Len(g)
  BY Spans DEF Span
<1>2. g[From + x] \in STRING
  BY <1>1, Spans, ElementOfSeq
<1>3. CASE g[From + x] \in Other
  BY <1>3 DEF Byte, Mapped, Char
<1>4. CASE g[From + x] \notin Other
  BY <1>2, <1>4 DEF Byte, Mapped, Other, Char
<1> QED
  BY <1>3, <1>4

-----------------------------------------------------------------------------
LEMMA AtInit == Init => IInv
<1> SUFFICES ASSUME Init PROVE IInv
  OBVIOUS
<1>1. Len(line) \in Nat /\ Len(line) >= 1
  BY Line DEF Init
<1>2. TypeOK
  <2>1. tgt \in [0..(MAX_GN - 1) -> Char]
    BY DEF Init, Char
  <2> QED
    BY <1>1, <2>1 DEF Init, TypeOK, Behind
<1>3. Scans
  BY <1>1 DEF Init, Scans, Behind
<1>4. Copies
  BY DEF Init, Copies, Behind
<1> QED
  BY <1>2, <1>3, <1>4 DEF IInv

LEMMA AtBackToEnd == IInv /\ BackToEnd => IInv'
<1> SUFFICES ASSUME IInv, BackToEnd PROVE IInv'
  OBVIOUS
<1>1. Len(line) \in Nat /\ Len(line) >= 1 /\ line' = line
  BY Line DEF IInv, TypeOK, BackToEnd, line
<1>2. ep \in 0..(Len(line) - 1) /\ \A o \in (ep + 1)..(Len(line) - 1) : line[o] # ">"
  BY DEF IInv, Scans, BackToEnd
<1>3. pc' \notin Behind /\ pc' # "cut" /\ pc' # "none"
  BY DEF BackToEnd, Behind
<1>4. TypeOK'
  BY <1>1, <1>2, <1>3 DEF IInv, TypeOK, BackToEnd, Behind
<1>5. Scans'
  <2>1. CASE ep > 0 /\ line[ep] # ">"
    BY <1>1, <1>2, <2>1 DEF Scans, BackToEnd, Behind
  <2>2. CASE ~(ep > 0 /\ line[ep] # ">")
    BY <1>1, <1>2, <2>2 DEF Scans, BackToEnd, Behind
  <2> QED
    BY <2>1, <2>2
<1>6. Copies'
  BY <1>3 DEF Copies
<1> QED
  BY <1>4, <1>5, <1>6 DEF IInv

LEMMA AtBackToStart == IInv /\ BackToStart => IInv'
<1> SUFFICES ASSUME IInv, BackToStart PROVE IInv'
  OBVIOUS
<1>1. Len(line) \in Nat /\ Len(line) >= 1 /\ line' = line
  BY Line DEF IInv, TypeOK, BackToStart, line
<1>2. /\ ep \in 0..(Len(line) - 1) /\ \A o \in (ep + 1)..(Len(line) - 1) : line[o] # ">"
      /\ ep > 0 => line[ep] = ">"
      /\ fp \in -1..(ep - 1) /\ \A o \in (fp + 2)..ep : line[o] # "<"
  BY DEF IInv, Scans, BackToStart
<1>3. pc' \notin Behind /\ pc' # "ep" /\ pc' # "none"
  BY DEF BackToStart, Behind
<1>4. TypeOK'
  BY <1>1, <1>2, <1>3 DEF IInv, TypeOK, BackToStart, Behind
<1>5. Scans'
  <2>1. CASE fp >= 0 /\ line[fp + 1] # "<"
    <3>1. fp' = fp - 1 /\ pc' = "fp" /\ ep' = ep
      BY <2>1 DEF BackToStart, Starts
    <3>2. fp' \in -1..(ep - 1) /\ \A o \in (fp' + 2)..ep : line[o] # "<"
      BY <1>2, <2>1, <3>1
    <3> QED
      BY <1>1, <1>2, <3>1, <3>2 DEF Scans, Behind
  <2>2. CASE ~(fp >= 0 /\ line[fp + 1] # "<")
    <3>1. fp' = fp /\ pc' = "cut" /\ ep' = ep
      BY <2>2 DEF BackToStart, Starts
    <3> QED
      BY <1>1, <1>2, <2>2, <3>1 DEF Scans, Behind
  <2> QED
    BY <2>1, <2>2
<1>6. Copies'
  BY <1>3 DEF Copies
<1> QED
  BY <1>4, <1>5, <1>6 DEF IInv

LEMMA AtNothingFound == IInv /\ NothingFound => IInv'
<1> SUFFICES ASSUME IInv, NothingFound PROVE IInv'
  OBVIOUS
<1>1. pc = "cut" /\ pc' = "none" /\ (fp < 0 \/ ep <= 0) /\ UNCHANGED <<quad, line, ep, fp, g, i, j, tgt>>
  BY DEF NothingFound, line
<1>2. TypeOK'
  BY <1>1 DEF IInv, TypeOK, Behind
<1>3. Scans'
  BY <1>1 DEF IInv, Scans, Behind
<1>4. Copies'
  BY <1>1 DEF Copies, Behind
<1> QED
  BY <1>2, <1>3, <1>4 DEF IInv

LEMMA AtCut == IInv /\ Cut => IInv'
<1> SUFFICES ASSUME IInv, Cut PROVE IInv'
  OBVIOUS
<1>1. /\ line \in Seq(STRING) /\ Len(line) \in Nat /\ Len(line) >= 1 /\ line' = line
  BY Line DEF IInv, TypeOK, Cut, line
<1>2. /\ ep \in 1..(Len(line) - 1) /\ \A o \in (ep + 1)..(Len(line) - 1) : line[o] # ">"
      /\ line[ep] = ">"
      /\ fp \in 0..(ep - 1) /\ \A o \in (fp + 2)..ep : line[o] # "<"
      /\ line[fp + 1] = "<"
  BY DEF IInv, Scans, Cut
<1> DEFINE whole == SubSeq(line, fp + 1, ep)
           n == CutAt - fp
<1>3. CutAt \in (fp + 2)..ep /\ n \in 2..MAX_GN /\ n = (IF ep - fp >= MAX_GN THEN MAX_GN ELSE ep - fp)
  <2>1. ep >= fp + 2
    <3>1. fp + 1 # ep
      BY <1>2
    <3> QED
      BY <1>2, <3>1
  <2> QED
    BY <1>2, <2>1, MaxGnAssumption DEF CutAt
<1>4. SnarfGraph(line) = Truncate(whole)
  <2>1. /\ fp + 1 \in 1..ep /\ line[fp + 1] = "<"
        /\ \A o \in (fp + 1 + 1)..ep : line[o] # "<"
    BY <1>2
  <2> QED
    BY <1>1, <1>2, <2>1, SnarfIs
<1>5. /\ whole \in Seq(STRING) /\ Len(whole) = ep - fp
      /\ \A o \in 1..(ep - fp) : whole[o] = line[fp + o]
  <2>1. fp \in 0..Len(line) /\ ep \in fp..Len(line)
    BY <1>1, <1>2
  <2> QED
    BY <1>1, <2>1, PartBehind
<1>6. /\ g' = SubSeq(line, fp + 1, CutAt)
      /\ g' \in Seq(STRING) /\ Len(g') = n
      /\ \A o \in 1..n : g'[o] = line[fp + o]
  <2>1. fp \in 0..Len(line) /\ CutAt \in fp..Len(line)
    BY <1>1, <1>2, <1>3
  <2>2. g' = SubSeq(line, fp + 1, CutAt)
    BY DEF Cut
  <2> QED
    BY <1>1, <2>1, <2>2, PartBehind
<1> HIDE DEF whole
<1>7. g' = Truncate(whole)
  <2>1. CASE ep - fp < MAX_GN
    <3>1. g' = whole
      <4>1. CutAt = ep
        BY <1>2, <2>1, MaxGnAssumption DEF CutAt
      <4> QED
        BY <1>6, <4>1 DEF whole
    <3> QED
      BY <1>5, <2>1, <3>1 DEF Truncate
  <2>2. CASE ~(ep - fp < MAX_GN)
    <3>1. n = MAX_GN /\ MAX_GN \in Nat /\ MAX_GN <= ep - fp /\ ep - fp \in Nat
      BY <1>2, <1>3, <2>2, MaxGnAssumption
    <3>2. 1 \in 1..(Len(whole) + 1) /\ MAX_GN \in (1 - 1)..Len(whole) /\ MAX_GN - 1 + 1 = MAX_GN
      BY <1>5, <3>1
    <3>3. /\ SubSeq(whole, 1, MAX_GN) \in Seq(STRING) /\ Len(SubSeq(whole, 1, MAX_GN)) = MAX_GN
          /\ \A o \in 1..MAX_GN : SubSeq(whole, 1, MAX_GN)[o] = whole[1 + o - 1]
      BY <1>5, <3>2, Part
    <3>4. \A o \in 1..MAX_GN : 1 + o - 1 = o /\ o \in 1..(ep - fp)
      BY <3>1
    <3>5. \A o \in 1..MAX_GN : SubSeq(whole, 1, MAX_GN)[o] = g'[o]
      BY <1>5, <1>6, <3>1, <3>3, <3>4
    <3>6. g' = SubSeq(whole, 1, MAX_GN)
      BY <1>6, <3>1, <3>3, <3>5, SeqEqual
    <3> QED
      BY <1>5, <2>2, <3>6 DEF Truncate
  <2> QED
    BY <2>1, <2>2
<1>8. pc' = "copy" /\ ep' = CutAt /\ UNCHANGED <<quad, fp, i, j, tgt>> /\ i = 0 /\ j = 0
  BY DEF IInv, TypeOK, Cut, Behind
<1>9. TypeOK'
  BY <1>1, <1>2, <1>3, <1>8 DEF IInv, TypeOK, Behind
<1>10. Scans'
  BY <1>1, <1>3, <1>4, <1>6, <1>7, <1>8 DEF Scans, Behind
<1>11. Copies'
  <2>1. BytesBehindColon(g')
    BY <1>4, <1>7, SchemeAssumption DEF IInv, TypeOK, line
  <2>2. From' \in 1..(Len(g') - 1)
    BY <1>3, <1>6, <2>1, SpanOf DEF From
  <2>3. Span' \in Nat
    <3>1. Span' = Len(g') - 1 - From'
      BY DEF Span
    <3>2. Len(g') \in Nat
      BY <1>3, <1>6
    <3> QED
      BY <2>2, <3>1, <3>2
  <2> QED
    BY <1>8, <2>3 DEF Copies, Blanks
<1> QED
  BY <1>9, <1>10, <1>11 DEF IInv

LEMMA AtCopy == IInv /\ Copy => IInv'
<1> SUFFICES ASSUME IInv, Copy PROVE IInv'
  OBVIOUS
<1> DEFINE c == Byte(i + 1)
<1>1. /\ pc = "copy" /\ i < Span /\ i' = i + 1 /\ UNCHANGED <<quad, pc, ep, fp, g>>
      /\ tgt' = [tgt EXCEPT ![j] = c] /\ j' = IF j > 0 \/ c # Underscore THEN j + 1 ELSE j
  <2>1. c = Mapped(g[From + i + 1])
    <3>1. From \in Nat /\ i \in Nat
      BY Spans DEF IInv, TypeOK, Copy, Behind
    <3>2. From + (i + 1) = From + i + 1
      BY <3>1
    <3> QED
      BY <3>2 DEF Byte
  <2> HIDE DEF c
  <2> QED
    BY <2>1 DEF Copy, Advance, Underscore
<1>2. Span \in 0..(MAX_GN - 2) /\ MAX_GN \in Nat /\ Span' = Span /\ line' = line
  BY <1>1, Spans, MaxGnAssumption DEF IInv, Behind, Span, From, line
<1>3. i \in Nat /\ j \in Nat
  BY DEF IInv, TypeOK
<1>4. i + 1 \in 1..Span
  BY <1>1, <1>2, <1>3
<1>5. c \in Char /\ tgt \in [0..(MAX_GN - 1) -> Char]
  <2>1. pc \in Behind
    BY <1>1 DEF Behind
  <2> QED
    BY <1>4, <2>1, Bytes DEF IInv, TypeOK
<1> HIDE DEF c
<1>6. c = Byte(i + 1) /\ \A x : Byte(x)' = Byte(x)
  BY <1>1 DEF Byte, From, c
<1>7. j \in 0..i
  <2>1. CASE Blanks
    BY <1>3, <2>1 DEF Blanks
  <2>2. CASE \E f \in 1..i : Run(f)
    <3>1. PICK f \in 1..i : Run(f)
      BY <2>2
    <3>2. j \in 1..(i - f + 1)
      BY <3>1 DEF Run
    <3> QED
      BY <1>3, <3>1, <3>2
  <2> QED
    BY <1>1, <2>1, <2>2 DEF IInv, Copies, Behind
<1>8. /\ tgt' \in [0..(MAX_GN - 1) -> Char] /\ tgt'[j] = c
      /\ \A o \in 0..(MAX_GN - 1) : o # j => tgt'[o] = tgt[o]
  <2>1. j \in 0..(MAX_GN - 1)
    BY <1>2, <1>3, <1>4, <1>7
  <2> HIDE DEF c
  <2> QED
    BY <1>1, <1>5, <2>1
<1>9. TypeOK'
  <2>1. i' \in Nat /\ j' \in Nat /\ pc' \in Behind
    BY <1>1, <1>3 DEF Behind, c
  <2> QED
    BY <1>1, <1>2, <1>8, <2>1 DEF IInv, TypeOK
<1>10. Scans'
  BY <1>1, <1>2 DEF IInv, Scans, Behind
<1>11. (Blanks \/ \E f \in 1..i : Run(f))'
  <2>1. CASE Blanks /\ c = Underscore
    <3>1. j' = 0 /\ \A x \in 1..(i + 1) : Byte(x) = Underscore
      <4>1. j = 0 /\ ~(j > 0 \/ c # Underscore) /\ \A x \in 1..i : Byte(x) = Underscore
        BY <1>3, <2>1 DEF Blanks
      <4>2. j' = 0
        BY <1>1, <4>1
      <4>3. \A x \in 1..(i + 1) : x = i + 1 \/ x \in 1..i
        BY <1>3
      <4> QED
        BY <1>6, <2>1, <4>1, <4>2, <4>3
    <3> QED
      BY <1>1, <1>6, <3>1 DEF Blanks
  <2>2. CASE Blanks /\ c # Underscore
    <3>1. j = 0 /\ j' = 1 /\ \A x \in 1..i : Byte(x) = Underscore
      BY <1>1, <2>2 DEF Blanks
    <3>2. PICK f \in 1..(i + 1) : f = i + 1
      BY <1>3
    <3>3. Run(f)'
      <4>1. Byte(f) # Underscore /\ tgt'[0] = Byte(f)
        BY <1>6, <1>8, <2>2, <3>1, <3>2
      <4>2. \A x \in 1..(f - 1) : Byte(x) = Underscore
        <5>1. \A x \in 1..(f - 1) : x \in 1..i
          BY <1>3, <3>2
        <5> QED
          BY <3>1, <5>1
      <4>3. \A o \in 0..(1 - 1) : tgt'[o] = Byte(f + o)
        <5>1. \A o \in 0..(1 - 1) : o = 0
          OBVIOUS
        <5>2. f + 0 = f
          BY <1>3, <3>2
        <5> QED
          BY <4>1, <5>1, <5>2
      <4>4. \A x \in (f + 1)..(i + 1) : Byte(x) = Underscore
        BY <1>3, <3>2
      <4>5. 1 \in 1..(i + 1 - f + 1) /\ 1 = i + 1 - f + 1
        BY <1>3, <3>2
      <4>6. i' = i + 1 /\ j' = 1 /\ pc' # "done"
        BY <1>1, <3>1
      <4>7. \A x : Byte(x)' = Byte(x)
        BY <1>6
      <4> QED
        <5>1. \A o \in 0..(j' - 1) : tgt'[o] = Byte(f + o)
          BY <4>3, <4>6
        <5>2. \A x \in (f + j')..i' : Byte(x) = Underscore
          BY <4>4, <4>6
        <5>3. j' \in 1..(i' - f + 1) /\ j' = i' - f + 1
          BY <1>3, <3>2, <4>5, <4>6
        <5> QED
          BY <4>1, <4>2, <4>6, <4>7, <5>1, <5>2, <5>3 DEF Run
    <3> QED
      BY <1>1, <3>3
  <2>3. CASE \E f \in 1..i : Run(f)
    <3>1. PICK f \in 1..i : Run(f)
      BY <2>3
    <3>2. /\ Byte(f) # Underscore /\ \A x \in 1..(f - 1) : Byte(x) = Underscore
          /\ j \in 1..(i - f + 1) /\ \A o \in 0..(j - 1) : tgt[o] = Byte(f + o)
          /\ j = i - f + 1
      BY <1>1, <3>1 DEF Run
    <3>3. j' = j + 1 /\ f + j = i + 1
      <4>1. j \in 1..(i - f + 1) /\ j = i - f + 1
        BY <3>2
      <4>2. j' = IF j > 0 \/ c # Underscore THEN j + 1 ELSE j
        BY <1>1
      <4> QED
        BY <1>3, <3>1, <4>1, <4>2
    <3>4. \A o \in 0..j : tgt'[o] = Byte(f + o)
      <4>1. tgt'[j] = Byte(f + j)
        BY <1>6, <1>8, <3>3
      <4>2. \A o \in 0..(j - 1) : o \in 0..(MAX_GN - 1) /\ o # j
        BY <1>2, <1>3, <1>4, <1>7
      <4>3. \A o \in 0..(j - 1) : tgt'[o] = Byte(f + o)
        BY <1>8, <3>2, <4>2
      <4>4. \A o \in 0..j : o = j \/ o \in 0..(j - 1)
        BY <1>3
      <4> QED
        BY <4>1, <4>3, <4>4
    <3>5. Run(f)'
      <4>1. j + 1 \in 1..(i + 1 - f + 1) /\ j + 1 - 1 = j /\ j + 1 = i + 1 - f + 1
        BY <1>3, <3>2
      <4>2. \A x \in (f + (j + 1))..(i + 1) : Byte(x) = Underscore
        BY <1>3, <3>3
      <4>3. pc' # "done"
        BY <1>1
      <4> QED
        BY <1>1, <1>6, <3>2, <3>3, <3>4, <4>1, <4>2, <4>3 DEF Run
    <3> QED
      BY <1>1, <1>3, <3>5
  <2> QED
    BY <1>1, <2>1, <2>2, <2>3 DEF IInv, Copies, Behind
<1>12. Copies'
  BY <1>1, <1>2, <1>3, <1>11 DEF Copies
<1> QED
  BY <1>9, <1>10, <1>12 DEF IInv

LEMMA AtCopyEnds == IInv /\ CopyEnds => IInv'
<1> SUFFICES ASSUME IInv, CopyEnds PROVE IInv'
  OBVIOUS
<1>1. /\ pc = "copy" /\ pc' = "trim" /\ i >= Span
      /\ UNCHANGED <<quad, line, ep, fp, g, i, j, tgt, From, Span>>
  BY DEF CopyEnds, line, From, Span
<1>2. TypeOK'
  BY <1>1 DEF IInv, TypeOK, Behind
<1>3. Scans'
  BY <1>1 DEF IInv, Scans, Behind
<1>4. \A x : Byte(x)' = Byte(x)
  BY <1>1 DEF Byte
<1>5. (Blanks \/ \E f \in 1..i : Run(f))'
  <2>1. CASE Blanks
    BY <1>1, <1>4, <2>1 DEF Blanks
  <2>2. CASE \E f \in 1..i : Run(f)
    <3>1. PICK f \in 1..i : Run(f)
      BY <2>2
    <3>2. Run(f)'
      BY <1>1, <1>4, <3>1 DEF Run
    <3> QED
      BY <1>1, <3>2
  <2> QED
    BY <1>1, <2>1, <2>2 DEF IInv, Copies, Behind
<1>6. i \in 0..Span /\ i = Span
  <2>1. i \in 0..Span /\ Span \in Nat
    BY <1>1, Spans DEF IInv, Copies, Behind
  <2> QED
    BY <1>1, <2>1
<1>7. Copies'
  BY <1>1, <1>5, <1>6 DEF Copies
<1> QED
  BY <1>2, <1>3, <1>7 DEF IInv

LEMMA AtTrim == IInv /\ Trim => IInv'
<1> SUFFICES ASSUME IInv, Trim PROVE IInv'
  OBVIOUS
<1>1. /\ pc = "trim" /\ UNCHANGED <<quad, line, ep, fp, g, i, tgt, From, Span>>
      /\ pc' \in {"trim", "done"}
  BY DEF Trim, line, From, Span
<1>2. i \in Nat /\ j \in Nat
  BY <1>1 DEF IInv, TypeOK
<1>3. j' \in Nat /\ (pc' = "done" => j' = j /\ ~(j > 0 /\ tgt[j - 1] = Underscore))
                 /\ (pc' = "trim" => j > 0 /\ tgt[j - 1] = Underscore /\ j' = j - 1)
  <2>1. CASE j > 0 /\ tgt[j - 1] = Underscore
    <3>1. j' = j - 1 /\ pc' = pc
      BY <2>1 DEF Trim, Underscore
    <3>2. j - 1 \in Nat /\ j > 0
      BY <1>2, <2>1
    <3> QED
      BY <1>1, <2>1, <3>1, <3>2
  <2>2. CASE ~(j > 0 /\ tgt[j - 1] = Underscore)
    BY <1>2, <2>2 DEF Trim, Underscore
  <2> QED
    BY <2>1, <2>2
<1>4. TypeOK'
  BY <1>1, <1>3 DEF IInv, TypeOK, Behind
<1>5. Scans'
  BY <1>1 DEF IInv, Scans, Behind
<1>6. \A x : Byte(x)' = Byte(x)
  BY <1>1 DEF Byte
<1>7. (Blanks \/ \E f \in 1..i : Run(f))'
  <2>1. CASE Blanks
    <3>1. j' = 0
      <4>1. j = 0
        BY <2>1 DEF Blanks
      <4> QED
        BY <1>1, <1>3, <4>1
    <3> QED
      BY <1>1, <1>6, <2>1, <3>1 DEF Blanks
  <2>2. CASE \E f \in 1..i : Run(f)
    <3>1. PICK f \in 1..i : Run(f)
      BY <2>2
    <3>2. /\ Byte(f) # Underscore /\ \A x \in 1..(f - 1) : Byte(x) = Underscore
          /\ j \in 1..(i - f + 1) /\ \A o \in 0..(j - 1) : tgt[o] = Byte(f + o)
          /\ \A x \in (f + j)..i : Byte(x) = Underscore
      BY <3>1 DEF Run
    <3>3. CASE pc' = "done"
      <4>1. j' = j /\ tgt'[j - 1] # Underscore
        <5>1. j > 0
          BY <1>2, <3>2
        <5> QED
          BY <1>1, <1>3, <3>3, <5>1
      <4>2. Run(f)'
        BY <1>1, <1>6, <3>2, <3>3, <4>1 DEF Run
      <4> QED
        BY <1>1, <4>2
    <3>4. CASE pc' = "trim"
      <4>1. j' = j - 1 /\ tgt[j - 1] = Underscore /\ tgt[j - 1] = Byte(f + (j - 1))
        <5>1. j - 1 \in 0..(j - 1)
          BY <1>2, <1>3, <3>4
        <5> QED
          BY <1>3, <3>2, <3>4, <5>1
      <4>2. j # 1
        <5>1. f + (1 - 1) = f
          BY <3>1
        <5> QED
          BY <3>2, <4>1, <5>1
      <4>3. j - 1 \in 1..(i - f + 1) /\ \A o \in 0..(j - 1 - 1) : o \in 0..(j - 1)
        <5>1. j \in 1..(i - f + 1)
          BY <3>2
        <5> QED
          BY <1>2, <3>1, <4>2, <5>1
      <4>4. \A x \in (f + (j - 1))..i : x = f + (j - 1) \/ x \in (f + j)..i
        BY <1>2, <3>1
      <4>5. \A x \in (f + (j - 1))..i : Byte(x) = Underscore
        BY <3>2, <4>1, <4>4
      <4>6. Run(f)'
        BY <1>1, <1>6, <3>2, <3>4, <4>1, <4>3, <4>5 DEF Run
      <4> QED
        BY <1>1, <4>6
    <3> QED
      BY <1>1, <3>3, <3>4
  <2> QED
    BY <1>1, <2>1, <2>2 DEF IInv, Copies, Behind
<1>8. Copies'
  BY <1>1, <1>7 DEF IInv, Copies, Behind
<1> QED
  BY <1>4, <1>5, <1>8 DEF IInv

(* The invariant holds at any time.                                        *)
LEMMA Invariance == Spec => []IInv
<1>1. IInv /\ UNCHANGED vars => IInv'
  BY DEF vars, IInv, TypeOK, Scans, Copies, Blanks, Run, Byte, From, Span, line
<1>2. IInv /\ [Next]_vars => IInv'
  BY <1>1, AtBackToEnd, AtBackToStart, AtNothingFound, AtCut, AtCopy, AtCopyEnds, AtTrim DEF Next, Stop
<1> QED
  BY AtInit, <1>2, PTL DEF Spec

-----------------------------------------------------------------------------
(* Going backwards the scans never leave the line, and what they find is   *)
(* the last <...> of it, for every line and every length of a row.         *)
THEOREM ScansAgree == Spec => []ScanAgrees
<1>1. IInv => ScanAgrees
  <2> SUFFICES ASSUME IInv PROVE ScanAgrees
    OBVIOUS
  <2>1. ep \in 0..Len(line) /\ fp \in -1..Len(line)
    BY DEF IInv, TypeOK
  <2>2. ASSUME pc \in Behind PROVE g = SnarfGraph(line) /\ g # <<>>
    <3>1. Len(g) # 0 /\ g = SnarfGraph(line)
      BY <2>2, Spans, MaxGnAssumption DEF IInv, Scans
    <3> QED
      BY <3>1, EmptySeq
  <2>3. ASSUME pc = "none" PROVE SnarfGraph(line) = <<>>
    <3>1. line \in Seq(STRING) /\ Len(line) \in Nat /\ Len(line) # 0
      BY Line DEF IInv, TypeOK
    <3>2. /\ ep \in 0..(Len(line) - 1) /\ \A o \in (ep + 1)..(Len(line) - 1) : line[o] # ">"
          /\ ep > 0 => line[ep] = ">"
          /\ fp \in -1..(ep - 1) /\ \A o \in (fp + 2)..ep : line[o] # "<"
          /\ fp < 0 \/ ep <= 0
      BY <2>3 DEF IInv, Scans
    <3>3. ep # 0 => line[ep] = ">" /\ \A o \in 1..ep : line[o] # "<"
      <4>1. ep # 0 => fp = -1 /\ ep > 0
        BY <3>1, <3>2
      <4> QED
        BY <3>1, <3>2, <4>1
    <3> QED
      BY <3>1, <3>2, <3>3, SnarfNone
  <2> QED
    BY <2>1, <2>2, <2>3 DEF ScanAgrees, Behind
<1> QED
  BY Invariance, <1>1, PTL

(* mtrcpy never keeps more bytes than it has read, and what is left in the *)
(* end is the name without scheme, brackets and underscores around it.     *)
THEOREM NamesAgree == Spec => []NameAgrees
<1>1. IInv => NameAgrees
  <2> SUFFICES ASSUME IInv PROVE NameAgrees
    OBVIOUS
  <2>1. i \in Nat /\ j \in Nat /\ MAX_GN \in Nat
    BY MaxGnAssumption DEF IInv, TypeOK
  <2>2. ASSUME pc \in Behind PROVE Span \in 0..(MAX_GN - 2) /\ i \in 0..Span
    BY <2>2, Spans DEF IInv, Copies
  <2>3. ASSUME NEW f \in 1..i, Run(f) PROVE j \in 1..(i - f + 1) /\ j <= i
    <3>1. j \in 1..(i - f + 1)
      BY <2>3 DEF Run
    <3> QED
      BY <2>1, <3>1
  <2>4. j <= i /\ i <= MAX_GN
    <3>1. CASE pc \notin Behind
      BY <2>1, <3>1 DEF IInv, TypeOK
    <3>2. CASE pc \in Behind
      <4>1. i <= MAX_GN
        BY <2>1, <2>2, <3>2
      <4>2. CASE Blanks
        BY <2>1, <4>1, <4>2 DEF Blanks
      <4>3. CASE \E f \in 1..i : Run(f)
        BY <2>3, <4>1, <4>3
      <4> QED
        BY <3>2, <4>2, <4>3 DEF IInv, Copies
    <3> QED
      BY <3>1, <3>2
  <2>5. ASSUME pc = "done" PROVE Kept = Mkfn(g)
    <3> DEFINE src == SubSeq(g, From + 1, Len(g) - 1)
    <3>1. /\ From \in 1..(Len(g) - 1) /\ Span \in Nat /\ i = Span
          /\ Len(g) \in Nat /\ g \in Seq(STRING)
      BY <2>1, <2>2, <2>5, Spans DEF IInv, Copies, Behind
    <3>2. src \in Seq(STRING) /\ Len(src) = Span /\ \A o \in 1..Span : src[o] = g[From + o]
      <4>1. From \in 0..Len(g) /\ Len(g) - 1 \in From..Len(g)
        BY <3>1
      <4> QED
        BY <3>1, <4>1, PartBehind DEF Span
    <3>3. Mkfn(g) = Mtrcpy(src)
      <4>1. From + 1 = IF Occurs(g, ":") THEN FirstAmong(g, {":"}) + 1 ELSE 2
        BY DEF From
      <4> QED
        BY <4>1, Zenon DEF Mkfn
    <3> HIDE DEF src
    <3>4. \A x \in 1..Span : Byte(x) = Mapped(src[x])
      BY <3>2 DEF Byte
    <3>5. CASE Blanks
      <4>1. \A x \in 1..Len(src) : Mapped(src[x]) = Underscore
        BY <3>1, <3>2, <3>4, <3>5 DEF Blanks
      <4>2. Mtrcpy(src) = <<>>
        BY <4>1, MtrcpyNothing
      <4>3. Kept = <<>>
        <5>1. 1..j = {}
          BY <3>5 DEF Blanks
        <5> QED
          BY <5>1 DEF Kept
      <4> QED
        BY <3>3, <4>2, <4>3
    <3>6. CASE \E f \in 1..i : Run(f)
      <4>1. PICK f \in 1..i : Run(f)
        BY <3>6
      <4>2. /\ Byte(f) # Underscore /\ \A x \in 1..(f - 1) : Byte(x) = Underscore
            /\ j \in 1..(i - f + 1) /\ \A o \in 0..(j - 1) : tgt[o] = Byte(f + o)
            /\ \A x \in (f + j)..i : Byte(x) = Underscore
            /\ tgt[j - 1] # Underscore
        BY <2>5, <4>1 DEF Run
      <4>3. /\ f \in 1..Len(src) /\ j \in 1..(Len(src) - f + 1) /\ Len(src) \in Nat
            /\ f \in 1..Span /\ f + j - 1 \in 1..Span /\ j - 1 \in 0..(j - 1)
            /\ f + (j - 1) = f + j - 1
        BY <2>1, <2>3, <3>1, <3>2, <4>1
      <4>4. \A o \in 1..j : o - 1 \in 0..(j - 1) /\ f + (o - 1) = f + o - 1 /\ f + o - 1 \in 1..Span
        BY <2>1, <3>1, <3>2, <4>3
      <4>5. Byte(f + j - 1) # Underscore
        BY <4>2, <4>3
      <4>6. Mapped(src[f]) # Underscore /\ Mapped(src[f + j - 1]) # Underscore
        BY <3>4, <4>2, <4>3, <4>5
      <4>7. \A x \in 1..(f - 1) : Mapped(src[x]) = Underscore
        <5>1. \A x \in 1..(f - 1) : x \in 1..Span
          BY <3>1, <4>3
        <5> QED
          BY <3>4, <4>2, <5>1
      <4>8. \A x \in (f + j)..Len(src) : Mapped(src[x]) = Underscore
        <5>1. \A x \in (f + j)..Len(src) : x \in 1..Span /\ x \in (f + j)..i
          BY <2>1, <3>1, <3>2, <4>3
        <5> QED
          BY <3>4, <4>2, <5>1
      <4>9. Mtrcpy(src) = [o \in 1..j |-> Mapped(src[f + o - 1])]
        BY <4>3, <4>6, <4>7, <4>8, MtrcpyIs
      <4>10. \A o \in 1..j : tgt[o - 1] = Mapped(src[f + o - 1])
        BY <3>4, <4>2, <4>4
      <4> QED
        BY <3>3, <4>9, <4>10 DEF Kept
    <3> QED
      BY <2>5, <3>5, <3>6 DEF IInv, Copies, Behind
  <2> QED
    BY <2>4, <2>5 DEF NameAgrees
<1> QED
  BY Invariance, <1>1, PTL

(* Whatever a line says, the name of its file has no slash in it and no    *)
(* underscore at either end: no line leads into another directory.         *)
THEOREM NamesArePlain == Spec => []NameIsPlain
<1>1. IInv => NameIsPlain
  <2> SUFFICES ASSUME IInv, pc = "done"
               PROVE  /\ \A o \in 1..j : Kept[o] # "/"
                      /\ j > 0 => Kept[1] # "_" /\ Kept[j] # "_"
    BY DEF NameIsPlain
  <2>1. i \in Nat /\ j \in Nat
    BY DEF IInv, TypeOK
  <2>2. pc \in Behind /\ i = Span
    BY DEF IInv, Copies, Behind
  <2>3. CASE Blanks
    <3>1. j = 0
      BY <2>3 DEF Blanks
    <3> QED
      BY <3>1
  <2>4. CASE \E f \in 1..i : Run(f)
    <3>1. PICK f \in 1..i : Run(f)
      BY <2>4
    <3>2. /\ Byte(f) # Underscore /\ j \in 1..(i - f + 1)
          /\ \A o \in 0..(j - 1) : tgt[o] = Byte(f + o)
          /\ tgt[j - 1] # Underscore
      BY <3>1 DEF Run
    <3>3. j \in 1..(i - f + 1)
      BY <3>2
    <3>4. \A o \in 1..j : o - 1 \in 0..(j - 1) /\ f + (o - 1) \in 1..Span
      BY <2>1, <2>2, <3>1, <3>3
    <3>5. \A o \in 1..j : Kept[o] = tgt[o - 1]
      BY DEF Kept
    <3>6. 1 \in 1..j /\ j \in 1..j /\ 1 - 1 = 0 /\ f + 0 = f /\ 0 \in 0..(j - 1)
      BY <2>1, <3>1, <3>3
    <3>7. \A o \in 1..j : Kept[o] # "/"
      <4>1. TAKE o \in 1..j
      <4>2. Kept[o] = Byte(f + (o - 1)) /\ f + (o - 1) \in 1..Span
        BY <3>2, <3>4, <3>5
      <4> QED
        BY <2>2, <4>2, Bytes DEF IInv
    <3>8. Kept[1] # Underscore /\ Kept[j] # Underscore
      BY <3>2, <3>5, <3>6
    <3> QED
      BY <3>7, <3>8 DEF Underscore
  <2> QED
    BY <2>2, <2>3, <2>4 DEF IInv, Copies
<1> QED
  BY Invariance, <1>1, PTL

(* A quad whose graph label is an IRI is filed under that label cut to a   *)
(* row, whatever the rest of the line is and however long the label.       *)
THEOREM GraphsFound == Spec => []GraphFound
<1>1. IInv /\ ScanAgrees => GraphFound
  <2> DEFINE gr == quad.graph
             n == Len(gr)
  <2> SUFFICES ASSUME IInv, ScanAgrees, pc \in Behind \cup {"none"}, gr # <<>>, gr[1] = "<"
               PROVE  g = Truncate(gr)
    BY DEF GraphFound, Behind
  <2>1. quad \in Quads /\ line \in Seq(STRING) /\ Len(line) \in Nat
    BY Line DEF IInv, TypeOK
  <2>2. IsIri(gr) /\ \E k \in 0..Len(line) : StandsAt(quad, k)
    BY <2>1, QuadAssumption DEF line
  <2>3. PICK k \in 0..Len(line) : StandsAt(quad, k)
    BY <2>2
  <2>4. gr \in Seq(STRING) /\ n \in Nat
    <3>1. quad \in [text : Seq(STRING) \ {<<>>}, graph : Seq(STRING)]
      BY <2>1, QuadAssumption, Zenon
    <3> QED
      BY <3>1, LenProperties
  <2> HIDE DEF gr, n
  <2>5. /\ SubSeq(line, k + 1, k + n) = gr /\ k + n < Len(line)
        /\ \A o \in (k + n + 1)..Len(line) : line[o] # ">"
    BY <2>3 DEF StandsAt, line, gr, n
  <2>6. /\ n >= 2 /\ gr[1] = "<" /\ gr[n] = ">"
        /\ \A x \in 2..(n - 1) : gr[x] # "<"
    BY <2>2 DEF IsIri, n
  <2>7. \A o \in 1..n : gr[o] = line[k + o]
    <3> DEFINE e == k + n
    <3>1. e \in k..Len(line) /\ e - k = n
      BY <2>1, <2>4, <2>5
    <3>2. SubSeq(line, k + 1, e) = gr
      BY <2>5
    <3> HIDE DEF e
    <3> QED
      BY <2>1, <3>1, <3>2, PartBehind
  <2>8. SnarfGraph(line) = Truncate(gr)
    <3> DEFINE e == k + n
               f == k + 1
    <3>1. e \in 1..(Len(line) - 1) /\ f \in 1..e
      BY <2>1, <2>4, <2>5, <2>6
    <3>2. line[e] = ">" /\ line[f] = "<"
      BY <2>4, <2>6, <2>7
    <3>3. \A o \in (e + 1)..(Len(line) - 1) : line[o] # ">"
      BY <2>1, <2>5
    <3>4. \A o \in (f + 1)..e : line[o] # "<"
      <4>1. TAKE o \in (f + 1)..e
      <4>2. o - k \in 1..n /\ k + (o - k) = o /\ (o - k = n \/ o - k \in 2..(n - 1))
        BY <2>4, <4>1
      <4>3. gr[o - k] # "<"
        BY <2>6, <4>2
      <4> QED
        BY <2>7, <4>2, <4>3
    <3>5. SubSeq(line, f, e) = gr
      BY <2>5
    <3> HIDE DEF e, f
    <3>6. SnarfGraph(line) = Truncate(gr)
      BY <2>1, <3>1, <3>2, <3>3, <3>4, <3>5, SnarfIs
    <3> QED
      BY <3>6
  <2>9. CASE pc = "none"
    <3>1. Truncate(gr) # <<>>
      <4>1. CASE n < MAX_GN
        BY <2>4, <2>6, <4>1 DEF Truncate, n
      <4>2. CASE ~(n < MAX_GN)
        <5>1. Truncate(gr) = SubSeq(gr, 1, MAX_GN) /\ MAX_GN \in 1..n
          BY <2>4, <4>2, MaxGnAssumption DEF Truncate, n
        <5>2. \A x \in 1..n : gr[x] \in STRING
          BY <2>4, ElementOfSeq DEF n
        <5>3. Len(SubSeq(gr, 1, MAX_GN)) = MAX_GN
          BY <2>4, <5>1, <5>2, MaxGnAssumption, SubSeqProperties DEF n
        <5> QED
          BY <5>1, <5>3, MaxGnAssumption
      <4> QED
        BY <4>1, <4>2
    <3> QED
      BY <2>8, <2>9, <3>1 DEF ScanAgrees
  <2>10. CASE pc \in Behind
    BY <2>8, <2>10 DEF ScanAgrees, Behind
  <2> QED
    BY <2>9, <2>10
<1> QED
  BY Invariance, ScansAgree, <1>1, PTL

-----------------------------------------------------------------------------
(* The loops end.                                                          *)

\* The loops in the order they are run in, and the bytes the present one has
\* in front of it.
Loops == [ep |-> 5, fp |-> 4, cut |-> 3, copy |-> 2, trim |-> 1, none |-> 0, done |-> 0]
BytesLeft == CASE pc = "ep"   -> ep
            [] pc = "fp"   -> fp + 1
            [] pc = "copy" -> Span - i
            [] pc = "trim" -> j
            [] OTHER       -> 0
Shortens == Loops[pc'] < Loops[pc] \/ (pc' = pc /\ BytesLeft' < BytesLeft)

LEMMA BytesCounted == ASSUME IInv PROVE BytesLeft \in Nat
<1>1. CASE pc = "ep"
  BY <1>1, Line DEF IInv, TypeOK, BytesLeft
<1>2. CASE pc = "fp"
  BY <1>2, Line DEF IInv, TypeOK, BytesLeft
<1>3. CASE pc = "copy"
  <2>1. i \in 0..Span /\ Span \in 0..(MAX_GN - 2)
    BY <1>3, Spans DEF IInv, Copies, Behind
  <2>2. BytesLeft = Span - i
    BY <1>3 DEF BytesLeft
  <2> QED
    BY <2>1, <2>2, MaxGnAssumption
<1>4. CASE pc = "trim"
  BY <1>4 DEF IInv, TypeOK, BytesLeft
<1>5. CASE pc \in {"cut", "none", "done"}
  BY <1>5 DEF BytesLeft
<1> QED
  BY <1>1, <1>2, <1>3, <1>4, <1>5 DEF IInv, TypeOK, Behind

LEMMA LoopShortens == ASSUME IInv, Next, vars' # vars PROVE Shortens
<1>1. /\ Loops["ep"] = 5 /\ Loops["fp"] = 4 /\ Loops["cut"] = 3 /\ Loops["copy"] = 2
      /\ Loops["trim"] = 1 /\ Loops["none"] = 0 /\ Loops["done"] = 0
  BY DEF Loops
<1>2. /\ ep \in Nat /\ fp + 1 \in Nat /\ fp \in Int /\ i \in Nat /\ j \in Nat
  BY Line DEF IInv, TypeOK
<1>3. CASE BackToEnd
  <2>1. pc = "ep" /\ (pc' = "fp" \/ (pc' = "ep" /\ ep' = ep - 1))
    BY <1>3 DEF BackToEnd
  <2>2. CASE pc' = "ep"
    BY <1>2, <2>1, <2>2 DEF BytesLeft, Shortens
  <2> QED
    BY <1>1, <2>1, <2>2 DEF Shortens
<1>4. CASE BackToStart
  <2>1. pc = "fp" /\ (pc' = "cut" \/ (pc' = "fp" /\ fp' = fp - 1))
    BY <1>4 DEF BackToStart
  <2>2. CASE pc' = "fp"
    BY <1>2, <2>1, <2>2 DEF BytesLeft, Shortens
  <2> QED
    BY <1>1, <2>1, <2>2 DEF Shortens
<1>5. CASE NothingFound \/ Cut \/ CopyEnds
  <2>1. (pc = "cut" /\ pc' \in {"none", "copy"}) \/ (pc = "copy" /\ pc' = "trim")
    BY <1>5 DEF NothingFound, Cut, CopyEnds
  <2> QED
    BY <1>1, <2>1 DEF Shortens
<1>6. CASE Copy
  <2>1. pc = "copy" /\ pc' = "copy" /\ i' = i + 1 /\ Span' = Span
    BY <1>6 DEF Copy, Span, From
  <2>2. Span \in Nat
    BY <2>1, Spans, MaxGnAssumption DEF IInv, Behind
  <2>3. BytesLeft = Span - i /\ BytesLeft' = Span' - i'
    BY <2>1 DEF BytesLeft
  <2> QED
    BY <1>2, <2>1, <2>2, <2>3 DEF Shortens
<1>7. CASE Trim
  <2>1. pc = "trim" /\ (pc' = "done" \/ (pc' = "trim" /\ j' = j - 1))
    BY <1>7 DEF Trim
  <2>2. CASE pc' = "trim"
    BY <1>2, <2>1, <2>2 DEF BytesLeft, Shortens
  <2> QED
    BY <1>1, <2>1, <2>2 DEF Shortens
<1> QED
  BY <1>3, <1>4, <1>5, <1>6, <1>7 DEF Next, Stop

(* The loops end for every line: each round leaves one of the bytes fewer  *)
(* the loop has in front of it, which are never less than none, or the     *)
(* next loop is run.                                                       *)
THEOREM LoopsEnd == Spec => [](BytesLeft \in Nat) /\ [][Shortens]_vars
<1>1. IInv => BytesLeft \in Nat
  BY BytesCounted
<1>2. IInv /\ [Next]_vars => [Shortens]_vars
  BY LoopShortens
<1> QED
  BY Invariance, <1>1, <1>2, PTL DEF Spec
=============================================================================
