---------------------------- MODULE ScrapeProofs ----------------------------
(***************************************************************************)
(* What bsym-isin-scrape prints, for any ISINs, answers and chunks.  The   *)
(* facts about sequences come first (FlattenSeq and the recursive          *)
(* functions of Print1, by induction along Upwards), then what recv_cb     *)
(* finds in a chunk and print1 in an answer, then the invariant:           *)
(* Collected says what is in the buffer behind every symbol of an answer,  *)
(* Ordered what has been printed.  RoomKept is about the room in the       *)
(* buffer.  At the end are that paging ends, and when rows stand behind    *)
(* their ISIN and assert(ep >= sp) holds.                                  *)
(***************************************************************************)
EXTENDS Scrape, FiniteSetTheorems, SequenceTheorems, WellFoundedInduction, TLAPS

-----------------------------------------------------------------------------
(* Numbers.                                                                *)

LEMMA Smallest ==
  ASSUME NEW S, S \subseteq Nat, S # {}
  PROVE  \E k \in S : \A o \in S : k <= o
<1> DEFINE R == OpToRel(<, Nat)
<1>1. \E k \in S : \A o \in S : <<o, k>> \notin R
  <2> HIDE DEF R
  <2> QED
    BY NatLessThanWellFounded, WFMin DEF R
<1>2. \A k, o \in S : <<o, k>> \notin R => k <= o
  BY DEF OpToRel
<1> QED
  BY <1>1, <1>2

(* A set that holds the number behind any initial part of 0..n it holds is *)
(* all of 0..n: induction.                                                 *)
LEMMA Upwards ==
  ASSUME NEW n \in Nat, NEW S, 0 \in S, \A k \in 1..n : k - 1 \in S => k \in S
  PROVE  0..n \subseteq S
<1> DEFINE Not == {k \in 0..n : k \notin S}
<1>1. CASE Not = {}
  BY <1>1
<1>2. CASE Not # {}
  <2>1. PICK k \in Not : \A o \in Not : k <= o
    <3>1. Not \subseteq Nat
      OBVIOUS
    <3> HIDE DEF Not
    <3> QED
      BY <1>2, <3>1, Smallest
  <2>2. k # 0 /\ k \in 1..n /\ k - 1 \in 0..n
    BY <2>1
  <2>3. k - 1 \notin Not
    BY <2>1, <2>2
  <2>4. k - 1 \in S
    BY <2>2, <2>3
  <2> QED
    BY <2>1, <2>2, <2>4
<1> QED
  BY <1>1, <1>2

LEMMA Largest ==
  ASSUME NEW n \in Nat, NEW S, S \subseteq 0..n, S # {}
  PROVE  \E k \in S : \A o \in S : k >= o
<1> DEFINE M == {n - o : o \in S}
<1>1. M \subseteq Nat /\ M # {}
  <2>1. \A o \in S : o \in 0..n
    OBVIOUS
  <2>2. \A o \in S : n - o \in Nat
    BY <2>1
  <2> QED
    BY <2>2
<1>2. PICK m \in M : \A o \in M : m <= o
  <2> HIDE DEF M
  <2> QED
    BY <1>1, Smallest
<1>3. PICK k \in S : m = n - k
  BY <1>2
<1>4. \A o \in S : n - k <= n - o
  BY <1>2, <1>3
<1>5. \A o \in S : k >= o
  BY <1>4
<1> QED
  BY <1>5

LEMMA Joined ==
  ASSUME NEW T, NEW a \in Seq(T), NEW b \in Seq(T)
  PROVE  /\ a \o b \in Seq(T) /\ Len(a \o b) = Len(a) + Len(b)
         /\ \A i \in 1..Len(a) : (a \o b)[i] = a[i]
         /\ \A i \in 1..Len(b) : (a \o b)[Len(a) + i] = b[i]
<1>1. Len(a) \in Nat /\ Len(b) \in Nat
  BY LenProperties
<1>2. a \o b \in Seq(T) /\ Len(a \o b) = Len(a) + Len(b)
  BY ConcatProperties
<1>3. \A i \in 1..(Len(a) + Len(b)) : (a \o b)[i] = IF i <= Len(a) THEN a[i] ELSE b[i - Len(a)]
  BY ConcatProperties
<1>4. \A i \in 1..Len(a) : i \in 1..(Len(a) + Len(b)) /\ i <= Len(a)
  BY <1>1
<1>5. \A i \in 1..Len(b) : /\ Len(a) + i \in 1..(Len(a) + Len(b)) /\ ~(Len(a) + i <= Len(a))
                           /\ Len(a) + i - Len(a) = i
  BY <1>1
<1> QED
  BY <1>2, <1>3, <1>4, <1>5

-----------------------------------------------------------------------------
(* FlattenSeq.                                                             *)

Flattens(f, s, n) == f = [i \in 1..n |-> IF i = 1 THEN s[i] ELSE f[i - 1] \o s[i]]

LEMMA FlattenExists ==
  ASSUME NEW s, NEW n \in Nat
  PROVE  \E f : Flattens(f, s, n)
<1> DEFINE S == {k \in 0..n : \E f : Flattens(f, s, k)}
<1>1. 0 \in S
  <2>1. Flattens([i \in 1..0 |-> 0], s, 0)
    BY DEF Flattens
  <2> QED
    BY <2>1
<1>2. ASSUME NEW k \in 1..n, k - 1 \in S PROVE k \in S
  <2>1. PICK f : Flattens(f, s, k - 1)
    BY <1>2
  <2> DEFINE h == [i \in 1..k |-> IF i = 1 THEN s[i] ELSE f[i - 1] \o s[i]]
  <2>2. \A i \in 1..(k - 1) : h[i] = f[i]
    <3>1. \A i \in 1..(k - 1) : f[i] = IF i = 1 THEN s[i] ELSE f[i - 1] \o s[i]
      BY <2>1 DEF Flattens
    <3>2. \A i \in 1..(k - 1) : i \in 1..k
      BY <1>2
    <3> QED
      BY <3>1, <3>2
  <2>3. \A i \in 1..k : i # 1 => i - 1 \in 1..(k - 1)
    OBVIOUS
  <2>4. \A i \in 1..k : h[i] = IF i = 1 THEN s[i] ELSE h[i - 1] \o s[i]
    <3>1. TAKE i \in 1..k
    <3>2. h[i] = IF i = 1 THEN s[i] ELSE f[i - 1] \o s[i]
      OBVIOUS
    <3> HIDE DEF h
    <3> QED
      BY <2>2, <2>3, <3>2
  <2>5. h = [i \in 1..k |-> h[i]]
    OBVIOUS
  <2> HIDE DEF h
  <2>6. Flattens(h, s, k)
    BY <2>4, <2>5 DEF Flattens
  <2> QED
    BY <2>6
<1>3. 0..n \subseteq S
  <2> HIDE DEF S
  <2> QED
    BY <1>1, <1>2, Upwards
<1>4. n \in S
  BY <1>3
<1> QED
  BY <1>4

LEMMA FlattenIs ==
  ASSUME NEW s, Len(s) \in Nat, Len(s) # 0
  PROVE  \E f : Flattens(f, s, Len(s)) /\ Seqs!FlattenSeq(s) = f[Len(s)]
<1>1. \E f : Flattens(f, s, Len(s))
  BY FlattenExists
<1> QED
  BY <1>1 DEF Seqs!FlattenSeq, Flattens

(* Where part x of sequence number j comes to stand when off[k] is the     *)
(* length of the first k together.                                         *)
Sequences(s, n, T) == Len(s) = n /\ \A k \in 1..n : s[k] \in Seq(T)
Offsets(off, s, n) == /\ off \in [0..n -> Nat] /\ off[0] = 0
                      /\ \A k \in 1..n : off[k] = off[k - 1] + Len(s[k])
Placed(flat, off, s, n, T) ==
  /\ flat \in Seq(T) /\ Len(flat) = off[n]
  /\ \A j \in 1..n : \A x \in 1..Len(s[j]) :
       off[j - 1] + x \in 1..off[n] /\ flat[off[j - 1] + x] = s[j][x]

LEMMA FlattenAt ==
  ASSUME NEW T, NEW n \in Nat, n # 0, NEW s, Sequences(s, n, T), NEW off, Offsets(off, s, n)
  PROVE  Placed(Seqs!FlattenSeq(s), off, s, n, T)
<1>1. PICK f : Flattens(f, s, n) /\ Seqs!FlattenSeq(s) = f[n]
  BY FlattenIs DEF Sequences
<1>2. f[1] = s[1] /\ \A k \in 2..n : f[k] = f[k - 1] \o s[k]
  <2>1. \A k \in 1..n : f[k] = IF k = 1 THEN s[k] ELSE f[k - 1] \o s[k]
    BY <1>1 DEF Flattens
  <2>2. 1 \in 1..n /\ \A k \in 2..n : k \in 1..n /\ k # 1
    OBVIOUS
  <2> QED
    BY <2>1, <2>2
<1> DEFINE Good(k) == /\ f[k] \in Seq(T) /\ Len(f[k]) = off[k]
                      /\ \A j \in 1..k : \A x \in 1..Len(s[j]) :
                           /\ off[j - 1] + x \in 1..off[k]
                           /\ f[k][off[j - 1] + x] = s[j][x]
           S == {k \in 0..n : k = 0 \/ Good(k)}
<1>3. Good(1)
  <2>1. 1 \in 1..n /\ off[1] = off[1 - 1] + Len(s[1]) /\ 1 - 1 = 0 /\ off[0] = 0
    BY DEF Offsets
  <2>2. s[1] \in Seq(T) /\ Len(s[1]) \in Nat
    BY <2>1, LenProperties DEF Sequences
  <2>3. off[1] = Len(s[1])
    BY <2>1, <2>2
  <2>4. \A j \in 1..1 : j = 1
    OBVIOUS
  <2>5. \A x \in 1..Len(s[1]) : off[0] + x = x
    BY <2>1, <2>2
  <2> QED
    BY <1>2, <2>1, <2>2, <2>3, <2>4, <2>5
<1>4. ASSUME NEW k \in 2..n, Good(k - 1) PROVE Good(k)
  <2> DEFINE a == f[k - 1]
             b == s[k]
  <2>1. k \in 1..n /\ k - 1 \in 1..n /\ off[k - 1] \in Nat /\ off[k] \in Nat
    <3>1. k \in 0..n /\ k - 1 \in 0..n /\ k \in 1..n /\ k - 1 \in 1..n
      OBVIOUS
    <3> QED
      BY <3>1 DEF Offsets
  <2>2. a \in Seq(T) /\ b \in Seq(T) /\ Len(b) \in Nat /\ Len(a) = off[k - 1]
    BY <1>4, <2>1, LenProperties DEF Sequences
  <2>3. f[k] = a \o b
    BY <1>2
  <2>4. off[k] = off[k - 1] + Len(b)
    BY <2>1 DEF Offsets
  <2> HIDE DEF a, b
  <2>5. /\ a \o b \in Seq(T) /\ Len(a \o b) = off[k]
        /\ \A i \in 1..Len(a) : (a \o b)[i] = a[i]
        /\ \A i \in 1..Len(b) : (a \o b)[Len(a) + i] = b[i]
    <3>1. /\ a \o b \in Seq(T) /\ Len(a \o b) = Len(a) + Len(b)
          /\ \A i \in 1..Len(a) : (a \o b)[i] = a[i]
          /\ \A i \in 1..Len(b) : (a \o b)[Len(a) + i] = b[i]
      BY SMTT(30), <2>2, Joined
    <3>2. Len(a \o b) = off[k]
      BY <2>2, <2>4, <3>1
    <3> QED
      BY <3>1, <3>2
  <2>6. ASSUME NEW j \in 1..k, NEW x \in 1..Len(s[j])
        PROVE  off[j - 1] + x \in 1..off[k] /\ f[k][off[j - 1] + x] = s[j][x]
    <3>1. CASE j = k
      <4>1. x \in 1..Len(b)
        BY <3>1 DEF b
      <4>2. off[j - 1] = Len(a)
        BY <2>2, <3>1
      <4>3. Len(a) + x \in 1..off[k]
        <5>1. \A u, v \in Nat : u + v = off[k] /\ x \in 1..v => u + x \in 1..off[k]
          BY <2>1
        <5> QED
          BY <2>1, <2>2, <2>4, <4>1, <5>1
      <4>4. s[j][x] = b[x]
        BY <3>1 DEF b
      <4> QED
        BY <2>3, <2>5, <4>1, <4>2, <4>3, <4>4
    <3>2. CASE j # k
      <4>1. j \in 1..(k - 1)
        BY <3>2
      <4>2. off[j - 1] + x \in 1..off[k - 1] /\ a[off[j - 1] + x] = s[j][x]
        BY <1>4, <4>1 DEF a
      <4>3. off[j - 1] + x \in 1..off[k]
        <5>1. off[k - 1] <= off[k]
          BY <2>1, <2>2, <2>4
        <5>2. \A y \in 1..off[k - 1] : y \in 1..off[k]
          BY <2>1, <5>1
        <5> QED
          BY <4>2, <5>2
      <4> QED
        BY <2>2, <2>3, <2>5, <4>2, <4>3
    <3> QED
      BY <3>1, <3>2
  <2> QED
    BY <2>3, <2>5, <2>6
<1> HIDE DEF Good
<1>5. 0..n \subseteq S
  <2>1. 0 \in S
    OBVIOUS
  <2>2. ASSUME NEW k \in 1..n, k - 1 \in S PROVE k \in S
    <3>1. CASE k = 1
      BY <1>3, <3>1
    <3>2. CASE k # 1
      BY <1>4, <2>2, <3>2
    <3> QED
      BY <3>1, <3>2
  <2> HIDE DEF S
  <2> QED
    BY <2>1, <2>2, Upwards
<1>6. Good(n)
  BY <1>5
<1> QED
  BY <1>1, <1>6 DEF Good, Placed

LEMMA OffsetsExist ==
  ASSUME NEW T, NEW n \in Nat, NEW s, Sequences(s, n, T)
  PROVE  \E off : Offsets(off, s, n)
<1> DEFINE S == {k \in 0..n : \E off : Offsets(off, s, k)}
<1>1. 0 \in S
  <2>1. Offsets([k \in 0..0 |-> 0], s, 0)
    BY DEF Offsets
  <2> QED
    BY <2>1
<1>2. ASSUME NEW k \in 1..n, k - 1 \in S PROVE k \in S
  <2>1. PICK off : Offsets(off, s, k - 1)
    BY <1>2
  <2>2. Len(s[k]) \in Nat
    BY LenProperties DEF Sequences
  <2> DEFINE h == [i \in 0..k |-> IF i = k THEN off[k - 1] + Len(s[k]) ELSE off[i]]
  <2>3. /\ \A i \in 0..(k - 1) : off[i] \in Nat
        /\ off[0] = 0
        /\ \A i \in 1..(k - 1) : off[i] = off[i - 1] + Len(s[i])
    BY <2>1 DEF Offsets
  <2>4. /\ \A i \in 0..(k - 1) : h[i] = off[i]
        /\ h[k] = off[k - 1] + Len(s[k])
    OBVIOUS
  <2>5. k - 1 \in 0..(k - 1) /\ 0 \in 0..(k - 1)
    OBVIOUS
  <2>6. \A i \in 0..k : h[i] \in Nat
    <3>1. \A i \in 0..k : i = k \/ i \in 0..(k - 1)
      OBVIOUS
    <3>2. off[k - 1] + Len(s[k]) \in Nat
      BY <2>2, <2>3, <2>5
    <3> HIDE DEF h
    <3> QED
      BY <2>3, <2>4, <3>1, <3>2
  <2>7. \A i \in 1..k : h[i] = h[i - 1] + Len(s[i])
    <3>1. \A i \in 1..k : (i = k \/ i \in 1..(k - 1)) /\ i - 1 \in 0..(k - 1) /\ i \in 0..k
      OBVIOUS
    <3>2. \A i \in 1..(k - 1) : i \in 0..(k - 1)
      OBVIOUS
    <3> HIDE DEF h
    <3>3. TAKE i \in 1..k
    <3>4. CASE i = k
      BY <2>4, <2>5, <3>4
    <3>5. CASE i \in 1..(k - 1)
      BY <2>3, <2>4, <3>1, <3>2, <3>5
    <3> QED
      BY <3>1, <3>4, <3>5
  <2>8. h \in [0..k -> Nat]
    <3>1. h = [i \in 0..k |-> h[i]]
      OBVIOUS
    <3> HIDE DEF h
    <3> QED
      BY <2>6, <3>1
  <2> HIDE DEF h
  <2>9. Offsets(h, s, k)
    BY <2>3, <2>4, <2>5, <2>7, <2>8 DEF Offsets
  <2> QED
    BY <2>9
<1>3. 0..n \subseteq S
  <2> HIDE DEF S
  <2> QED
    BY <1>1, <1>2, Upwards
<1>4. n \in S
  BY <1>3
<1> QED
  BY <1>4

(* It begins with the first sequence that is not empty.                    *)
LEMMA FlattenBegins ==
  ASSUME NEW T, NEW n \in Nat, n # 0, NEW s, Sequences(s, n, T),
         NEW c \in 1..n, \A k \in 1..(c - 1) : s[k] = <<>>
  PROVE  /\ Seqs!FlattenSeq(s) \in Seq(T)
         /\ \A x \in 1..Len(s[c]) : /\ x \in 1..Len(Seqs!FlattenSeq(s))
                                    /\ Seqs!FlattenSeq(s)[x] = s[c][x]
<1>1. PICK off : Offsets(off, s, n)
  BY OffsetsExist
<1>2. /\ Seqs!FlattenSeq(s) \in Seq(T) /\ Len(Seqs!FlattenSeq(s)) = off[n]
      /\ \A j \in 1..n : \A x \in 1..Len(s[j]) :
           /\ off[j - 1] + x \in 1..off[n]
           /\ Seqs!FlattenSeq(s)[off[j - 1] + x] = s[j][x]
  <2>1. Placed(Seqs!FlattenSeq(s), off, s, n, T)
    BY <1>1, FlattenAt
  <2> QED
    BY <2>1 DEF Placed
<1>3. Len(s[c]) \in Nat
  BY LenProperties DEF Sequences
<1>4. \A x \in 1..Len(s[c]) : off[c - 1] + x = x
  <2> DEFINE Z == {k \in 0..(c - 1) : off[k] = 0}
  <2>1. 0 \in Z
    BY <1>1 DEF Offsets
  <2>2. ASSUME NEW k \in 1..(c - 1), k - 1 \in Z PROVE k \in Z
    <3>1. off[k] = off[k - 1] + Len(s[k]) /\ off[k - 1] = 0 /\ s[k] = <<>>
      BY <1>1, <2>2 DEF Offsets
    <3>2. Len(<<>>) = 0
      OBVIOUS
    <3> QED
      BY <3>1, <3>2
  <2>3. c - 1 \in Nat
    OBVIOUS
  <2>4. 0..(c - 1) \subseteq Z
    <3> HIDE DEF Z
    <3> QED
      BY <2>1, <2>2, <2>3, Upwards
  <2>5. off[c - 1] = 0
    BY <2>3, <2>4
  <2> QED
    BY <1>3, <2>5
<1> QED
  BY <1>2, <1>3, <1>4

-----------------------------------------------------------------------------
(* The symbols, and the answers made of them.                              *)

Isins == {Sids[c] : c \in 1..Len(Sids)}
Plain == {Bo1, Bo2, Eo1, Eo2, Noise, Comma}
Sym == Plain \cup {Open(t) : t \in Isins} \cup {Close(t) : t \in Isins}
             \cup {Row(r) : r \in Isins \X Nat} \cup {Half(r) : r \in Isins \X Nat}

Beacons == {Bo1, Bo2, Eo1, Eo2}

LEMMA PlainOnes ==
  /\ Bo1 # Bo2 /\ Bo1 # Eo1 /\ Bo1 # Eo2 /\ Bo2 # Eo1 /\ Bo2 # Eo2 /\ Eo1 # Eo2
  /\ Noise \notin Beacons /\ Comma \notin Beacons
  /\ \A s \in Plain : ~HasBrace(s) /\ ~EndsInBrace(s)
<1>1. Bo1[1] = "bo1" /\ Bo2[1] = "bo2" /\ Eo1[1] = "eo1" /\ Eo2[1] = "eo2" /\ Noise[1] = "noise"
      /\ Comma[1] = "comma"
  BY DEF Bo1, Bo2, Eo1, Eo2, Noise, Comma
<1>2. \A s \in Plain : s[1] \in {"bo1", "bo2", "eo1", "eo2", "noise", "comma"}
  BY <1>1 DEF Plain
<1> QED
  BY <1>1, <1>2 DEF HasBrace, EndsInBrace, Beacons

LEMMA Braced ==
  ASSUME NEW t
  PROVE  /\ Open(t) \notin Beacons /\ HasBrace(Open(t)) /\ ~EndsInBrace(Open(t))
         /\ Row(t) \notin Beacons /\ HasBrace(Row(t)) /\ EndsInBrace(Row(t))
         /\ Close(t) \notin Beacons /\ ~HasBrace(Close(t)) /\ EndsInBrace(Close(t))
<1>1. \A s \in Beacons : s[1] \in {"bo1", "bo2", "eo1", "eo2"}
  BY DEF Bo1, Bo2, Eo1, Eo2, Beacons
<1>2. Open(t)[1] = "open" /\ Row(t)[1] = "row" /\ Close(t)[1] = "close"
  BY DEF Open, Row, Close
<1> QED
  BY <1>1, <1>2 DEF HasBrace, EndsInBrace

\* How many rows the service sends.
Held(t, k) == IF Upto(t, k) > k THEN Upto(t, k) - k ELSE 0

LEMMA HeldIs ==
  ASSUME NEW t \in Isins, NEW k \in Nat
  PROVE  Held(t, k) \in Nat /\ Total[t] \in Nat /\ Upto(t, k) \in Nat
         /\ (k <= Total[t] => Upto(t, k) = k + Held(t, k))
<1>1. Total[t] \in Nat /\ LIMIT \in Nat
  BY SidAssumption, PageAssumption DEF Isins
<1>2. Upto(t, k) \in Nat
  BY <1>1 DEF Upto
<1>3. k <= Total[t] => Upto(t, k) >= k
  BY <1>1 DEF Upto
<1> QED
  BY <1>1, <1>2, <1>3 DEF Held

\* The answer with n rows of t behind number k.
Shape(A, t, k, n) ==
  /\ A \in Seq(Sym) /\ Len(A) = n + 9
  /\ A[1] = Bo1 /\ A[2] = Bo2 /\ A[3] = Noise /\ A[4] = Comma /\ A[5] = Open(t)
  /\ \A j \in 1..n : A[5 + j] = Row(<<t, k + j>>)
  /\ A[n + 6] = Close(t) /\ A[n + 7] = Eo1 /\ A[n + 8] = Eo2 /\ A[n + 9] = Noise

LEMMA RowsOfAnswer ==
  ASSUME NEW t \in Isins, NEW k \in Nat, NEW n \in Nat, Tricky = {}
  PROVE  LET mid == Seqs!FlattenSeq([j \in 1..n |-> Symbols(<<t, k + j>>)])
         IN  mid \in Seq(Sym) /\ Len(mid) = n /\ \A j \in 1..n : mid[j] = Row(<<t, k + j>>)
<1> DEFINE s == [j \in 1..n |-> Symbols(<<t, k + j>>)]
           mid == Seqs!FlattenSeq(s)
<1>1. \A j \in 1..n : s[j] = <<Row(<<t, k + j>>)>> /\ Row(<<t, k + j>>) \in Sym
  BY DEF Symbols, Sym
<1>2. Sequences(s, n, Sym)
  <2>1. Len(s) = n
    OBVIOUS
  <2>2. \A j \in 1..n : <<Row(<<t, k + j>>)>> \in Seq(Sym)
    BY <1>1
  <2> HIDE DEF s
  <2> QED
    BY <1>1, <2>1, <2>2 DEF Sequences
<1> HIDE DEF s
<1>3. CASE n = 0
  <2>1. mid = s /\ s = <<>>
    <3>1. Len(s) = 0
      BY <1>2, <1>3 DEF Sequences
    <3>2. s = <<>>
      BY <1>3 DEF s
    <3> QED
      BY <3>1, <3>2 DEF Seqs!FlattenSeq
  <2>2. mid \in Seq(Sym) /\ Len(mid) = n /\ \A j \in 1..n : mid[j] = Row(<<t, k + j>>)
    <3>1. <<>> \in Seq(Sym) /\ Len(<<>>) = 0 /\ 1..n = {}
      BY <1>3, EmptySeq
    <3> HIDE DEF mid
    <3> QED
      BY <1>3, <2>1, <3>1
  <2> QED
    BY <2>2 DEF s
<1>4. CASE n # 0
  <2> DEFINE off == [j \in 0..n |-> j]
  <2>1. \A j \in 1..n : Len(s[j]) = 1 /\ s[j][1] = Row(<<t, k + j>>) /\ 1 \in 1..Len(s[j])
    <3>1. \A x : Len(<<x>>) = 1 /\ <<x>>[1] = x /\ 1 \in 1..1
      OBVIOUS
    <3> QED
      BY <1>1, <3>1
  <2>2. Offsets(off, s, n)
    <3>1. \A j \in 1..n : Len(s[j]) = 1
      BY <2>1
    <3>2. off \in [0..n -> Nat] /\ off[0] = 0 /\ \A j \in 1..n : off[j] = off[j - 1] + 1
      OBVIOUS
    <3> HIDE DEF off
    <3> QED
      BY <3>1, <3>2 DEF Offsets
  <2>3. off[n] = n /\ \A j \in 1..n : off[j - 1] + 1 = j
    OBVIOUS
  <2> HIDE DEF off
  <2>4. Placed(mid, off, s, n, Sym)
    BY <1>2, <1>4, <2>2, FlattenAt
  <2> HIDE DEF mid
  <2>5. \A j \in 1..n : mid[j] = Row(<<t, k + j>>)
    BY <2>1, <2>3, <2>4 DEF Placed
  <2> QED
    BY <2>3, <2>4, <2>5 DEF Placed, mid, s
<1> QED
  BY <1>3, <1>4

LEMMA AnswerIs ==
  ASSUME NEW t \in Isins, NEW k \in Nat, Tricky = {}
  PROVE  Shape(Answer(t, k), t, k, Held(t, k))
<1> DEFINE n == Held(t, k)
           head == <<Bo1, Bo2, Noise, Comma, Open(t)>>
           mid == Seqs!FlattenSeq([j \in 1..n |-> Symbols(<<t, k + j>>)])
           tail == <<Close(t), Eo1, Eo2, Noise>>
<1>0. n \in Nat
  BY HeldIs
<1>1. Answer(t, k) = head \o mid \o tail
  <2>1. 1..(Upto(t, k) - k) = 1..n
    BY HeldIs DEF Held
  <2> HIDE DEF n
  <2> QED
    BY <2>1, Zenon DEF Answer
<1> HIDE DEF n
<1>2. mid \in Seq(Sym) /\ Len(mid) = n /\ \A j \in 1..n : mid[j] = Row(<<t, k + j>>)
  BY <1>0, RowsOfAnswer
<1> HIDE DEF mid
<1>3. /\ head \in Seq(Sym) /\ Len(head) = 5
      /\ head[1] = Bo1 /\ head[2] = Bo2 /\ head[3] = Noise /\ head[4] = Comma /\ head[5] = Open(t)
  <2>1. {Bo1, Bo2, Noise, Comma, Open(t)} \subseteq Sym
    BY DEF Sym, Plain
  <2> QED
    BY <2>1
<1>4. /\ tail \in Seq(Sym) /\ Len(tail) = 4
      /\ tail[1] = Close(t) /\ tail[2] = Eo1 /\ tail[3] = Eo2 /\ tail[4] = Noise
  <2>1. {Eo1, Eo2, Noise, Close(t)} \subseteq Sym
    BY DEF Sym, Plain
  <2> QED
    BY <2>1
<1> HIDE DEF head, tail
<1> DEFINE front == head \o mid
<1>5. /\ front \in Seq(Sym) /\ Len(front) = n + 5
      /\ \A i \in 1..5 : front[i] = head[i]
      /\ \A i \in 1..n : front[5 + i] = mid[i]
  <2>1. /\ head \o mid \in Seq(Sym) /\ Len(head \o mid) = Len(head) + Len(mid)
        /\ \A i \in 1..Len(head) : (head \o mid)[i] = head[i]
        /\ \A i \in 1..Len(mid) : (head \o mid)[Len(head) + i] = mid[i]
    <3>1. head \in Seq(Sym) /\ mid \in Seq(Sym)
      BY <1>2, <1>3
    <3> QED
      BY <3>1, Joined
  <2> HIDE DEF front
  <2> QED
    BY <1>0, <1>2, <1>3, <2>1 DEF front
<1> HIDE DEF front
<1> DEFINE A == front \o tail
<1>6. /\ A \in Seq(Sym) /\ Len(A) = n + 9
      /\ \A i \in 1..(n + 5) : A[i] = front[i]
      /\ \A i \in 1..4 : A[n + 5 + i] = tail[i]
  <2>1. /\ front \o tail \in Seq(Sym) /\ Len(front \o tail) = Len(front) + Len(tail)
        /\ \A i \in 1..Len(front) : (front \o tail)[i] = front[i]
        /\ \A i \in 1..Len(tail) : (front \o tail)[Len(front) + i] = tail[i]
    <3>1. front \in Seq(Sym) /\ tail \in Seq(Sym)
      BY <1>4, <1>5
    <3> QED
      BY <3>1, Joined
  <2> HIDE DEF A
  <2>2. Len(front) = n + 5 /\ Len(tail) = 4 /\ n + 5 + 4 = n + 9
    BY <1>0, <1>4, <1>5
  <2> QED
    BY <2>1, <2>2 DEF A
<1>7. Answer(t, k) = A
  BY <1>1 DEF front
<1> HIDE DEF A
<1>8. /\ A[1] = Bo1 /\ A[2] = Bo2 /\ A[3] = Noise /\ A[4] = Comma /\ A[5] = Open(t)
  <2>1. \A i \in 1..5 : i \in 1..(n + 5)
    BY <1>0
  <2> QED
    BY <1>3, <1>5, <1>6, <2>1
<1>9. \A j \in 1..n : A[5 + j] = Row(<<t, k + j>>)
  <2>1. \A j \in 1..n : 5 + j \in 1..(n + 5)
    BY <1>0
  <2> QED
    BY <1>2, <1>5, <1>6, <2>1
<1>10. A[n + 6] = Close(t) /\ A[n + 7] = Eo1 /\ A[n + 8] = Eo2 /\ A[n + 9] = Noise
  <2>1. n + 6 = n + 5 + 1 /\ n + 7 = n + 5 + 2 /\ n + 8 = n + 5 + 3 /\ n + 9 = n + 5 + 4
    BY <1>0
  <2> QED
    BY <1>4, <1>6, <2>1
<1> QED
  BY <1>6, <1>7, <1>8, <1>9, <1>10 DEF Shape, n

-----------------------------------------------------------------------------
(* What recv_cb finds in a chunk.                                          *)

Matches(data, a, b, k) == data[k] = a /\ data[k + 1] = b

LEMMA MemmemNone ==
  ASSUME NEW data, NEW a, NEW b, \A k \in 1..(Len(data) - 1) : ~Matches(data, a, b, k)
  PROVE  Memmem(data, a, b) = 0
BY DEF Memmem, Matches

LEMMA MemmemAt ==
  ASSUME NEW data, NEW a, NEW b, Len(data) \in Nat,
         NEW k \in 1..(Len(data) - 1), Matches(data, a, b, k),
         \A m \in 1..(Len(data) - 1) : Matches(data, a, b, m) => m = k
  PROVE  Memmem(data, a, b) = k
<1> DEFINE at == {m \in 1..(Len(data) - 1) : data[m] = a /\ data[m + 1] = b}
<1>1. at = {k}
  BY DEF Matches
<1>2. Memmem(data, a, b) = IF at = {} THEN 0 ELSE CHOOSE o \in at : \A m \in at : o <= m
  BY DEF Memmem
<1> HIDE DEF at
<1>3. \E o \in at : \A m \in at : o <= m
  BY <1>1
<1> QED
  BY <1>1, <1>2, <1>3

LEMMA MemmemRange ==
  ASSUME NEW data, NEW a, NEW b, Len(data) \in Nat
  PROVE  Memmem(data, a, b) = 0 \/ Memmem(data, a, b) \in 1..(Len(data) - 1)
<1> DEFINE at == {m \in 1..(Len(data) - 1) : data[m] = a /\ data[m + 1] = b}
<1>1. Memmem(data, a, b) = IF at = {} THEN 0 ELSE CHOOSE o \in at : \A m \in at : o <= m
  BY DEF Memmem
<1>2. at \subseteq 1..(Len(data) - 1) /\ at \subseteq Nat
  OBVIOUS
<1> HIDE DEF at
<1>3. at # {} => \E o \in at : \A m \in at : o <= m
  BY <1>2, Smallest
<1> QED
  BY <1>1, <1>2, <1>3

LEMMA FastForwardRange ==
  ASSUME NEW data, NEW sp \in 1..Len(data), Len(data) \in Nat
  PROVE  FastForward(data, sp) \in sp..(Len(data) + 1)
<1> DEFINE at == {k \in sp..Len(data) : HasBrace(data[k])}
           c == CHOOSE k \in at : \A m \in at : k <= m
<1>1. FastForward(data, sp) = IF at = {} THEN Len(data) + 1 ELSE c
  BY DEF FastForward
<1>2. at \subseteq sp..Len(data) /\ at \subseteq Nat
  OBVIOUS
<1> HIDE DEF at
<1>3. at # {} => c \in at
  BY <1>2, Smallest
<1> HIDE DEF c
<1>4. CASE at = {}
  BY <1>1, <1>4
<1>5. CASE at # {}
  <2>1. c \in sp..Len(data)
    BY <1>2, <1>3, <1>5
  <2>2. FastForward(data, sp) = c
    BY <1>1, <1>5
  <2> QED
    BY <2>1, <2>2
<1> QED
  BY <1>4, <1>5

LEMMA FastForwardAt ==
  ASSUME NEW data, NEW sp \in 1..Len(data), Len(data) \in Nat,
         NEW k \in sp..(Len(data) + 1), k <= Len(data) => HasBrace(data[k]),
         \A m \in sp..(k - 1) : ~HasBrace(data[m])
  PROVE  FastForward(data, sp) = k
<1> DEFINE at == {m \in sp..Len(data) : HasBrace(data[m])}
<1>1. FastForward(data, sp) = IF at = {} THEN Len(data) + 1 ELSE CHOOSE o \in at : \A m \in at : o <= m
  BY DEF FastForward
<1>2. \A m \in at : m \in sp..Len(data) /\ m >= k
  <2>1. \A m \in sp..Len(data) : m \in sp..(k - 1) \/ m >= k
    OBVIOUS
  <2> QED
    BY <2>1
<1>3. CASE k <= Len(data)
  <2>1. k \in at
    BY <1>3
  <2> HIDE DEF at
  <2>2. \E o \in at : \A m \in at : o <= m
    BY <1>2, <2>1
  <2>3. \A o \in at : (\A m \in at : o <= m) => o = k
    BY <1>2, <2>1
  <2> QED
    BY <1>1, <2>1, <2>2, <2>3
<1>4. CASE k > Len(data)
  <2>1. at = {}
    BY <1>2, <1>4
  <2> HIDE DEF at
  <2> QED
    BY <1>1, <1>4, <2>1
<1> QED
  BY <1>3, <1>4

LEMMA RewindRange ==
  ASSUME NEW data, NEW ep \in Nat, ep # 0
  PROVE  Rewind(data, ep) \in 1..ep
<1> DEFINE at == {k \in 1..(ep - 1) : EndsInBrace(data[k])}
           c == CHOOSE k \in at : \A m \in at : k >= m
<1>1. Rewind(data, ep) = IF at = {} THEN 1 ELSE 1 + c
  BY DEF Rewind
<1>2. at \subseteq 1..(ep - 1) /\ at \subseteq 0..ep
  OBVIOUS
<1> HIDE DEF at
<1>3. at # {} => c \in at
  BY <1>2, Largest
<1> HIDE DEF c
<1>4. CASE at = {}
  BY <1>1, <1>4
<1>5. CASE at # {}
  <2>1. c \in 1..(ep - 1)
    BY <1>2, <1>3, <1>5
  <2>2. Rewind(data, ep) = 1 + c
    BY <1>1, <1>5
  <2> QED
    BY <2>1, <2>2
<1> QED
  BY <1>4, <1>5

LEMMA RewindAt ==
  ASSUME NEW data, NEW ep \in Nat, NEW k \in 1..ep, k > 1 => EndsInBrace(data[k - 1]),
         \A m \in k..(ep - 1) : ~EndsInBrace(data[m])
  PROVE  Rewind(data, ep) = k
<1> DEFINE at == {m \in 1..(ep - 1) : EndsInBrace(data[m])}
           c == CHOOSE o \in at : \A m \in at : o >= m
<1>1. Rewind(data, ep) = IF at = {} THEN 1 ELSE 1 + c
  BY DEF Rewind
<1>2. \A m \in at : m \in 1..(ep - 1) /\ m <= k - 1
  <2>1. \A m \in 1..(ep - 1) : m \in k..(ep - 1) \/ m <= k - 1
    OBVIOUS
  <2> QED
    BY <2>1
<1>3. CASE k > 1
  <2>1. k - 1 \in at
    BY <1>3
  <2> HIDE DEF at
  <2>2. \E o \in at : \A m \in at : o >= m
    BY <1>2, <2>1
  <2>3. \A o \in at : (\A m \in at : o >= m) => o = k - 1
    BY <1>2, <2>1
  <2>4. c = k - 1
    BY <2>2, <2>3
  <2> HIDE DEF c
  <2>5. Rewind(data, ep) = 1 + c
    BY <1>1, <2>1
  <2> QED
    BY <1>3, <2>4, <2>5
<1>4. CASE k = 1
  <2>1. at = {}
    BY <1>2, <1>4
  <2> HIDE DEF at
  <2> QED
    BY <1>1, <1>4, <2>1
<1> QED
  BY <1>3, <1>4

-----------------------------------------------------------------------------
(* Tokens.                                                                 *)

Tok(W) == [type : {"object", "string", "primitive", "array"}, size : Nat, what : W]
Words == {"size", "data", "rows", "field", "value", "noise"}
Whats(s) == {s[2], <<s[2], 0>>, Total[s[2]]}

LEMMA Pair ==
  ASSUME NEW a, NEW b, NEW c
  PROVE  <<a>> \o <<b, c>> = <<a, b, c>>
<1> DEFINE T == {a, b, c}
           p == <<a>>
           q == <<b, c>>
           r == <<a, b, c>>
<1>1. p \in Seq(T) /\ q \in Seq(T) /\ r \in Seq(T) /\ Len(p) = 1 /\ Len(q) = 2 /\ Len(r) = 3
  OBVIOUS
<1>2. p[1] = a /\ q[1] = b /\ q[2] = c /\ r[1] = a /\ r[2] = b /\ r[3] = c
  OBVIOUS
<1> HIDE DEF p, q, r, T
<1>3. /\ p \o q \in Seq(T) /\ Len(p \o q) = 3
      /\ (p \o q)[1] = p[1] /\ (p \o q)[2] = q[1] /\ (p \o q)[3] = q[2]
  <2>1. p \o q \in Seq(T) /\ Len(p \o q) = Len(p) + Len(q)
    BY <1>1, ConcatProperties
  <2>2. \A i \in 1..(Len(p) + Len(q)) : (p \o q)[i] = IF i <= Len(p) THEN p[i] ELSE q[i - Len(p)]
    BY <1>1, ConcatProperties
  <2> QED
    BY <1>1, <2>1, <2>2
<1>4. \A i \in 1..3 : (p \o q)[i] = r[i]
  BY <1>2, <1>3
<1>5. p \o q = r
  BY <1>1, <1>3, <1>4, SeqEqual
<1> QED
  BY <1>5 DEF p, q, r

LEMMA Five ==
  ASSUME NEW a, NEW b, NEW c, NEW d, NEW e
  PROVE  <<a, b, c>> \o <<d, e>> = <<a, b, c, d, e>>
<1> DEFINE T == {a, b, c, d, e}
           p == <<a, b, c>>
           q == <<d, e>>
           r == <<a, b, c, d, e>>
<1>1. p \in Seq(T) /\ q \in Seq(T) /\ r \in Seq(T) /\ Len(p) = 3 /\ Len(q) = 2 /\ Len(r) = 5
  OBVIOUS
<1>2. p[1] = a /\ p[2] = b /\ p[3] = c /\ q[1] = d /\ q[2] = e
      /\ r[1] = a /\ r[2] = b /\ r[3] = c /\ r[4] = d /\ r[5] = e
  OBVIOUS
<1> HIDE DEF p, q, r, T
<1>3. /\ p \o q \in Seq(T) /\ Len(p \o q) = 5
      /\ (p \o q)[1] = p[1] /\ (p \o q)[2] = p[2] /\ (p \o q)[3] = p[3]
      /\ (p \o q)[4] = q[1] /\ (p \o q)[5] = q[2]
  <2>1. p \o q \in Seq(T) /\ Len(p \o q) = Len(p) + Len(q)
    BY <1>1, ConcatProperties
  <2>2. \A i \in 1..(Len(p) + Len(q)) : (p \o q)[i] = IF i <= Len(p) THEN p[i] ELSE q[i - Len(p)]
    BY <1>1, ConcatProperties
  <2> QED
    BY <1>1, <2>1, <2>2
<1>4. \A i \in 1..5 : (p \o q)[i] = r[i]
  BY SMTT(30), <1>2, <1>3
<1>5. p \o q = r
  BY <1>1, <1>3, <1>4, SeqEqual
<1> QED
  BY <1>5 DEF p, q, r

LEMMA TokenTyped ==
  ASSUME NEW W, NEW type \in {"object", "string", "primitive", "array"}, NEW size \in Nat, NEW what \in W
  PROVE  Token(type, size, what) \in Tok(W)
BY DEF Token, Tok

(* What print1 looks at of the tokens of an answer's beginning.            *)
Array0(s) == IF s[2] \in SizeFirst THEN 5 ELSE 3

LEMMA OpenTokens ==
  ASSUME NEW s, s[1] = "open", NEW n \in Nat, NEW W, Words \cup Whats(s) \subseteq W
  PROVE  /\ TokensOf(s, n) \in Seq(Tok(W)) /\ Len(TokensOf(s, n)) = Array0(s)
         /\ TokensOf(s, n)[2].what = "size" <=> s[2] \in SizeFirst
         /\ s[2] \in SizeFirst => TokensOf(s, n)[3].what = Total[s[2]]
         /\ TokensOf(s, n)[Array0(s)].size = n
<1> DEFINE o == Token("object", 2, <<s[2], 0>>)
           z == Name("size")
           w == Word(Total[s[2]])
           d == Name("data")
           a == Token("array", n, "rows")
<1>1. o \in Tok(W) /\ z \in Tok(W) /\ w \in Tok(W) /\ d \in Tok(W) /\ a \in Tok(W)
  BY TokenTyped DEF Name, Word, Words, Whats
<1>2. z.what = "size" /\ d.what = "data" /\ w.what = Total[s[2]] /\ a.size = n
  BY DEF Name, Word, Token
<1>3. TokensOf(s, n) = <<o>> \o (IF s[2] \in SizeFirst THEN <<z, w>> ELSE <<>>) \o <<d, a>>
  BY DEF TokensOf
<1> HIDE DEF o, z, w, d, a
<1>4. CASE s[2] \in SizeFirst
  <2>1. TokensOf(s, n) = <<o, z, w, d, a>>
    <3>1. <<o>> \o <<z, w>> = <<o, z, w>> /\ <<o, z, w>> \o <<d, a>> = <<o, z, w, d, a>>
      BY Pair, Five
    <3> QED
      BY <1>3, <1>4, <3>1
  <2> QED
    BY <1>1, <1>2, <1>4, <2>1 DEF Array0
<1>5. CASE s[2] \notin SizeFirst
  <2>1. TokensOf(s, n) = <<o, d, a>>
    <3>1. <<o>> \o <<>> = <<o>>
      <4>1. <<o>> \in Seq({o})
        OBVIOUS
      <4> QED
        BY <4>1, ConcatEmptySeq
    <3>2. <<o>> \o <<d, a>> = <<o, d, a>>
      BY Pair
    <3> QED
      BY <1>3, <1>5, <3>1, <3>2
  <2> QED
    BY <1>1, <1>2, <1>5, <2>1 DEF Array0
<1> QED
  BY <1>4, <1>5

LEMMA RowTokens ==
  ASSUME NEW r, NEW n \in Nat, NEW W, Words \cup {r} \subseteq W, Tricky = {}
  PROVE  /\ TokensOf(Row(r), n) \in Seq(Tok(W)) /\ Len(TokensOf(Row(r), n)) = 3
         /\ TokensOf(Row(r), n)[1] = Token("object", 1, r)
<1> DEFINE o == Token("object", 1, r)
           f == Name("field")
           v == Text("value")
<1>1. o \in Tok(W) /\ f \in Tok(W) /\ v \in Tok(W)
  BY TokenTyped DEF Name, Text, Words
<1>2. TokensOf(Row(r), n) = <<o, f, v>>
  BY DEF TokensOf, Row
<1> HIDE DEF o, f, v
<1> QED
  BY <1>1, <1>2 DEF o

LEMMA CloseTokens ==
  ASSUME NEW t, NEW n \in Nat, NEW W, Words \cup {Total[t]} \subseteq W
  PROVE  /\ TokensOf(Close(t), n) \in Seq(Tok(W))
         /\ Len(TokensOf(Close(t), n)) = IF t \in SizeFirst THEN 0 ELSE 2
         /\ t \notin SizeFirst => /\ TokensOf(Close(t), n)[1].what = "size"
                                  /\ TokensOf(Close(t), n)[2].what = Total[t]
<1> DEFINE z == Name("size")
           w == Word(Total[t])
<1>1. z \in Tok(W) /\ w \in Tok(W)
  BY TokenTyped DEF Name, Word, Words
<1>2. z.what = "size" /\ w.what = Total[t]
  BY DEF Name, Word, Token
<1>3. TokensOf(Close(t), n) = IF t \in SizeFirst THEN <<>> ELSE <<z, w>>
  BY DEF TokensOf, Close
<1> HIDE DEF z, w
<1> QED
  BY <1>1, <1>2, <1>3

LEMMA TokensTyped ==
  ASSUME NEW s, NEW n \in Nat, NEW W, Words \cup Whats(s) \subseteq W
  PROVE  TokensOf(s, n) \in Seq(Tok(W))
<1>1. CASE s[1] = "open"
  BY <1>1, OpenTokens
<1> DEFINE z == Name("size")
           w == Word(Total[s[2]])
           o == Token("object", 1, s[2])
           f == Name("field")
           v == Text("value")
           x == Word("noise")
<1>2. {z, w, o, f, v, x} \subseteq Tok(W)
  BY TokenTyped DEF Name, Word, Text, Words, Whats
<1>3. s[1] # "open" => TokensOf(s, n) \in {<<>>, <<z, w>>, <<o, f, v>>, <<x>>}
  BY DEF TokensOf
<1> HIDE DEF z, w, o, f, v, x
<1>4. <<>> \in Seq(Tok(W)) /\ <<z, w>> \in Seq(Tok(W)) /\ <<o, f, v>> \in Seq(Tok(W)) /\ <<x>> \in Seq(Tok(W))
  BY <1>2
<1> QED
  BY <1>1, <1>3, <1>4

-----------------------------------------------------------------------------
(* What print1 finds in any buffer that begins like an answer.             *)

Parts(b) == [k \in 1..Len(b) |-> TokensOf(b[k], IF b[k][1] = "open" THEN Elements(b, k) ELSE 0)]
AllWhats(b) == Words \cup UNION {Whats(b[k]) : k \in 1..Len(b)}

LEMMA ElementsCounted ==
  ASSUME NEW b, Len(b) \in Nat, NEW k \in Nat
  PROVE  Elements(b, k) \in Nat
<1> DEFINE inside == Nesting(b)
           depth == Len(inside[k])
           S == {m \in (k + 1)..Len(b) :
                   /\ \A i \in k..(m - 1) : Len(inside[i]) >= depth
                   /\ Len(inside[m - 1]) = depth
                   /\ b[m][1] # "close" /\ TokensOf(b[m], 0) # <<>>}
<1>1. IsFiniteSet((k + 1)..Len(b))
  BY FS_Interval
<1>2. S \in SUBSET ((k + 1)..Len(b))
  OBVIOUS
<1>3. Elements(b, k) = Cardinality(S)
  BY Zenon DEF Elements
<1> HIDE DEF S
<1> QED
  BY <1>1, <1>2, <1>3, FS_Subset, FS_CardinalityType

LEMMA PartsTyped ==
  ASSUME NEW b, Len(b) \in Nat
  PROVE  /\ Sequences(Parts(b), Len(b), Tok(AllWhats(b)))
         /\ \A k \in 1..Len(b) :
              Parts(b)[k] = TokensOf(b[k], IF b[k][1] = "open" THEN Elements(b, k) ELSE 0)
<1>1. /\ Len(Parts(b)) = Len(b)
      /\ \A k \in 1..Len(b) :
           Parts(b)[k] = TokensOf(b[k], IF b[k][1] = "open" THEN Elements(b, k) ELSE 0)
  BY DEF Parts
<1>2. ASSUME NEW k \in 1..Len(b) PROVE Parts(b)[k] \in Seq(Tok(AllWhats(b)))
  <2> DEFINE n == IF b[k][1] = "open" THEN Elements(b, k) ELSE 0
  <2>1. n \in Nat
    BY ElementsCounted
  <2>2. Words \cup Whats(b[k]) \subseteq AllWhats(b)
    BY DEF AllWhats
  <2>3. Parts(b)[k] = TokensOf(b[k], n)
    BY <1>1
  <2> HIDE DEF n
  <2> QED
    BY <2>1, <2>2, <2>3, TokensTyped
<1> QED
  BY <1>1, <1>2 DEF Sequences

Goes(at, ts, n) == at = [j \in 0..n |-> IF j = 0 THEN Array(ts) + 1 ELSE Past(ts, at[j - 1])]

LEMMA GoesExists ==
  ASSUME NEW ts, NEW n \in Nat
  PROVE  \E at : Goes(at, ts, n)
<1> DEFINE S == {k \in 0..n : \E at : Goes(at, ts, k)}
<1>1. 0 \in S
  <2>1. Goes([j \in 0..0 |-> Array(ts) + 1], ts, 0)
    <3>1. \A j \in 0..0 : j = 0
      OBVIOUS
    <3> QED
      BY <3>1 DEF Goes
  <2> QED
    BY <2>1
<1>2. ASSUME NEW k \in 1..n, k - 1 \in S PROVE k \in S
  <2>1. PICK f : Goes(f, ts, k - 1)
    BY <1>2
  <2> DEFINE h == [j \in 0..k |-> IF j = 0 THEN Array(ts) + 1 ELSE Past(ts, f[j - 1])]
  <2>2. \A j \in 0..(k - 1) : h[j] = f[j]
    <3>1. \A j \in 0..(k - 1) : f[j] = IF j = 0 THEN Array(ts) + 1 ELSE Past(ts, f[j - 1])
      BY <2>1 DEF Goes
    <3>2. \A j \in 0..(k - 1) : j \in 0..k
      BY <1>2
    <3> QED
      BY <3>1, <3>2
  <2>3. \A j \in 0..k : j # 0 => j - 1 \in 0..(k - 1)
    OBVIOUS
  <2>4. \A j \in 0..k : h[j] = IF j = 0 THEN Array(ts) + 1 ELSE Past(ts, h[j - 1])
    <3>1. TAKE j \in 0..k
    <3>2. h[j] = IF j = 0 THEN Array(ts) + 1 ELSE Past(ts, f[j - 1])
      OBVIOUS
    <3> HIDE DEF h
    <3> QED
      BY <2>2, <2>3, <3>2
  <2>5. h = [j \in 0..k |-> h[j]]
    OBVIOUS
  <2> HIDE DEF h
  <2>6. Goes(h, ts, k)
    BY <2>4, <2>5 DEF Goes
  <2> QED
    BY <2>6
<1>3. 0..n \subseteq S
  <2> HIDE DEF S
  <2> QED
    BY <1>1, <1>2, Upwards
<1>4. n \in S
  BY <1>3
<1> QED
  BY <1>4

LEMMA RoundsIs ==
  ASSUME NEW ts, ts[Array(ts)].size \in Nat
  PROVE  Goes(Rounds(ts), ts, ts[Array(ts)].size)
<1>1. \E at : Goes(at, ts, ts[Array(ts)].size)
  BY GoesExists
<1> QED
  BY <1>1 DEF Rounds, Goes

LEMMA OpenBegins ==
  ASSUME NEW b, Len(b) \in Nat, NEW c \in 1..Len(b), b[c][1] = "open",
         \A m \in 1..(c - 1) : b[m] = Comma
  PROVE  /\ Tokens(b) \in Seq(Tok(AllWhats(b)))
         /\ Array(Tokens(b)) = Array0(b[c]) /\ Array(Tokens(b)) \in 1..Len(Tokens(b))
         /\ Tokens(b)[Array(Tokens(b))].size = Elements(b, c) /\ Elements(b, c) \in Nat
         /\ StartsWithSize(Tokens(b)) <=> b[c][2] \in SizeFirst
         /\ b[c][2] \in SizeFirst => Tokens(b)[3].what = Total[b[c][2]]
<1> DEFINE n == Elements(b, c)
           s == Parts(b)
           W == AllWhats(b)
           f == TokensOf(b[c], n)
           ts == Seqs!FlattenSeq(s)
<1>1. n \in Nat /\ Len(b) # 0
  BY ElementsCounted
<1>2. Sequences(s, Len(b), Tok(W)) /\ s[c] = f
  BY <1>1, PartsTyped
<1>3. Tokens(b) = ts /\ \A k \in 1..(c - 1) : s[k] = <<>>
  <2>1. ASSUME NEW k \in 1..(c - 1) PROVE s[k] = <<>>
    <3>1. b[k] = Comma /\ k \in 1..Len(b)
      OBVIOUS
    <3>2. \A m : TokensOf(Comma, m) = <<>>
      BY DEF TokensOf, Comma
    <3> QED
      BY <3>1, <3>2, PartsTyped
  <2> QED
    BY <2>1 DEF Tokens, Parts
<1>4. Words \cup Whats(b[c]) \subseteq W
  BY <1>1 DEF AllWhats
<1> HIDE DEF n, s, W
<1>5. /\ Len(f) = Array0(b[c])
      /\ f[2].what = "size" <=> b[c][2] \in SizeFirst
      /\ b[c][2] \in SizeFirst => f[3].what = Total[b[c][2]]
      /\ f[Array0(b[c])].size = n
  BY <1>1, <1>4, OpenTokens
<1> HIDE DEF f
<1>6. ts \in Seq(Tok(W)) /\ \A x \in 1..Len(f) : x \in 1..Len(ts) /\ ts[x] = f[x]
  <2>1. /\ ts \in Seq(Tok(W))
        /\ \A x \in 1..Len(s[c]) : x \in 1..Len(ts) /\ ts[x] = s[c][x]
    BY <1>1, <1>2, <1>3, FlattenBegins
  <2> HIDE DEF ts
  <2> QED
    BY <1>2, <2>1
<1> HIDE DEF ts
<1>7. Array0(b[c]) \in {3, 5} /\ (b[c][2] \in SizeFirst <=> Array0(b[c]) = 5)
  BY DEF Array0
<1>8. ts[2] = f[2] /\ ts[3] = f[3] /\ ts[Array0(b[c])] = f[Array0(b[c])] /\ Array0(b[c]) \in 1..Len(ts)
  <2>1. 2 \in 1..Len(f) /\ 3 \in 1..Len(f) /\ Array0(b[c]) \in 1..Len(f)
    BY <1>5, <1>7
  <2> QED
    BY <1>6, <2>1
<1>9. StartsWithSize(ts) <=> b[c][2] \in SizeFirst
  BY <1>5, <1>8 DEF StartsWithSize
<1>10. Array(ts) = Array0(b[c])
  BY <1>9 DEF Array, Array0
<1> QED
  BY <1>1, <1>3, <1>5, <1>6, <1>8, <1>9, <1>10 DEF n, W

(* The first symbol that has tokens.                                       *)
LEMMA FirstIs ==
  ASSUME NEW b, Len(b) \in Nat
  PROVE  /\ First(b) \in 1..(Len(b) + 1) /\ \A m \in 1..(First(b) - 1) : b[m] = Comma
         /\ First(b) <= Len(b) => b[First(b)] # Comma
<1> DEFINE S == {k \in 1..(Len(b) + 1) : k <= Len(b) => b[k] # Comma}
<1>1. S \subseteq Nat /\ Len(b) + 1 \in S
  OBVIOUS
<1>2. PICK k \in S : \A o \in S : k <= o
  <2> HIDE DEF S
  <2> QED
    BY <1>1, Smallest
<1>3. \A m \in 1..(k - 1) : b[m] = Comma
  <2>1. TAKE m \in 1..(k - 1)
  <2>2. m \in 1..(Len(b) + 1) /\ ~(k <= m)
    BY <1>2
  <2>3. m \notin S
    BY <1>2, <2>2
  <2> QED
    BY <2>2, <2>3
<1>4. k \in 1..(Len(b) + 1) /\ (k <= Len(b) => b[k] # Comma)
  BY <1>2
<1> HIDE DEF S
<1> QED
  BY <1>3, <1>4 DEF First

(* print1 prints a number of rows.                                         *)
LEMMA RowsCounted ==
  ASSUME NEW b, Len(b) \in Nat, NEW c \in 1..Len(b), b[c][1] = "open",
         \A m \in 1..(c - 1) : b[m] = Comma
  PROVE  Len(Rows(b)) \in Nat
<1> DEFINE ts == Tokens(b)
           at == Rounds(ts)
           n == ts[Array(ts)].size
           S == {j \in (DOMAIN at) \ {0} : at[j] # at[j - 1]}
           m == Cardinality(S)
<1>1. n \in Nat
  BY OpenBegins
<1>2. Goes(at, ts, n)
  BY <1>1, RoundsIs
<1> HIDE DEF n
<1>3. DOMAIN at = 0..n
  BY <1>2 DEF Goes
<1>4. m \in Nat
  <2>1. IsFiniteSet(0..n)
    BY <1>1, FS_Interval
  <2>2. S \in SUBSET (0..n)
    BY <1>3
  <2> HIDE DEF S
  <2> QED
    BY <2>1, <2>2, FS_Subset, FS_CardinalityType
<1>5. Rows(b) = [j \in 1..m |-> ts[at[j - 1]].what]
  BY Zenon DEF Rows
<1> HIDE DEF m, ts, at
<1>6. Len([j \in 1..m |-> ts[at[j - 1]].what]) = m
  BY <1>4
<1> QED
  BY <1>4, <1>5, <1>6

-----------------------------------------------------------------------------
(* What print1 finds in an answer between its beacons.                     *)

Data(b, t, k, n) ==
  /\ b \in Seq(Sym) /\ Len(b) = n + 2
  /\ b[1] = Open(t) /\ b[n + 2] = Close(t)
  /\ \A j \in 1..n : b[1 + j] = Row(<<t, k + j>>)

LEMMA Entered ==
  ASSUME NEW t, Tricky = {}
  PROVE  /\ Enter(Open(t), <<>>) = <<"open">>
         /\ Enter(Row(t), <<"open">>) = <<"open">>
         /\ Enter(Close(t), <<"open">>) = <<>>
<1>1. <<>> # Wrong /\ <<"open">> # Wrong
  BY DEF Wrong
<1>2. <<"open">> \o <<>> = <<"open">> /\ Tail(<<"open">>) = <<>>
  <2>1. <<"open">> \in Seq({"open"}) /\ <<"open">> # <<>> /\ Len(<<"open">>) = 1
    OBVIOUS
  <2>2. <<"open">> \o <<>> = <<"open">>
    BY <2>1, ConcatEmptySeq
  <2>3. Tail(<<"open">>) = SubSeq(<<"open">>, 2, Len(<<"open">>))
    BY <2>1, TailIsSubSeq
  <2>4. SubSeq(<<"open">>, 2, 1) = <<>>
    BY SubSeqEmpty
  <2> QED
    BY <2>1, <2>2, <2>3, <2>4
<1>3. Enter(Open(t), <<>>) = <<"open">>
  <2>1. Open(t)[1] = "open"
    BY DEF Open
  <2> QED
    BY <1>1, <1>2, <2>1 DEF Enter
<1>4. Enter(Row(t), <<"open">>) = <<"open">>
  <2>1. Row(t)[1] = "row"
    BY DEF Row
  <2> QED
    BY <1>1, <2>1 DEF Enter
<1>5. Enter(Close(t), <<"open">>) = <<>>
  <2>1. Close(t)[1] = "close" /\ <<"open">>[1] = "open" /\ <<"open">> # <<>>
    BY DEF Close
  <2> QED
    BY <1>1, <1>2, <2>1 DEF Enter
<1> QED
  BY <1>3, <1>4, <1>5

Nests(f, b, n) == f = [k \in 0..n |-> IF k = 0 THEN <<>> ELSE Enter(b[k], f[k - 1])]

LEMMA NestingIs ==
  ASSUME NEW b, NEW t, NEW k, NEW n \in Nat, Data(b, t, k, n), Tricky = {}
  PROVE  \A i \in 1..(n + 1) : Nesting(b)[i] = <<"open">>
<1> DEFINE h == [i \in 0..(n + 2) |-> IF i = 0 \/ i = n + 2 THEN <<>> ELSE <<"open">>]
           f == Nesting(b)
<1>1. Len(b) = n + 2
  BY DEF Data
<1>2. \A i \in 0..(n + 2) : h[i] = IF i = 0 THEN <<>> ELSE Enter(b[i], h[i - 1])
  <2>1. TAKE i \in 0..(n + 2)
  <2>2. /\ h[0] = <<>> /\ h[n + 2] = <<>>
        /\ \A o \in 1..(n + 1) : h[o] = <<"open">>
    OBVIOUS
  <2> HIDE DEF h
  <2>3. CASE i = 0
    BY <2>2, <2>3
  <2>4. CASE i = 1
    <3>1. h[1] = <<"open">> /\ b[1] = Open(t)
      BY <2>2 DEF Data
    <3>2. Enter(b[1], h[1 - 1]) = <<"open">>
      BY <2>2, <3>1, Entered
    <3> QED
      BY <2>4, <3>1, <3>2
  <2>5. CASE i \in 2..(n + 1)
    <3>1. i - 1 \in 1..n /\ 1 + (i - 1) = i /\ i \in 1..(n + 1) /\ i - 1 \in 1..(n + 1) /\ i # 0
      BY <2>5
    <3>2. b[i] = Row(<<t, k + (i - 1)>>)
      BY <3>1 DEF Data
    <3>3. h[i - 1] = <<"open">> /\ h[i] = <<"open">>
      BY <2>2, <3>1
    <3> QED
      BY <3>1, <3>2, <3>3, Entered
  <2>6. CASE i = n + 2
    <3>1. i - 1 \in 1..(n + 1) /\ i # 0
      BY <2>6
    <3>2. h[i - 1] = <<"open">> /\ b[i] = Close(t) /\ h[i] = <<>>
      BY <2>2, <2>6, <3>1 DEF Data
    <3> QED
      BY <3>1, <3>2, Entered
  <2> QED
    BY <2>3, <2>4, <2>5, <2>6
<1>3. Nests(h, b, n + 2)
  <2>1. h = [i \in 0..(n + 2) |-> h[i]]
    OBVIOUS
  <2> HIDE DEF h
  <2> QED
    BY <1>2, <2>1 DEF Nests
<1>4. Nests(f, b, n + 2)
  <2> HIDE DEF h
  <2>1. f = CHOOSE g : Nests(g, b, n + 2)
    BY <1>1 DEF Nesting, Nests
  <2> HIDE DEF f
  <2> QED
    BY <1>3, <2>1
<1>5. \A i \in 0..(n + 2) : f[i] = IF i = 0 THEN <<>> ELSE Enter(b[i], f[i - 1])
  <2> HIDE DEF f
  <2> QED
    BY <1>4 DEF Nests
<1> HIDE DEF f
<1> DEFINE S == {i \in 0..(n + 2) : f[i] = h[i]}
<1>6. 0..(n + 2) \subseteq S
  <2> HIDE DEF h
  <2>1. 0 \in S
    <3>1. 0 \in 0..(n + 2)
      OBVIOUS
    <3> QED
      BY <1>2, <1>5, <3>1
  <2>2. ASSUME NEW i \in 1..(n + 2), i - 1 \in S PROVE i \in S
    <3>1. i \in 0..(n + 2) /\ i # 0 /\ f[i - 1] = h[i - 1]
      BY <2>2
    <3> QED
      BY <1>2, <1>5, <3>1
  <2> HIDE DEF S
  <2>3. n + 2 \in Nat
    OBVIOUS
  <2> QED
    BY <2>1, <2>2, <2>3, Upwards
<1>7. \A i \in 1..(n + 1) : i \in 0..(n + 2) /\ h[i] = <<"open">>
  OBVIOUS
<1> HIDE DEF h
<1> QED
  BY <1>6, <1>7 DEF f

LEMMA ElementsIs ==
  ASSUME NEW b, NEW t, NEW k, NEW n \in Nat, Data(b, t, k, n), Tricky = {}
  PROVE  Elements(b, 1) = n
<1> DEFINE inside == Nesting(b)
           depth == Len(inside[1])
           S == {m \in (1 + 1)..Len(b) :
                   /\ \A i \in 1..(m - 1) : Len(inside[i]) >= depth
                   /\ Len(inside[m - 1]) = depth
                   /\ b[m][1] # "close" /\ TokensOf(b[m], 0) # <<>>}
<1>1. Elements(b, 1) = Cardinality(S)
  BY Zenon DEF Elements
<1>2. \A i \in 1..(n + 1) : Len(inside[i]) = 1
  <2>1. Len(<<"open">>) = 1
    OBVIOUS
  <2> QED
    BY <2>1, NestingIs
<1>3. Len(b) = n + 2
  BY DEF Data
<1> HIDE DEF inside
<1>4. depth = 1
  <2>1. 1 \in 1..(n + 1)
    OBVIOUS
  <2> QED
    BY <1>2, <2>1
<1> HIDE DEF depth
<1>5. S = 2..(n + 1)
  <2>1. ASSUME NEW m \in 2..(n + 1) PROVE m \in S
    <3>1. m - 1 \in 1..n /\ 1 + (m - 1) = m /\ m - 1 \in 1..(n + 1) /\ m \in (1 + 1)..Len(b)
      BY <1>3
    <3>2. b[m] = Row(<<t, k + (m - 1)>>)
      BY <3>1 DEF Data
    <3>3. b[m][1] # "close"
      <4>1. b[m][1] = "row"
        BY <3>2 DEF Row
      <4> QED
        BY <4>1
    <3>4. TokensOf(b[m], 0) # <<>>
      <4> DEFINE r == <<t, k + (m - 1)>>
      <4>1. Len(TokensOf(Row(r), 0)) = 3
        <5> HIDE DEF r
        <5> QED
          BY RowTokens
      <4> QED
        BY <3>2, <4>1
    <3>5. \A i \in 1..(m - 1) : Len(inside[i]) >= depth
      <4>1. TAKE i \in 1..(m - 1)
      <4>2. i \in 1..(n + 1)
        BY <3>1
      <4>3. Len(inside[i]) = 1
        BY <1>2, <4>2
      <4> QED
        BY <1>4, <4>3
    <3>6. Len(inside[m - 1]) = depth
      BY <1>2, <1>4, <3>1
    <3> QED
      BY <3>1, <3>3, <3>4, <3>5, <3>6
  <2>2. ASSUME NEW m \in S PROVE m \in 2..(n + 1)
    <3>1. m \in 2..(n + 2) /\ b[m][1] # "close"
      BY <1>3
    <3>2. m # n + 2
      <4>1. b[n + 2][1] = "close"
        BY DEF Data, Close
      <4> QED
        BY <3>1, <4>1
    <3> QED
      BY <3>1, <3>2
  <2> HIDE DEF S
  <2> QED
    BY <2>1, <2>2
<1> HIDE DEF S
<1>6. Cardinality(2..(n + 1)) = n
  BY FS_Interval
<1> QED
  BY <1>1, <1>5, <1>6

\* a is the array, total the number of rows there are of t.
Read(ts, a, t, k, n) ==
  /\ a \in {3, 5} /\ Array(ts) = a /\ ts[a].size = n
  /\ \A j \in 1..n : ts[a + 3 * j - 2].type = "object" /\ ts[a + 3 * j - 2].size = 1
                     /\ ts[a + 3 * j - 2].what = <<t, k + j>>
  /\ Len(ts) = 3 * n + 5
  /\ a = 5 => StartsWithSize(ts) /\ ts[3].what = Total[t]
  /\ a = 3 => ~StartsWithSize(ts) /\ ts[3 * n + 4].what = "size" /\ ts[3 * n + 5].what = Total[t]

LEMMA TokensIs ==
  ASSUME NEW b, NEW t, NEW k, NEW n \in Nat, Data(b, t, k, n), Tricky = {}
  PROVE  \E a : Read(Tokens(b), a, t, k, n)
<1> DEFINE ts == Tokens(b)
           a == Array0(b[1])
           s == Parts(b)
           W == AllWhats(b)
           off == [i \in 0..(n + 2) |-> IF i = 0 THEN 0
                                        ELSE IF i = n + 2 THEN 3 * n + 5
                                        ELSE a + 3 * (i - 1)]
<1>1. Len(b) = n + 2 /\ Len(b) \in Nat /\ Len(b) # 0 /\ b[1] = Open(t) /\ b[n + 2] = Close(t)
  BY DEF Data
<1>2. b[1][1] = "open" /\ b[1][2] = t
  BY <1>1 DEF Open
<1>3. /\ Array(ts) = a /\ ts[a].size = n
      /\ StartsWithSize(ts) <=> t \in SizeFirst
      /\ t \in SizeFirst => ts[3].what = Total[t]
  <2>1. PICK c \in 1..Len(b) : c = 1
    BY <1>1
  <2>2. b[c][1] = "open" /\ b[c] = b[1] /\ \A m \in 1..(c - 1) : b[m] = Comma
    BY <1>2, <2>1
  <2>3. /\ Array(Tokens(b)) = Array0(b[c]) /\ Tokens(b)[Array(Tokens(b))].size = Elements(b, c)
        /\ StartsWithSize(Tokens(b)) <=> b[c][2] \in SizeFirst
        /\ b[c][2] \in SizeFirst => Tokens(b)[3].what = Total[b[c][2]]
    BY <1>1, <2>2, OpenBegins
  <2>4. Elements(b, c) = n
    BY <2>1, ElementsIs
  <2> QED
    BY <1>2, <2>2, <2>3, <2>4
<1>4. a \in {3, 5} /\ (t \in SizeFirst <=> a = 5)
  BY <1>2 DEF Array0
<1>5. /\ Sequences(s, n + 2, Tok(W))
      /\ \A i \in 1..(n + 2) : s[i] = TokensOf(b[i], IF b[i][1] = "open" THEN Elements(b, i) ELSE 0)
  BY <1>1, PartsTyped
<1> HIDE DEF s
<1>6. Len(s[1]) = a
  <2>1. s[1] = TokensOf(b[1], n)
    <3>1. 1 \in 1..(n + 2)
      OBVIOUS
    <3> QED
      BY <1>2, <1>5, <3>1, ElementsIs
  <2> DEFINE V == Words \cup Whats(b[1])
             f == TokensOf(b[1], n)
  <2>2. Words \cup Whats(b[1]) \subseteq V
    OBVIOUS
  <2> HIDE DEF V
  <2>3. Len(f) = a
    <3> HIDE DEF a
    <3>1. Len(TokensOf(b[1], n)) = Array0(b[1])
      BY <1>2, <2>2, OpenTokens
    <3> QED
      BY <3>1 DEF a
  <2> QED
    BY <2>1, <2>3
<1>7. \A j \in 1..n : Len(s[1 + j]) = 3 /\ s[1 + j][1] = Token("object", 1, <<t, k + j>>)
  <2>1. TAKE j \in 1..n
  <2> DEFINE r == <<t, k + j>>
  <2>2. b[1 + j] = Row(r) /\ 1 + j \in 1..(n + 2)
    BY DEF Data
  <2>3. b[1 + j][1] # "open"
    <3>1. b[1 + j][1] = "row"
      BY <2>2 DEF Row
    <3> QED
      BY <3>1
  <2>4. s[1 + j] = TokensOf(Row(r), 0)
    BY <1>5, <2>2, <2>3
  <2> HIDE DEF r
  <2>5. Words \cup {r} \subseteq Words \cup {r} /\ 0 \in Nat
    OBVIOUS
  <2>6. Len(s[1 + j]) = 3 /\ s[1 + j][1] = Token("object", 1, r)
    BY <2>4, <2>5, RowTokens
  <2> QED
    BY <2>6 DEF r
<1>8. /\ Len(s[n + 2]) = IF t \in SizeFirst THEN 0 ELSE 2
      /\ t \notin SizeFirst => s[n + 2][1].what = "size" /\ s[n + 2][2].what = Total[t]
  <2>1. b[n + 2][1] # "open"
    <3>1. b[n + 2][1] = "close"
      BY <1>1 DEF Close
    <3> QED
      BY <3>1
  <2>2. s[n + 2] = TokensOf(Close(t), 0) /\ 0 \in Nat
    <3>1. n + 2 \in 1..(n + 2)
      OBVIOUS
    <3> QED
      BY <1>1, <1>5, <2>1, <3>1
  <2> DEFINE V == Words \cup {Total[t]}
  <2>3. Words \cup {Total[t]} \subseteq V
    OBVIOUS
  <2> HIDE DEF V
  <2>4. /\ Len(TokensOf(Close(t), 0)) = IF t \in SizeFirst THEN 0 ELSE 2
        /\ t \notin SizeFirst => /\ TokensOf(Close(t), 0)[1].what = "size"
                                 /\ TokensOf(Close(t), 0)[2].what = Total[t]
    BY <2>2, <2>3, CloseTokens
  <2> QED
    BY <2>2, <2>4
<1> HIDE DEF a
<1>9. /\ off[0] = 0 /\ off[n + 2] = 3 * n + 5 /\ \A i \in 1..(n + 1) : off[i] = a + 3 * (i - 1)
      /\ off \in [0..(n + 2) -> Nat]
  BY <1>4
<1> HIDE DEF off
<1>10. Offsets(off, s, n + 2)
  <2>1. ASSUME NEW i \in 1..(n + 2) PROVE off[i] = off[i - 1] + Len(s[i])
    <3>1. CASE i = 1
      <4>1. off[1] = a + 3 * (1 - 1) /\ 1 - 1 = 0
        BY <1>9
      <4> QED
        BY <1>4, <1>6, <1>9, <3>1, <4>1
    <3>2. CASE i \in 2..(n + 1)
      <4>1. i - 1 \in 1..n /\ 1 + (i - 1) = i /\ i - 1 \in 1..(n + 1) /\ i \in 1..(n + 1)
        BY <3>2
      <4>2. Len(s[i]) = 3
        BY <1>7, <4>1
      <4>3. off[i] = a + 3 * (i - 1) /\ off[i - 1] = a + 3 * (i - 1 - 1)
        BY <1>9, <4>1
      <4> QED
        BY <1>4, <4>1, <4>2, <4>3
    <3>3. CASE i = n + 2
      <4>1. i - 1 = n + 1 /\ n + 1 \in 1..(n + 1)
        BY <3>3
      <4>2. off[n + 1] = a + 3 * (n + 1 - 1)
        BY <1>9, <4>1
      <4>3. Len(s[n + 2]) = 5 - a
        BY <1>4, <1>8
      <4> QED
        BY <1>4, <1>9, <3>3, <4>1, <4>2, <4>3
    <3> QED
      BY <3>1, <3>2, <3>3
  <2> QED
    BY <1>9, <2>1 DEF Offsets
<1>11. Placed(ts, off, s, n + 2, Tok(W))
  <2>1. n + 2 \in Nat /\ n + 2 # 0
    OBVIOUS
  <2>2. ts = Seqs!FlattenSeq(s)
    BY DEF Tokens, Parts, s
  <2> QED
    BY <1>5, <1>10, <2>1, <2>2, FlattenAt
<1> HIDE DEF ts
<1>12. \A i \in 1..(n + 2) : \A x \in 1..Len(s[i]) : ts[off[i - 1] + x] = s[i][x]
  BY <1>11 DEF Placed
<1>13. ASSUME NEW j \in 1..n
       PROVE  ts[a + 3 * j - 2] = Token("object", 1, <<t, k + j>>)
  <2>1. 1 + j \in 1..(n + 2) /\ 1 + j - 1 = j /\ j \in 1..(n + 1) /\ 1 \in 1..3
    OBVIOUS
  <2>2. off[j] + 1 = a + 3 * j - 2
    <3>1. off[j] = a + 3 * (j - 1)
      BY <1>9, <2>1
    <3> QED
      BY <1>4, <2>1, <3>1
  <2>3. ts[off[1 + j - 1] + 1] = s[1 + j][1]
    <3>1. Len(s[1 + j]) = 3
      BY <1>7
    <3>2. 1 \in 1..Len(s[1 + j])
      BY <2>1, <3>1
    <3> QED
      BY <1>12, <2>1, <3>2
  <2> QED
    BY <1>7, <2>1, <2>2, <2>3
<1>14. ASSUME a = 3 PROVE ts[3 * n + 4].what = "size" /\ ts[3 * n + 5].what = Total[t]
  <2>1. n + 2 \in 1..(n + 2) /\ n + 2 - 1 = n + 1 /\ n + 1 \in 1..(n + 1)
    OBVIOUS
  <2>2. off[n + 1] = 3 * n + 3
    <3>1. off[n + 1] = a + 3 * (n + 1 - 1)
      BY <1>9, <2>1
    <3> QED
      BY <1>14, <3>1
  <2>3. Len(s[n + 2]) = 2 /\ 1 \in 1..2 /\ 2 \in 1..2
    BY <1>4, <1>8, <1>14
  <2>4. ts[off[n + 1] + 1] = s[n + 2][1] /\ ts[off[n + 1] + 2] = s[n + 2][2]
    BY <1>12, <2>1, <2>3
  <2>5. off[n + 1] + 1 = 3 * n + 4 /\ off[n + 1] + 2 = 3 * n + 5
    BY <2>2
  <2> QED
    BY <1>4, <1>8, <1>14, <2>4, <2>5
<1>15. Len(ts) = 3 * n + 5
  BY <1>9, <1>11 DEF Placed
<1>16. ASSUME NEW j \in 1..n
       PROVE  ts[a + 3 * j - 2].type = "object" /\ ts[a + 3 * j - 2].size = 1
              /\ ts[a + 3 * j - 2].what = <<t, k + j>>
  <2>1. \A x : Token("object", 1, x).type = "object" /\ Token("object", 1, x).size = 1
               /\ Token("object", 1, x).what = x
    BY DEF Token
  <2> DEFINE r == <<t, k + j>>
  <2>2. ts[a + 3 * j - 2] = Token("object", 1, r)
    BY <1>13
  <2> HIDE DEF r
  <2>3. ts[a + 3 * j - 2].type = "object" /\ ts[a + 3 * j - 2].size = 1 /\ ts[a + 3 * j - 2].what = r
    BY <2>1, <2>2
  <2> QED
    BY <2>3 DEF r
<1>17. Read(ts, a, t, k, n)
  <2>1. a \in {3, 5} /\ Array(ts) = a /\ ts[a].size = n /\ Len(ts) = 3 * n + 5
    BY <1>3, <1>4, <1>15
  <2>2. a = 5 => StartsWithSize(ts) /\ ts[3].what = Total[t]
    BY <1>3, <1>4
  <2>3. a = 3 => ~StartsWithSize(ts) /\ ts[3 * n + 4].what = "size" /\ ts[3 * n + 5].what = Total[t]
    BY <1>3, <1>4, <1>14
  <2> QED
    BY <1>16, <2>1, <2>2, <2>3 DEF Read
<1> QED
  BY <1>17 DEF ts

LEMMA RoundsAre ==
  ASSUME NEW ts, NEW a, NEW t, NEW k, NEW n \in Nat, Read(ts, a, t, k, n)
  PROVE  /\ DOMAIN Rounds(ts) = 0..n
         /\ \A j \in 0..n : Rounds(ts)[j] = a + 1 + 3 * j
<1> DEFINE at == Rounds(ts)
           S == {j \in 0..n : at[j] = a + 1 + 3 * j}
<1>1. a \in {3, 5} /\ Array(ts) = a /\ ts[a].size = n /\ Len(ts) = 3 * n + 5
  BY DEF Read
<1>2. Goes(at, ts, n)
  BY <1>1, RoundsIs
<1> HIDE DEF at
<1>3. DOMAIN at = 0..n /\ \A j \in 0..n : at[j] = IF j = 0 THEN a + 1 ELSE Past(ts, at[j - 1])
  BY <1>1, <1>2 DEF Goes
<1>4. 0 \in S
  <2>1. 0 \in 0..n
    OBVIOUS
  <2> QED
    BY <1>1, <1>3, <2>1
<1>5. ASSUME NEW j \in 1..n, j - 1 \in S PROVE j \in S
  <2> DEFINE i == a + 3 * j - 2
  <2>1. at[j - 1] = i
    BY <1>1, <1>5
  <2>2. ts[i].type = "object" /\ ts[i].size = 1
    BY DEF Read
  <2>3. i \in Nat /\ i <= Len(ts) /\ i + 1 + 2 * 1 = a + 1 + 3 * j
    BY <1>1
  <2>4. at[j] = Past(ts, at[j - 1]) /\ j \in 0..n
    BY <1>3
  <2> HIDE DEF i
  <2>5. Past(ts, i) = i + 1 + 2 * 1
    BY <2>2, <2>3 DEF Past
  <2> QED
    BY <2>1, <2>3, <2>4, <2>5
<1>6. 0..n \subseteq S
  <2> HIDE DEF S
  <2> QED
    BY <1>4, <1>5, Upwards
<1> QED
  BY <1>3, <1>6 DEF at

(* print1 prints the rows of the answer, and learns how many there are.    *)
LEMMA RowsIs ==
  ASSUME NEW b, NEW t, NEW k, NEW n \in Nat, Data(b, t, k, n), Tricky = {}
  PROVE  Rows(b) = [j \in 1..n |-> <<t, k + j>>]
<1> DEFINE ts == Tokens(b)
           at == Rounds(ts)
           S == {j \in (DOMAIN at) \ {0} : at[j] # at[j - 1]}
           c == Cardinality(S)
<1>1. PICK a : Read(ts, a, t, k, n)
  BY TokensIs
<1>2. DOMAIN at = 0..n /\ \A j \in 0..n : at[j] = a + 1 + 3 * j
  BY <1>1, RoundsAre
<1>3. Rows(b) = [j \in 1..c |-> ts[at[j - 1]].what]
  BY Zenon DEF Rows
<1> HIDE DEF ts
<1> HIDE DEF at
<1>4. a \in {3, 5}
  BY <1>1 DEF Read
<1>5. \A j \in 1..n : at[j - 1] = a + 3 * j - 2 /\ at[j] # at[j - 1]
  <2>1. TAKE j \in 1..n
  <2>2. j \in 0..n /\ j - 1 \in 0..n
    OBVIOUS
  <2>3. at[j] = a + 1 + 3 * j /\ at[j - 1] = a + 1 + 3 * (j - 1)
    BY <1>2, <2>2
  <2> QED
    BY <1>4, <2>3
<1>6. S = 1..n
  <2>1. \A j : j \in 0..n /\ j # 0 <=> j \in 1..n
    OBVIOUS
  <2> QED
    BY <1>2, <1>5, <2>1
<1> HIDE DEF S
<1>7. c = n
  <2>1. Cardinality(1..n) = n
    BY FS_Interval
  <2> QED
    BY <1>6, <2>1
<1>8. \A j \in 1..n : ts[at[j - 1]].what = <<t, k + j>>
  BY <1>1, <1>5 DEF Read
<1> HIDE DEF c
<1> QED
  BY <1>3, <1>7, <1>8

LEMMA SizeIs ==
  ASSUME NEW b, NEW t, NEW k, NEW n \in Nat, Data(b, t, k, n), Tricky = {}, NEW m
  PROVE  Size(b, m) \in {Total[t], m} /\ (m = 0 => Size(b, m) = Total[t])
<1> DEFINE ts == Tokens(b)
           at == Rounds(ts)
           i == at[ts[Array(ts)].size]
<1>1. PICK a : Read(ts, a, t, k, n)
  BY TokensIs
<1>2. \A j \in 0..n : at[j] = a + 1 + 3 * j
  BY <1>1, RoundsAre
<1>3. Size(b, m) = IF StartsWithSize(ts) THEN ts[3].what
                   ELSE IF m = 0 /\ i <= Len(ts) /\ ts[i].what = "size" THEN ts[i + 1].what ELSE m
  BY Zenon DEF Size
<1> HIDE DEF ts
<1> HIDE DEF at
<1>4. a \in {3, 5} /\ Len(ts) = 3 * n + 5 /\ i = a + 1 + 3 * n
  <2>1. n \in 0..n
    OBVIOUS
  <2>2. a \in {3, 5} /\ Len(ts) = 3 * n + 5 /\ i = at[n]
    BY <1>1 DEF Read
  <2> QED
    BY <1>2, <2>1, <2>2
<1> HIDE DEF i
<1>5. CASE a = 5
  <2>1. StartsWithSize(ts) /\ ts[3].what = Total[t]
    BY <1>1, <1>5 DEF Read
  <2> QED
    BY <1>3, <2>1
<1>6. CASE a = 3
  <2>1. ~StartsWithSize(ts) /\ ts[3 * n + 4].what = "size" /\ ts[3 * n + 5].what = Total[t]
    BY <1>1, <1>6 DEF Read
  <2>2. i = 3 * n + 4 /\ i + 1 = 3 * n + 5 /\ i <= Len(ts)
    BY <1>4, <1>6
  <2>3. ts[i].what = "size" /\ ts[i + 1].what = Total[t]
    BY <2>1, <2>2
  <2> QED
    BY <1>3, <2>1, <2>2, <2>3
<1> QED
  BY <1>4, <1>5, <1>6

-----------------------------------------------------------------------------
(* Types, and the room there is in the buffer.                             *)

LEMMA AnswerTyped ==
  ASSUME NEW t \in Isins, NEW k \in Nat
  PROVE  Answer(t, k) \in Seq(Sym)
<1> DEFINE n == Held(t, k)
           s == [j \in 1..n |-> Symbols(<<t, k + j>>)]
           head == <<Bo1, Bo2, Noise, Comma, Open(t)>>
           mid == Seqs!FlattenSeq(s)
           tail == <<Close(t), Eo1, Eo2, Noise>>
<1>0. n \in Nat
  BY HeldIs
<1>1. Answer(t, k) = head \o mid \o tail
  <2>1. 1..(Upto(t, k) - k) = 1..n
    BY HeldIs DEF Held
  <2> HIDE DEF n
  <2> QED
    BY <2>1, Zenon DEF Answer
<1> HIDE DEF n
<1>2. Sequences(s, n, Sym)
  <2>1. Len(s) = n /\ \A j \in 1..n : s[j] = Symbols(<<t, k + j>>)
    BY <1>0
  <2>2. ASSUME NEW j \in 1..n PROVE s[j] \in Seq(Sym)
    <3> DEFINE r == <<t, k + j>>
    <3>1. r \in Isins \X Nat
      BY <1>0
    <3> HIDE DEF r
    <3>2. {Half(r), Eo1, Eo2, Row(r)} \subseteq Sym
      BY <3>1 DEF Sym, Plain
    <3>3. <<Half(r), Eo1, Eo2, Row(r)>> \in Seq(Sym) /\ <<Row(r)>> \in Seq(Sym)
      BY <3>2
    <3>4. s[j] = Symbols(r)
      BY <2>1 DEF r
    <3> QED
      BY <3>3, <3>4 DEF Symbols
  <2> HIDE DEF s
  <2> QED
    BY <2>1, <2>2 DEF Sequences
<1>3. mid \in Seq(Sym)
  <2>1. CASE n = 0
    <3>1. s = <<>>
      BY <2>1
    <3>2. <<>> \in Seq(Sym) /\ Len(<<>>) = 0
      OBVIOUS
    <3> HIDE DEF s
    <3>3. mid = s
      BY <3>1 DEF Seqs!FlattenSeq
    <3> HIDE DEF mid
    <3> QED
      BY <3>1, <3>2, <3>3
  <2>2. CASE n # 0
    <3> HIDE DEF s
    <3> DEFINE c == 1
    <3>4. c \in 1..n /\ \A i \in 1..(c - 1) : s[i] = <<>>
      BY <1>0, <2>2
    <3> HIDE DEF c
    <3> QED
      BY <1>0, <1>2, <2>2, <3>4, FlattenBegins
  <2> QED
    BY <2>1, <2>2
<1> HIDE DEF s, mid
<1>4. head \in Seq(Sym) /\ tail \in Seq(Sym)
  <2>1. {Bo1, Bo2, Noise, Comma, Open(t), Eo1, Eo2, Close(t)} \subseteq Sym
    BY DEF Sym, Plain
  <2> QED
    BY <2>1
<1> HIDE DEF head, tail
<1>5. head \o mid \in Seq(Sym)
  BY <1>3, <1>4, Joined
<1>6. head \o mid \o tail \in Seq(Sym)
  BY <1>4, <1>5, Joined
<1> QED
  BY <1>1, <1>6

LEMMA Part ==
  ASSUME NEW T, NEW s \in Seq(T), NEW a \in Nat \ {0}, NEW b \in Nat, b <= Len(s)
  PROVE  /\ SubSeq(s, a, b) \in Seq(T) /\ Len(SubSeq(s, a, b)) = IF a <= b THEN b - a + 1 ELSE 0
         /\ \A o \in 1..(b - a + 1) : SubSeq(s, a, b)[o] = s[a + o - 1]
<1>1. Len(s) \in Nat
  BY LenProperties
<1>2. \A o \in a..b : s[o] \in T
  BY <1>1, ElementOfSeq
<1> QED
  BY <1>1, <1>2, SubSeqProperties

LEMMA TakeTyped ==
  ASSUME NEW data \in Seq(Sym), NEW sp \in 1..(Len(data) + 1), NEW b \in Seq(Sym),
         buf \in Seq(Sym), bsz \in Nat, Take(data, sp, b)
  PROVE  /\ st' \in {"UNK", "TRX"} /\ aborted' \in BOOLEAN
         /\ buf' \in Seq(Sym) /\ bsz' \in Nat /\ bsz <= bsz'
         /\ Len(b) <= bsz /\ Len(buf) <= bsz /\ Len(data) <= bsz => Len(buf') <= bsz'
<1> DEFINE found == Memmem(data, Eo1, Eo2)
           whole == found < sp
           ep == IF whole THEN Len(data) + 1 ELSE Rewind(data, found)
           new == b \o SubSeq(data, sp, ep - 1)
<1>0. Len(data) \in Nat /\ Len(b) \in Nat /\ Len(buf) \in Nat
  BY LenProperties
<1>1. /\ st' = IF whole THEN "TRX" ELSE "UNK"
      /\ aborted' = (ep < sp)
      /\ IF ep < sp THEN UNCHANGED <<buf, bsz>> ELSE buf' = new /\ bsz' = Grown(Len(new))
  BY Zenon DEF Take
<1>2. ep \in 1..(Len(data) + 1)
  <2>1. found = 0 \/ found \in 1..(Len(data) - 1)
    BY <1>0, MemmemRange
  <2> HIDE DEF found
  <2>2. ~whole => found \in Nat /\ found # 0 /\ found <= Len(data)
    BY <1>0, <2>1
  <2>3. ~whole => Rewind(data, found) \in 1..found
    BY <2>2, RewindRange
  <2> QED
    BY <1>0, <2>2, <2>3
<1> HIDE DEF ep
<1>3. CASE ep < sp
  BY <1>0, <1>1, <1>3
<1>4. CASE ~(ep < sp)
  <2> DEFINE z == SubSeq(data, sp, ep - 1)
  <2>1. z \in Seq(Sym) /\ Len(z) \in Nat /\ Len(z) <= Len(data)
    <3>1. sp \in Nat \ {0} /\ ep - 1 \in Nat /\ ep - 1 <= Len(data)
      BY <1>0, <1>2
    <3>2. z \in Seq(Sym) /\ Len(z) = IF sp <= ep - 1 THEN ep - 1 - sp + 1 ELSE 0
      BY <3>1, Part
    <3> HIDE DEF z
    <3> QED
      BY <1>0, <1>2, <3>1, <3>2
  <2>2. new = b \o z
    OBVIOUS
  <2> HIDE DEF z, new
  <2>3. new \in Seq(Sym) /\ Len(new) = Len(b) + Len(z)
    BY <2>1, <2>2, Joined
  <2>4. buf' = new /\ bsz' = IF Len(new) > bsz THEN bsz * 2 ELSE bsz
    BY <1>1, <1>4 DEF Grown
  <2> QED
    BY <1>0, <1>1, <2>1, <2>3, <2>4
<1> QED
  BY <1>3, <1>4

LEMMA RecvTyped ==
  ASSUME NEW data \in Seq(Sym), st \in {"UNK", "TRX"}, aborted \in BOOLEAN,
         buf \in Seq(Sym), bsz \in Nat, recv_cb(data)
  PROVE  /\ st' \in {"UNK", "TRX"} /\ aborted' \in BOOLEAN
         /\ buf' \in Seq(Sym) /\ bsz' \in Nat /\ bsz <= bsz'
         /\ Len(buf) <= bsz /\ Len(data) <= bsz => Len(buf') <= bsz'
<1>0. Len(data) \in Nat /\ <<>> \in Seq(Sym) /\ Len(<<>>) = 0 /\ Len(buf) \in Nat
  BY LenProperties
<1>1. CASE UNCHANGED recvVars
  BY <1>0, <1>1 DEF recvVars
<1>2. CASE Begin(data)
  <2> DEFINE m == Memmem(data, Bo1, Bo2)
             sp == FastForward(data, m)
  <2>1. m # 0 /\ Take(data, sp, <<>>)
    BY <1>2 DEF Begin
  <2>2. m \in 1..(Len(data) - 1)
    BY <1>0, <2>1, MemmemRange
  <2> HIDE DEF m
  <2>3. m \in 1..Len(data)
    BY <1>0, <2>2
  <2>4. sp \in m..(Len(data) + 1)
    BY <1>0, <2>3, FastForwardRange
  <2> HIDE DEF sp
  <2>5. sp \in 1..(Len(data) + 1)
    BY <1>0, <2>3, <2>4
  <2> DEFINE b == <<>>
  <2>6. b \in Seq(Sym) /\ Take(data, sp, b) /\ Len(b) = 0
    BY <1>0, <2>1
  <2> HIDE DEF b
  <2>7. Len(b) <= bsz
    BY <2>6
  <2> QED
    BY <2>5, <2>6, <2>7, TakeTyped
<1>3. CASE Continue(data)
  <2>1. Take(data, 1, buf) /\ 1 \in 1..(Len(data) + 1)
    BY <1>0, <1>3 DEF Continue
  <2> DEFINE sp == 1
  <2>2. sp \in 1..(Len(data) + 1) /\ Take(data, sp, buf)
    BY <2>1
  <2> HIDE DEF sp
  <2> QED
    BY <2>2, TakeTyped
<1> QED
  BY <1>1, <1>2, <1>3 DEF recv_cb, Waiting, Another

TypeOK ==
  /\ pc \in {"repl", "fetch", "recv", "print", "parsing", "done"} /\ raw \in BOOLEAN
  /\ cur \in 0..Len(Sids) /\ (pc \in {"fetch", "recv", "print"} => cur # 0)
  /\ iitem \in Nat /\ rest \in Seq(Sym) /\ curl \in BOOLEAN
  /\ bid \in Nat /\ bad \in Nat /\ calm \in BOOLEAN /\ fresh \in BOOLEAN
  /\ rcs \in Seq({0, 1})
  /\ st \in {"UNK", "TRX"} /\ buf \in Seq(Sym) /\ bsz \in Nat /\ aborted \in BOOLEAN

LEMMA SidIs ==
  ASSUME TypeOK, cur # 0
  PROVE  sid \in Isins
BY SidAssumption DEF TypeOK, sid, Isins

\* What a step leaves of the buffer.
Stays == UNCHANGED recvVars

LEMMA TypedStays ==
  ASSUME TypeOK, Stays
  PROVE  (st \in {"UNK", "TRX"} /\ buf \in Seq(Sym) /\ bsz \in Nat /\ aborted \in BOOLEAN)'
BY DEF TypeOK, Stays, recvVars

LEMMA TypedInit ==
  ASSUME Init
  PROVE  TypeOK
<1>1. <<>> \in Seq(Sym) /\ <<>> \in Seq({0, 1}) /\ Len(<<>>) = 0
  OBVIOUS
<1>2. Len(Sids) \in Nat /\ InitialSize \in Nat
  BY SidAssumption, SizeAssumption
<1>3. /\ pc = "repl" /\ raw \in BOOLEAN /\ cur = 0 /\ calm = TRUE /\ iitem = 0
      /\ curl = TRUE /\ bid = 0 /\ bad = 0 /\ fresh = FALSE
      /\ st = "UNK" /\ bsz = InitialSize /\ aborted = FALSE
      /\ rest = <<>> /\ rcs = <<>> /\ buf = <<>>
  BY DEF Init, RecvInit
<1>4. rest \in Seq(Sym) /\ buf \in Seq(Sym) /\ rcs \in Seq({0, 1}) /\ Len(buf) = 0
  BY <1>1, <1>3
<1>5. /\ pc \in {"repl", "fetch", "recv", "print", "parsing", "done"} /\ st \in {"UNK", "TRX"}
      /\ pc \notin {"fetch", "recv", "print"} /\ cur \in 0..Len(Sids)
  BY <1>2, <1>3
<1>6. /\ iitem \in Nat /\ curl \in BOOLEAN /\ bid \in Nat /\ bad \in Nat
      /\ calm \in BOOLEAN /\ fresh \in BOOLEAN /\ bsz \in Nat /\ aborted \in BOOLEAN
  <2>1. 0 \in Nat
    OBVIOUS
  <2> QED
    BY <1>2, <1>3, <2>1, Zenon
<1> QED
  BY <1>3, <1>4, <1>5, <1>6, Zenon DEF TypeOK

LEMMA TypedFetch ==
  ASSUME TypeOK, Fetch
  PROVE  TypeOK' /\ Stays
<1>1. /\ pc = "fetch" /\ pc' = "recv" /\ bid' = bid + 1
      /\ UNCHANGED <<raw, cur, iitem, nitem, out, rcs, recvVars>>
  BY DEF Fetch
<1>2. Stays
  BY <1>1 DEF Stays
<1>3. sid \in Isins /\ iitem \in Nat
  BY <1>1, SidIs DEF TypeOK
<1>4. ASSUME NEW how, NEW body \in Seq(Sym), NEW ok \in BOOLEAN, Reply(how, body, ok)
      PROVE  rest' \in Seq(Sym) /\ curl' \in BOOLEAN /\ calm' \in BOOLEAN /\ fresh' \in BOOLEAN /\ bad' \in Nat
  BY <1>4 DEF Reply, TypeOK
<1>5. rest' \in Seq(Sym) /\ curl' \in BOOLEAN /\ calm' \in BOOLEAN /\ fresh' \in BOOLEAN /\ bad' \in Nat
  <2> DEFINE answer == Answer(sid, iitem)
  <2>1. answer \in Seq(Sym)
    BY <1>3, AnswerTyped
  <2>2. <<>> \in Seq(Sym) /\ ErrorPage \in Seq(Sym)
    <3>1. Noise \in Sym
      BY DEF Sym, Plain
    <3> QED
      BY <3>1 DEF ErrorPage
  <2>3. ASSUME NEW n \in 1..(Len(answer) - 1) PROVE SubSeq(answer, 1, n) \in Seq(Sym)
    <3> HIDE DEF answer
    <3> DEFINE a == 1
    <3>1. Len(answer) \in Nat
      BY <2>1, LenProperties
    <3>2. a \in Nat \ {0} /\ n \in Nat /\ n <= Len(answer)
      BY <2>3, <3>1
    <3> HIDE DEF a
    <3>3. SubSeq(answer, a, n) \in Seq(Sym)
      BY <2>1, <3>2, Part
    <3> QED
      BY <3>3 DEF a
  <2>4. \/ Reply("page", answer, TRUE)
        \/ Reply("refused", <<>>, FALSE)
        \/ Reply("error", ErrorPage, TRUE)
        \/ \E n \in 1..(Len(answer) - 1) : Reply("cut", SubSeq(answer, 1, n), FALSE)
    BY Zenon DEF Fetch
  <2> HIDE DEF answer
  <2>5. CASE Reply("page", answer, TRUE)
    BY <1>4, <2>1, <2>5
  <2>6. CASE Reply("refused", <<>>, FALSE)
    BY <1>4, <2>2, <2>6
  <2>7. CASE Reply("error", ErrorPage, TRUE)
    BY <1>4, <2>2, <2>7
  <2>8. CASE \E n \in 1..(Len(answer) - 1) : Reply("cut", SubSeq(answer, 1, n), FALSE)
    <3>1. PICK n \in 1..(Len(answer) - 1) : Reply("cut", SubSeq(answer, 1, n), FALSE)
      BY <2>8
    <3> QED
      BY <1>4, <2>3, <3>1
  <2> QED
    BY <2>4, <2>5, <2>6, <2>7, <2>8
<1> QED
  BY <1>1, <1>2, <1>5, TypedStays DEF TypeOK

(* And the room there is for what a chunk adds to the buffer.              *)
LEMMA TypedChunk ==
  ASSUME TypeOK, Chunk
  PROVE  /\ TypeOK'
         /\ Len(buf) <= bsz /\ Len(rest) - Len(rest') <= bsz => Len(buf') <= bsz'
<1>0. Len(rest) \in Nat /\ Len(buf) \in Nat
  BY LenProperties DEF TypeOK
<1>1. PICK k \in 1..(IF Len(rest) < MaxChunk THEN Len(rest) ELSE MaxChunk) :
        /\ fresh' = (fresh /\ CleanCut(k))
        /\ calm' = (calm /\ CleanCut(k))
        /\ IF raw THEN UNCHANGED recvVars ELSE recv_cb(SubSeq(rest, 1, k))
        /\ rest' = SubSeq(rest, k + 1, Len(rest))
  BY DEF Chunk
<1>2. UNCHANGED <<pc, raw, cur, iitem, nitem, curl, bid, bad, out, rcs>>
  BY DEF Chunk
<1>3. k \in Nat /\ k <= Len(rest) /\ k <= MaxChunk /\ k + 1 \in Nat \ {0} /\ MaxChunk \in Nat
  BY <1>0, PageAssumption
<1> DEFINE data == SubSeq(rest, 1, k)
<1>4. data \in Seq(Sym) /\ Len(data) = k
  <2> DEFINE a == 1
  <2>1. a \in Nat \ {0} /\ (IF a <= k THEN k - a + 1 ELSE 0) = k
    BY <1>3
  <2> HIDE DEF a
  <2>2. rest \in Seq(Sym)
    BY DEF TypeOK
  <2>3. SubSeq(rest, a, k) \in Seq(Sym) /\ Len(SubSeq(rest, a, k)) = IF a <= k THEN k - a + 1 ELSE 0
    BY <1>3, <2>1, <2>2, Part
  <2> QED
    BY <2>1, <2>3 DEF a
<1>5. rest' \in Seq(Sym)
  <2>1. PICK a \in Nat \ {0} : a = k + 1
    BY <1>3
  <2>2. SubSeq(rest, a, Len(rest)) \in Seq(Sym)
    BY <1>0, Part DEF TypeOK
  <2> QED
    BY <1>1, <2>1, <2>2
<1>6. /\ st' \in {"UNK", "TRX"} /\ aborted' \in BOOLEAN
      /\ buf' \in Seq(Sym) /\ bsz' \in Nat /\ bsz <= bsz'
      /\ Len(buf) <= bsz /\ Len(data) <= bsz => Len(buf') <= bsz'
  <2>1. CASE raw
    BY <1>0, <1>1, <2>1 DEF TypeOK, recvVars
  <2>2. CASE ~raw
    <3>1. recv_cb(data)
      BY <1>1, <2>2
    <3> HIDE DEF data
    <3> QED
      BY <1>4, <3>1, RecvTyped DEF TypeOK
  <2> QED
    BY <2>1, <2>2
<1>7. Len(rest) - Len(rest') = k
  <2>1. PICK a \in Nat \ {0} : a = k + 1
    BY <1>3
  <2>2. Len(SubSeq(rest, a, Len(rest))) = IF a <= Len(rest) THEN Len(rest) - a + 1 ELSE 0
    BY <1>0, Part DEF TypeOK
  <2> QED
    BY <1>0, <1>1, <1>3, <2>1, <2>2
<1>8. calm' \in BOOLEAN /\ fresh' \in BOOLEAN
  BY <1>1 DEF TypeOK
<1>9. Len(buf) <= bsz /\ Len(rest) - Len(rest') <= bsz => Len(buf') <= bsz'
  <2> HIDE DEF data
  <2> QED
    BY <1>4, <1>6, <1>7
<1>10. TypeOK'
  BY <1>2, <1>5, <1>6, <1>8 DEF TypeOK
<1> QED
  BY <1>9, <1>10

LEMMA TypedPrint ==
  ASSUME TypeOK, PrintPage
  PROVE  TypeOK' /\ Stays
<1>1. /\ pc = "print" /\ Valid(buf)
      /\ iitem' = iitem + Len(Rows(buf))
      /\ (pc' = "fetch" /\ rcs' = rcs) \/ (pc' = "repl" /\ rcs' = Append(rcs, 0))
      /\ UNCHANGED <<callVars, rest, curl, bid, bad, fresh, recvVars>>
  <2>1. /\ pc = "print" /\ Valid(buf)
        /\ iitem' = iitem + Len(Rows(buf))
    BY Zenon DEF PrintPage
  <2>2. /\ More => pc' = "fetch" /\ rcs' = rcs
        /\ ~More => Return(0)
        /\ UNCHANGED <<callVars, rest, curl, bid, bad, fresh, recvVars>>
    BY DEF PrintPage
  <2>3. (pc' = "fetch" /\ rcs' = rcs) \/ (pc' = "repl" /\ rcs' = Append(rcs, 0))
    <3>1. CASE More
      BY <2>2, <3>1
    <3>2. CASE ~More
      BY <2>2, <3>2 DEF Return
    <3> QED
      BY <3>1, <3>2
  <2> QED
    BY <2>1, <2>2, <2>3, Zenon
<1>2. Stays
  BY <1>1 DEF Stays
<1>3. iitem' \in Nat
  <2>1. Len(buf) \in Nat /\ First(buf) <= Len(buf) /\ buf[First(buf)][1] = "open"
    BY <1>1, LenProperties DEF TypeOK, Valid, StartsWith
  <2>2. First(buf) \in 1..Len(buf) /\ \A m \in 1..(First(buf) - 1) : buf[m] = Comma
    BY <2>1, FirstIs
  <2>3. Len(Rows(buf)) \in Nat
    BY <2>1, <2>2, RowsCounted
  <2> QED
    BY <1>1, <2>3 DEF TypeOK
<1>4. rcs' \in Seq({0, 1})
  <2>1. rcs \in Seq({0, 1}) /\ 0 \in {0, 1}
    BY DEF TypeOK
  <2>2. Append(rcs, 0) \in Seq({0, 1})
    BY <2>1, AppendProperties
  <2> QED
    BY <1>1, <2>1, <2>2
<1> QED
  BY <1>1, <1>2, <1>3, <1>4, TypedStays DEF TypeOK, callVars

\* A page of no tokens.
LEMMA PrintedNothing ==
  ASSUME PrintNothing
  PROVE  /\ pc = "print" /\ ~raw /\ Blank(buf) /\ iitem' = iitem
         /\ (pc' = "fetch" /\ rcs' = rcs) \/ (pc' = "repl" /\ rcs' = Append(rcs, 0))
         /\ UNCHANGED <<callVars, rest, curl, bid, bad, fresh, out, recvVars>>
<1>1. /\ pc = "print" /\ ~raw /\ Blank(buf) /\ iitem' = iitem
      /\ UNCHANGED <<callVars, rest, curl, bid, bad, fresh, out, recvVars>>
  BY Zenon DEF PrintNothing
<1>2. (More => pc' = "fetch" /\ rcs' = rcs) /\ (~More => Return(0))
  BY DEF PrintNothing
<1>3. (pc' = "fetch" /\ rcs' = rcs) \/ (pc' = "repl" /\ rcs' = Append(rcs, 0))
  BY <1>2 DEF Return
<1> QED
  BY <1>1, <1>3, Zenon

LEMMA TypedNext ==
  ASSUME TypeOK, [Next]_vars
  PROVE  TypeOK'
<1> USE DEF callVars
<1>1. CASE NextSid
  <2>1. Stays
    BY <1>1 DEF NextSid, Stays
  <2>2. cur' \in 0..Len(Sids) /\ cur' # 0
    BY <1>1, SidAssumption DEF NextSid, TypeOK
  <2> QED
    BY <1>1, <2>1, <2>2, TypedStays DEF NextSid, TypeOK
<1>2. CASE Exit
  <2>1. Stays
    BY <1>2 DEF Exit, Stays
  <2> QED
    BY <1>2, <2>1, TypedStays DEF Exit, TypeOK
<1>3. CASE Fetch
  BY <1>3, TypedFetch, TypedStays
<1>4. CASE Chunk
  BY <1>4, TypedChunk
<1>5. CASE TransferFails \/ PrintRaw \/ PrintInvalid
  <2>1. Stays /\ pc' = "repl" /\ UNCHANGED <<callVars, iitem, rest, curl, bid, bad, fresh>>
        /\ (rcs' = Append(rcs, 0) \/ rcs' = Append(rcs, 1))
    BY <1>5 DEF TransferFails, PrintRaw, PrintInvalid, Stays, Return
  <2>2. rcs' \in Seq({0, 1})
    <3>1. rcs \in Seq({0, 1}) /\ 0 \in {0, 1} /\ 1 \in {0, 1}
      BY DEF TypeOK
    <3>2. Append(rcs, 0) \in Seq({0, 1}) /\ Append(rcs, 1) \in Seq({0, 1})
      BY <3>1, AppendProperties
    <3> QED
      BY <2>1, <3>2
  <2> QED
    BY <2>1, <2>2, TypedStays DEF TypeOK
<1>6. CASE TransferEnds
  <2>1. Stays
    BY <1>6 DEF TransferEnds, Stays
  <2> QED
    BY <1>6, <2>1, TypedStays DEF TransferEnds, TypeOK
<1>7. CASE PrintPage
  BY <1>7, TypedPrint, TypedStays
<1>8. CASE UNCHANGED vars
  <2>1. Stays
    BY <1>8 DEF vars, Stays
  <2> QED
    BY <1>8, <2>1, TypedStays DEF vars, TypeOK
<1>9. CASE PrintNothing
  <2>1. Stays /\ UNCHANGED <<callVars, rest, curl, bid, bad, fresh>> /\ iitem' = iitem /\ pc = "print"
        /\ ((pc' = "fetch" /\ rcs' = rcs) \/ (pc' = "repl" /\ rcs' = Append(rcs, 0)))
    BY <1>9, PrintedNothing DEF Stays
  <2>2. Append(rcs, 0) \in Seq({0, 1})
    <3>1. rcs \in Seq({0, 1}) /\ 0 \in {0, 1}
      BY DEF TypeOK
    <3> QED
      BY <3>1, AppendProperties
  <2> QED
    BY <2>1, <2>2, TypedStays DEF TypeOK
<1>10. CASE PrintNever
  <2>1. Stays
    BY <1>10 DEF PrintNever, Stays
  <2> QED
    BY <1>10, <2>1, TypedStays DEF PrintNever, TypeOK
<1> QED
  BY <1>1, <1>2, <1>3, <1>4, <1>5, <1>6, <1>7, <1>8, <1>9, <1>10 DEF Next, Step, Terminated

(* Every variable of the client keeps to its type: Spec => []TypeOK.       *)
THEOREM Typed == Spec => []TypeOK
<1>1. Init => TypeOK
  BY TypedInit
<1>2. TypeOK /\ [Next]_vars => TypeOK'
  BY TypedNext
<1> QED
  BY <1>1, <1>2, PTL DEF Spec

\* After a chunk no longer than the buffer, the buffer is long enough still.
RoomStays == Fits /\ Len(rest) - Len(rest') <= bsz => Fits'

(* Only a chunk that is longer than the buffer is by then can be written   *)
(* behind its end (Fits): what fitted before fits after every other step,  *)
(* whatever has been received, in whatever chunks and wherever they were   *)
(* cut.                                                                    *)
THEOREM RoomKept == Spec => [][RoomStays]_vars
<1>1. ASSUME TypeOK, Step PROVE RoomStays
  <2>1. CASE Chunk
    BY <1>1, <2>1, TypedChunk DEF RoomStays, Fits
  <2>2. CASE ~Chunk
    <3>1. UNCHANGED recvVars
      BY <1>1, <2>2 DEF Step, NextSid, Exit, Fetch, TransferFails, TransferEnds, PrintRaw, PrintInvalid,
                        PrintPage, PrintNothing, PrintNever
    <3> QED
      BY <3>1 DEF recvVars, RoomStays, Fits
  <2> QED
    BY <2>1, <2>2
<1>2. TypeOK /\ [Next]_vars => [RoomStays]_vars
  BY <1>1 DEF Next, Terminated
<1> QED
  BY <1>2, Typed, PTL DEF Spec

-----------------------------------------------------------------------------
(* How recv_cb collects an answer that no chunk cuts up to its brace.      *)

\* data is A from behind p up to q.
Window(data, A, p, q) == /\ data \in Seq(Sym) /\ Len(data) = q - p
                         /\ \A i \in 1..(q - p) : data[i] = A[p + i]

\* a to b is in it.
Within(a, b, data, A, p, q) ==
  /\ A \in Seq(Sym) /\ p \in Nat /\ q \in Nat /\ p <= q /\ q <= Len(A)
  /\ Window(data, A, p, q) /\ a \in Nat \ {0} /\ b \in Nat /\ b <= q - p

Shows(a, b, data, A, p) == SubSeq(data, a, b) = SubSeq(A, p + a, p + b)

LEMMA WindowPart ==
  ASSUME NEW a, NEW b, NEW data, NEW A, NEW p, NEW q, Within(a, b, data, A, p, q)
  PROVE  Shows(a, b, data, A, p)
<1>0. /\ A \in Seq(Sym) /\ p \in Nat /\ q \in Nat /\ p <= q /\ q <= Len(A)
      /\ Window(data, A, p, q) /\ a \in Nat \ {0} /\ b \in Nat /\ b <= q - p
  BY DEF Within
<1>1. data \in Seq(Sym) /\ b <= Len(data) /\ Len(A) \in Nat
  BY <1>0, LenProperties DEF Window
<1>2. /\ SubSeq(data, a, b) \in Seq(Sym) /\ Len(SubSeq(data, a, b)) = IF a <= b THEN b - a + 1 ELSE 0
      /\ \A o \in 1..(b - a + 1) : SubSeq(data, a, b)[o] = data[a + o - 1]
  BY SMTT(30), <1>0, <1>1, Part
<1>3. PICK c \in Nat \ {0} : c = p + a
  BY <1>0
<1>4. PICK d \in Nat : d = p + b
  BY <1>0
<1>5. d <= Len(A)
  BY <1>0, <1>1, <1>4
<1>6. /\ SubSeq(A, c, d) \in Seq(Sym) /\ Len(SubSeq(A, c, d)) = IF c <= d THEN d - c + 1 ELSE 0
      /\ \A o \in 1..(d - c + 1) : SubSeq(A, c, d)[o] = A[c + o - 1]
  BY <1>0, <1>5, Part
<1>7. Len(SubSeq(A, c, d)) = Len(SubSeq(data, a, b)) /\ d - c + 1 = b - a + 1
      /\ Len(SubSeq(A, c, d)) = IF a <= b THEN b - a + 1 ELSE 0
  BY <1>0, <1>2, <1>3, <1>4, <1>6
<1>8. \A o \in 1..(b - a + 1) : data[a + o - 1] = A[c + o - 1]
  <2>1. TAKE o \in 1..(b - a + 1)
  <2>2. a + o - 1 \in 1..(q - p) /\ p + (a + o - 1) = c + o - 1
    BY <1>0, <1>3
  <2> QED
    BY <1>0, <2>2 DEF Window
<1> DEFINE x == SubSeq(data, a, b)
           y == SubSeq(A, c, d)
<1>9. \A o \in 1..Len(x) : x[o] = y[o]
  <2>1. \A o \in 1..Len(x) : o \in 1..(b - a + 1)
    BY <1>0, <1>7
  <2> QED
    BY <1>2, <1>6, <1>7, <1>8, <2>1
<1>10. x \in Seq(Sym) /\ y \in Seq(Sym) /\ Len(x) = Len(y)
  BY <1>2, <1>6, <1>7
<1> HIDE DEF x, y
<1>11. x = y
  BY <1>9, <1>10, SeqEqual
<1> QED
  BY <1>3, <1>4, <1>11 DEF x, y, Shows

\* Where the beacons and the braces of an answer are.
Marks(A, n) ==
  /\ A \in Seq(Sym) /\ Len(A) = n + 9
  /\ \A i \in 1..(n + 9) : (A[i] = Bo1 <=> i = 1) /\ (A[i] = Eo1 <=> i = n + 7)
  /\ A[2] = Bo2 /\ A[n + 8] = Eo2
  /\ \A i \in 1..4 : ~HasBrace(A[i])
  /\ HasBrace(A[5]) /\ EndsInBrace(A[n + 6])

LEMMA MarksAre ==
  ASSUME NEW A, NEW t, NEW k, NEW n \in Nat, Shape(A, t, k, n)
  PROVE  Marks(A, n)
<1>1. /\ A \in Seq(Sym) /\ Len(A) = n + 9
      /\ A[1] = Bo1 /\ A[2] = Bo2 /\ A[3] = Noise /\ A[4] = Comma /\ A[5] = Open(t)
      /\ \A j \in 1..n : A[5 + j] = Row(<<t, k + j>>)
      /\ A[n + 6] = Close(t) /\ A[n + 7] = Eo1 /\ A[n + 8] = Eo2 /\ A[n + 9] = Noise
  BY DEF Shape
<1>2. /\ Bo1 \in Plain /\ Bo2 \in Plain /\ Noise \in Plain /\ Bo1 \in Beacons /\ Eo1 \in Beacons
      /\ Comma \in Plain
      /\ Bo2 \in Beacons /\ Eo2 \in Beacons
  BY DEF Plain, Beacons
<1>3. \A i \in 1..4 : ~HasBrace(A[i])
  BY <1>1, <1>2, PlainOnes
<1>4. HasBrace(A[5]) /\ EndsInBrace(A[n + 6])
  BY <1>1, Braced
<1>5. ASSUME NEW i \in 1..(n + 9) PROVE (A[i] = Bo1 <=> i = 1) /\ (A[i] = Eo1 <=> i = n + 7)
  <2>1. CASE i \in 6..(n + 5)
    <3>1. PICK j \in 1..n : 5 + j = i
      <4>1. i - 5 \in 1..n /\ 5 + (i - 5) = i
        BY <2>1
      <4> QED
        BY <4>1
    <3>2. A[i] = Row(<<t, k + j>>)
      BY <1>1, <3>1
    <3>3. A[i] \notin Beacons
      BY <3>2, Braced
    <3> QED
      BY <1>2, <2>1, <3>3
  <2>2. CASE i = 5 \/ i = n + 6
    <3>1. A[i] \notin Beacons
      BY <1>1, <2>2, Braced
    <3> QED
      BY <1>2, <2>2, <3>1
  <2>3. CASE i \in {1, 2, 3, 4, n + 7, n + 8, n + 9}
    BY <1>1, <1>2, <2>3, PlainOnes
  <2> QED
    BY <2>1, <2>2, <2>3
<1> QED
  BY <1>1, <1>3, <1>4, <1>5 DEF Marks

LEMMA WindowStarts ==
  ASSUME NEW n \in Nat, NEW A, Marks(A, n), NEW p \in Nat, NEW q \in Nat, p <= q, q <= n + 9,
         NEW data, Window(data, A, p, q)
  PROVE  /\ p # 0 => Memmem(data, Bo1, Bo2) = 0
         /\ p = 0 /\ q > 2 => Memmem(data, Bo1, Bo2) = 1
<1>1. Len(data) = q - p /\ Len(data) \in Nat /\ \A i \in 1..(q - p) : data[i] = A[p + i]
  BY DEF Window
<1>2. \A i \in 1..(n + 9) : A[i] = Bo1 <=> i = 1
  BY DEF Marks
<1>3. \A m \in 1..(Len(data) - 1) : /\ p + m \in 1..(n + 9) /\ m \in 1..(q - p)
                                    /\ Matches(data, Bo1, Bo2, m) => p + m = 1
  <2>1. TAKE m \in 1..(Len(data) - 1)
  <2>2. p + m \in 1..(n + 9) /\ m \in 1..(q - p)
    BY <1>1
  <2>3. data[m] = A[p + m]
    BY <1>1, <2>2
  <2> QED
    BY <1>2, <2>2, <2>3 DEF Matches
<1>4. CASE p # 0
  <2>1. \A m \in 1..(Len(data) - 1) : ~Matches(data, Bo1, Bo2, m)
    BY <1>3, <1>4
  <2> QED
    BY <1>4, <2>1, MemmemNone
<1>5. CASE p = 0 /\ q > 2
  <2>1. 1 \in 1..(Len(data) - 1) /\ \A m \in 1..(Len(data) - 1) : Matches(data, Bo1, Bo2, m) => m = 1
    BY <1>1, <1>3, <1>5
  <2>2. Matches(data, Bo1, Bo2, 1)
    <3>1. 1 \in 1..(q - p) /\ 2 \in 1..(q - p) /\ p + 1 = 1 /\ p + 2 = 2 /\ 1 \in 1..(n + 9)
      BY <1>5
    <3>2. data[1] = A[1] /\ data[2] = A[2]
      BY <1>1, <3>1
    <3>3. A[1] = Bo1 /\ A[2] = Bo2
      BY <1>2, <3>1 DEF Marks
    <3> QED
      BY <3>2, <3>3 DEF Matches
  <2> DEFINE c == 1
  <2>3. c \in 1..(Len(data) - 1) /\ Matches(data, Bo1, Bo2, c)
        /\ \A m \in 1..(Len(data) - 1) : Matches(data, Bo1, Bo2, m) => m = c
    BY <2>1, <2>2
  <2> HIDE DEF c
  <2>4. Memmem(data, Bo1, Bo2) = c
    BY <1>1, <2>3, MemmemAt
  <2> QED
    BY <1>5, <2>4 DEF c
<1> QED
  BY <1>4, <1>5

LEMMA WindowEnds ==
  ASSUME NEW n \in Nat, NEW A, Marks(A, n), NEW p \in Nat, NEW q \in Nat, p <= q, q <= n + 9,
         NEW data, Window(data, A, p, q)
  PROVE  /\ q < n + 8 => Memmem(data, Eo1, Eo2) = 0
         /\ q >= n + 8 /\ p < n + 7 => /\ Memmem(data, Eo1, Eo2) = n + 7 - p
                                       /\ Rewind(data, n + 7 - p) = n + 7 - p
<1>1. Len(data) = q - p /\ Len(data) \in Nat /\ \A i \in 1..(q - p) : data[i] = A[p + i]
  BY DEF Window
<1>2. \A i \in 1..(n + 9) : A[i] = Eo1 <=> i = n + 7
  BY DEF Marks
<1>3. \A m \in 1..(Len(data) - 1) : Matches(data, Eo1, Eo2, m) => p + m = n + 7
  <2>1. TAKE m \in 1..(Len(data) - 1)
  <2>2. p + m \in 1..(n + 9) /\ m \in 1..(q - p)
    BY <1>1
  <2>3. data[m] = A[p + m]
    BY <1>1, <2>2
  <2> QED
    BY <1>2, <2>2, <2>3 DEF Matches
<1>4. CASE q < n + 8
  <2>1. \A m \in 1..(Len(data) - 1) : ~Matches(data, Eo1, Eo2, m)
    BY <1>1, <1>3, <1>4
  <2> QED
    BY <1>4, <2>1, MemmemNone
<1>5. CASE q >= n + 8 /\ p < n + 7
  <2>1. PICK c \in Nat \ {0} : c = n + 7 - p
    BY <1>5
  <2>2. c \in 1..(Len(data) - 1)
    BY <1>1, <1>5, <2>1
  <2>3. Matches(data, Eo1, Eo2, c)
    <3>1. /\ c \in 1..(q - p) /\ c + 1 \in 1..(q - p) /\ p + c = n + 7 /\ p + (c + 1) = n + 8
          /\ n + 7 \in 1..(n + 9)
      BY <1>5, <2>1
    <3>2. data[c] = A[n + 7] /\ data[c + 1] = A[n + 8]
      <4>1. data[c] = A[p + c] /\ data[c + 1] = A[p + (c + 1)]
        BY <1>1, <3>1
      <4> QED
        BY <3>1, <4>1
    <3>3. A[n + 7] = Eo1 /\ A[n + 8] = Eo2
      BY <1>2, <3>1 DEF Marks
    <3> QED
      BY <3>2, <3>3 DEF Matches
  <2>4. \A m \in 1..(Len(data) - 1) : Matches(data, Eo1, Eo2, m) => m = c
    BY <1>1, <1>3, <2>1
  <2>5. Memmem(data, Eo1, Eo2) = c
    BY <1>1, <2>2, <2>3, <2>4, MemmemAt
  <2>6. Rewind(data, c) = c
    <3>1. c > 1 => EndsInBrace(data[c - 1])
      <4>1. CASE c > 1
        <5>1. c - 1 \in 1..(q - p) /\ p + (c - 1) = n + 6
          BY <1>5, <2>1, <4>1
        <5>2. data[c - 1] = A[n + 6]
          BY <1>1, <5>1
        <5> QED
          BY <5>2 DEF Marks
      <4> QED
        BY <4>1
    <3>2. \A m \in c..(c - 1) : ~EndsInBrace(data[m])
      OBVIOUS
    <3>3. c \in Nat /\ c \in 1..c
      OBVIOUS
    <3> QED
      BY <3>1, <3>2, <3>3, RewindAt
  <2> QED
    BY <1>5, <2>1, <2>5, <2>6
<1> QED
  BY <1>4, <1>5

LEMMA TakeWhole ==
  ASSUME NEW data, NEW sp \in Nat \ {0}, NEW b, Len(data) \in Nat, sp <= Len(data) + 1,
         Memmem(data, Eo1, Eo2) = 0, Take(data, sp, b)
  PROVE  st' = "TRX" /\ buf' = b \o SubSeq(data, sp, Len(data))
<1> DEFINE found == Memmem(data, Eo1, Eo2)
           whole == found < sp
           ep == IF whole THEN Len(data) + 1 ELSE Rewind(data, found)
           new == b \o SubSeq(data, sp, ep - 1)
<1>1. /\ st' = IF whole THEN "TRX" ELSE "UNK"
      /\ IF ep < sp THEN UNCHANGED <<buf, bsz>> ELSE buf' = new /\ bsz' = Grown(Len(new))
  BY Zenon DEF Take
<1>2. whole /\ ep = Len(data) + 1
  OBVIOUS
<1>3. ep - 1 = Len(data) /\ ~(ep < sp)
  BY <1>2
<1> HIDE DEF whole, ep
<1>4. new = b \o SubSeq(data, sp, Len(data))
  BY <1>3
<1> HIDE DEF new
<1> QED
  BY <1>1, <1>2, <1>3, <1>4

LEMMA TakeEnd ==
  ASSUME NEW data, NEW sp \in Nat \ {0}, NEW b, NEW e \in Nat, sp <= e,
         Memmem(data, Eo1, Eo2) = e, Rewind(data, e) = e, Take(data, sp, b)
  PROVE  st' = "UNK" /\ buf' = b \o SubSeq(data, sp, e - 1)
<1> DEFINE found == Memmem(data, Eo1, Eo2)
           whole == found < sp
           ep == IF whole THEN Len(data) + 1 ELSE Rewind(data, found)
           new == b \o SubSeq(data, sp, ep - 1)
<1>1. /\ st' = IF whole THEN "TRX" ELSE "UNK"
      /\ IF ep < sp THEN UNCHANGED <<buf, bsz>> ELSE buf' = new /\ bsz' = Grown(Len(new))
  BY Zenon DEF Take
<1>2. ~whole /\ ep = e
  OBVIOUS
<1>3. ~(ep < sp)
  BY <1>2
<1> HIDE DEF whole, ep
<1>4. new = b \o SubSeq(data, sp, e - 1)
  BY <1>2
<1> HIDE DEF new
<1> QED
  BY <1>1, <1>2, <1>3, <1>4

(* What is in the buffer, and what recv_cb is looking for, behind p        *)
(* symbols of answer A with n rows.                                        *)
Gathered(A, n, p) ==
  /\ p \in 0..(n + 9) /\ p \notin {1, 2, 3, n + 7}
  /\ p = 0 => st = "UNK"
  /\ p \in 4..(n + 6) => st = "TRX" /\ buf = SubSeq(A, 5, p)
  /\ p > n + 7 => st = "UNK" /\ buf = SubSeq(A, 5, n + 6)

\* The first chunk.
LEMMA GathersFirst ==
  ASSUME NEW n \in Nat, NEW A, Marks(A, n), NEW q \in 4..(n + 9), q # n + 7,
         NEW data, Window(data, A, 0, q), st = "UNK", recv_cb(data)
  PROVE  Gathered(A, n, q)'
<1>0. 0 \in Nat /\ q \in Nat /\ 0 <= q /\ q <= n + 9 /\ q > 2
  OBVIOUS
<1>1. data \in Seq(Sym) /\ Len(data) = q /\ \A i \in 1..q : data[i] = A[i]
  BY <1>0 DEF Window
<1>2. Memmem(data, Bo1, Bo2) = 1
  BY <1>0, WindowStarts
<1>3. Take(data, FastForward(data, 1), <<>>)
  BY <1>2 DEF recv_cb, Waiting, Begin, Another, Continue
<1>4. FastForward(data, 1) = 5
  <2> DEFINE a == 1
             c == 5
  <2>1. a \in 1..Len(data) /\ c \in a..(Len(data) + 1) /\ Len(data) \in Nat
    BY <1>0, <1>1
  <2>2. c <= Len(data) => HasBrace(data[c])
    <3>1. c <= Len(data) => data[c] = A[5]
      BY <1>1
    <3> QED
      BY <3>1 DEF Marks
  <2>3. \A m \in a..(c - 1) : ~HasBrace(data[m])
    <3>1. TAKE m \in a..(c - 1)
    <3>2. m \in 1..4 /\ m \in 1..q
      BY <1>0
    <3>3. data[m] = A[m]
      BY <1>1, <3>2
    <3> QED
      BY <3>2, <3>3 DEF Marks
  <2> HIDE DEF a, c
  <2>4. FastForward(data, a) = c
    BY <2>1, <2>2, <2>3, FastForwardAt
  <2> QED
    BY <2>4 DEF a, c
<1> DEFINE b == <<>>
           c == 5
<1>5. b \in Seq(Sym) /\ Take(data, c, b) /\ c \in Nat \ {0}
  BY <1>3, <1>4
<1>6. ASSUME NEW d \in Nat, d <= q PROVE b \o SubSeq(data, c, d) = SubSeq(A, 5, d)
  <2>1. SubSeq(data, c, d) = SubSeq(A, 0 + c, 0 + d)
    <3> HIDE DEF c
    <3> DEFINE p == 0
    <3>1. Within(c, d, data, A, p, q)
      BY <1>0, <1>5, <1>6 DEF Marks, Within
    <3> HIDE DEF p
    <3>2. Shows(c, d, data, A, p)
      BY <3>1, WindowPart
    <3> QED
      BY <3>2 DEF p, Shows
  <2>2. 0 + c = 5 /\ 0 + d = d
    BY <1>6
  <2> DEFINE z == SubSeq(data, c, d)
  <2>3. z \in Seq(Sym)
    <3> HIDE DEF c
    <3> QED
      BY <1>1, <1>5, <1>6, Part
  <2>4. z = SubSeq(A, 5, d)
    BY <2>1, <2>2
  <2> HIDE DEF z
  <2>5. b \o z = z
    BY <2>3, ConcatEmptySeq
  <2> QED
    BY <2>4, <2>5 DEF z
<1> HIDE DEF b, c
<1>7. CASE q < n + 7
  <2>1. Memmem(data, Eo1, Eo2) = 0
    BY <1>0, <1>7, WindowEnds
  <2>2. Len(data) \in Nat /\ c <= Len(data) + 1
    BY <1>0, <1>1 DEF c
  <2>3. st' = "TRX" /\ buf' = b \o SubSeq(data, c, Len(data))
    BY <1>5, <2>1, <2>2, TakeWhole
  <2>4. buf' = SubSeq(A, 5, q)
    <3>1. q <= q
      BY <1>0
    <3>2. b \o SubSeq(data, c, q) = SubSeq(A, 5, q)
      BY <1>0, <1>6, <3>1
    <3> QED
      BY <1>1, <2>3, <3>2
  <2> QED
    BY <1>7, <2>3, <2>4 DEF Gathered
<1>8. CASE q > n + 7
  <2>1. PICK e \in Nat : e = n + 7
    OBVIOUS
  <2>2. Memmem(data, Eo1, Eo2) = e /\ Rewind(data, e) = e
    <3>1. q >= n + 8 /\ 0 < n + 7 /\ n + 7 - 0 = n + 7
      BY <1>8
    <3>2. Memmem(data, Eo1, Eo2) = n + 7 - 0 /\ Rewind(data, n + 7 - 0) = n + 7 - 0
      BY <1>0, <3>1, WindowEnds
    <3> QED
      BY <2>1, <3>1, <3>2
  <2>3. c <= e
    BY <2>1 DEF c
  <2>4. st' = "UNK" /\ buf' = b \o SubSeq(data, c, e - 1)
    BY <1>5, <2>2, <2>3, TakeEnd
  <2>5. e - 1 = n + 6 /\ n + 6 \in Nat /\ n + 6 <= q
    BY <1>8, <2>1
  <2>6. buf' = SubSeq(A, 5, n + 6)
    BY <1>6, <2>4, <2>5
  <2>7. ~(q \in 4..(n + 6)) /\ q \in 0..(n + 9) /\ q \notin {1, 2, 3, n + 7} /\ q # 0
    BY <1>0, <1>8
  <2> QED
    BY <2>4, <2>6, <2>7 DEF Gathered
<1> QED
  BY <1>7, <1>8

\* A chunk in the middle.
LEMMA GathersMore ==
  ASSUME NEW n \in Nat, NEW A, Marks(A, n), NEW p \in 4..(n + 6), NEW q \in (p + 1)..(n + 9), q # n + 7,
         NEW data, Window(data, A, p, q), st = "TRX", buf = SubSeq(A, 5, p), recv_cb(data)
  PROVE  Gathered(A, n, q)'
<1>0. p \in Nat /\ q \in Nat /\ p <= q /\ q <= n + 9 /\ p # 0
  OBVIOUS
<1>1. data \in Seq(Sym) /\ Len(data) = q - p
  BY DEF Window
<1>2. Memmem(data, Bo1, Bo2) = 0
  BY <1>0, WindowStarts
<1>3. Take(data, 1, buf)
  BY <1>2 DEF recv_cb, Waiting, Begin, Another, Continue
<1> DEFINE c == 1
<1>4. Take(data, c, buf) /\ c \in Nat \ {0}
  BY <1>3
<1>5. ASSUME NEW d \in Nat, d <= q - p PROVE buf \o SubSeq(data, c, d) = SubSeq(A, 5, p + d)
  <2>1. SubSeq(data, c, d) = SubSeq(A, p + c, p + d)
    <3> HIDE DEF c
    <3>1. Within(c, d, data, A, p, q)
      BY <1>0, <1>4, <1>5 DEF Marks, Within
    <3>2. Shows(c, d, data, A, p)
      BY <3>1, WindowPart
    <3> QED
      BY <3>2 DEF Shows
  <2>2. p + c = p + 1
    OBVIOUS
  <2>3. SubSeq(A, 5, p) \o SubSeq(A, p + 1, p + d) = SubSeq(A, 5, p + d)
    <3>1. A \in Seq(Sym) /\ Len(A) = n + 9
      BY DEF Marks
    <3>2. PICK m \in 1..(Len(A) + 1) : m = 5
      <4>1. 5 \in 1..(Len(A) + 1)
        BY <3>1
      <4> QED
        BY <4>1
    <3>3. PICK l \in p..Len(A) : l = p + d
      <4>1. p + d \in p..Len(A)
        BY <1>0, <1>5, <3>1
      <4> QED
        BY <4>1
    <3>4. p \in (m - 1)..Len(A)
      BY <1>0, <3>1, <3>2
    <3>5. SubSeq(A, m, p) \o SubSeq(A, p + 1, l) = SubSeq(A, m, l)
      BY <3>1, <3>4, ConcatAdjacentSubSeq
    <3> QED
      BY <3>2, <3>3, <3>5
  <2> QED
    BY <2>1, <2>2, <2>3
<1> HIDE DEF c
<1>6. CASE q < n + 7
  <2>1. Memmem(data, Eo1, Eo2) = 0
    BY <1>0, <1>6, WindowEnds
  <2>2. Len(data) \in Nat /\ c <= Len(data) + 1
    BY <1>0, <1>1 DEF c
  <2>3. st' = "TRX" /\ buf' = buf \o SubSeq(data, c, Len(data))
    BY <1>4, <2>1, <2>2, TakeWhole
  <2>4. buf' = SubSeq(A, 5, q)
    <3>1. PICK d \in Nat : d = q - p
      BY <1>0
    <3>2. p + d = q /\ d <= q - p /\ Len(data) = d
      BY <1>0, <1>1, <3>1
    <3>3. buf \o SubSeq(data, c, d) = SubSeq(A, 5, p + d)
      BY <1>5, <3>2
    <3> QED
      BY <2>3, <3>2, <3>3
  <2>5. q \in 4..(n + 6) /\ q \in 0..(n + 9) /\ q \notin {1, 2, 3, n + 7} /\ q # 0 /\ ~(q > n + 7)
    BY <1>0, <1>6
  <2> QED
    BY <2>3, <2>4, <2>5 DEF Gathered
<1>7. CASE q > n + 7
  <2>1. PICK e \in Nat : e = n + 7 - p
    BY <1>0
  <2>2. Memmem(data, Eo1, Eo2) = e /\ Rewind(data, e) = e
    <3>1. q >= n + 8 /\ p < n + 7
      BY <1>7
    <3> QED
      BY <1>0, <2>1, <3>1, WindowEnds
  <2>3. c <= e
    BY <2>1 DEF c
  <2>4. st' = "UNK" /\ buf' = buf \o SubSeq(data, c, e - 1)
    BY <1>4, <2>2, <2>3, TakeEnd
  <2>5. p + (e - 1) = n + 6 /\ e - 1 \in Nat /\ e - 1 <= q - p
    BY <1>7, <2>1
  <2>6. buf' = SubSeq(A, 5, n + 6)
    BY <1>5, <2>4, <2>5
  <2>7. ~(q \in 4..(n + 6)) /\ q \in 0..(n + 9) /\ q \notin {1, 2, 3, n + 7} /\ q # 0
    BY <1>0, <1>7
  <2> QED
    BY <2>4, <2>6, <2>7 DEF Gathered
<1> QED
  BY <1>6, <1>7

LEMMA GathersOn ==
  ASSUME NEW n \in Nat, NEW A, Marks(A, n), NEW p, Gathered(A, n, p),
         NEW q \in (p + 1)..(n + 9), q \notin {1, 2, 3, n + 7},
         NEW data, Window(data, A, p, q), recv_cb(data)
  PROVE  Gathered(A, n, q)'
<1>0. p \in 0..(n + 9) /\ p \notin {1, 2, 3, n + 7}
  BY DEF Gathered
<1>1. CASE p = 0
  <2>1. q \in 4..(n + 9) /\ q # n + 7 /\ Window(data, A, 0, q) /\ st = "UNK"
    BY <1>1 DEF Gathered
  <2> QED
    BY <2>1, GathersFirst
<1>2. CASE p \in 4..(n + 6)
  <2>1. q # n + 7 /\ st = "TRX" /\ buf = SubSeq(A, 5, p)
    BY <1>2 DEF Gathered
  <2> QED
    BY <1>2, <2>1, GathersMore
<1>3. CASE p > n + 7
  <2>1. st = "UNK" /\ buf = SubSeq(A, 5, n + 6)
    BY <1>3 DEF Gathered
  <2>2. p \in Nat /\ q \in Nat /\ p <= q /\ q <= n + 9 /\ p # 0
    BY <1>0, <1>3
  <2>3. Memmem(data, Bo1, Bo2) = 0
    BY <2>2, WindowStarts
  <2>4. UNCHANGED <<st, buf>>
    BY <2>1, <2>3 DEF recv_cb, Waiting, Begin, Another, Continue, recvVars
  <2>5. ~(q \in 4..(n + 6)) /\ q \in 0..(n + 9) /\ q # 0 /\ q > n + 7
    BY <1>0, <1>3
  <2> QED
    BY <2>1, <2>4, <2>5 DEF Gathered
<1> QED
  BY <1>0, <1>1, <1>2, <1>3

Collects(A, n) ==
  /\ curl
  /\ pc = "print" => rest = <<>>
  /\ \E p \in 0..(n + 9) : rest = SubSeq(A, p + 1, n + 9) /\ Gathered(A, n, p)
Collected ==
  pc \in {"recv", "print"} /\ ~raw /\ fresh => Collects(Answer(sid, iitem), Held(sid, iitem))

LEMMA RestIs ==
  ASSUME NEW A \in Seq(Sym), NEW n \in Nat, Len(A) = n + 9, NEW p \in 0..(n + 9),
         rest = SubSeq(A, p + 1, n + 9)
  PROVE  /\ rest \in Seq(Sym) /\ Len(rest) = n + 9 - p
         /\ \A i \in 1..(n + 9 - p) : rest[i] = A[p + i]
<1>1. PICK a \in Nat \ {0} : a = p + 1
  OBVIOUS
<1>2. PICK b \in Nat : b = n + 9
  OBVIOUS
<1>3. /\ SubSeq(A, a, b) \in Seq(Sym) /\ Len(SubSeq(A, a, b)) = IF a <= b THEN b - a + 1 ELSE 0
      /\ \A o \in 1..(b - a + 1) : SubSeq(A, a, b)[o] = A[a + o - 1]
  <2>1. b <= Len(A)
    BY <1>2
  <2> QED
    BY <2>1, Part
<1>4. rest = SubSeq(A, a, b)
  BY <1>1, <1>2
<1>5. Len(rest) = n + 9 - p
  BY <1>1, <1>2, <1>3, <1>4
<1>6. ASSUME NEW i \in 1..(n + 9 - p) PROVE rest[i] = A[p + i]
  <2>1. i \in 1..(b - a + 1) /\ a + i - 1 = p + i
    BY <1>1, <1>2
  <2>2. rest[i] = A[a + i - 1]
    BY <1>3, <1>4, <2>1
  <2> QED
    BY <2>1, <2>2
<1> QED
  BY <1>3, <1>4, <1>5, <1>6

\* A chunk of the rest of an answer, and what it leaves.
LEMMA ChunkOf ==
  ASSUME NEW A \in Seq(Sym), NEW n \in Nat, Len(A) = n + 9, NEW p \in 0..(n + 9),
         rest = SubSeq(A, p + 1, n + 9), NEW k \in Nat \ {0}, k <= n + 9 - p
  PROVE  /\ Window(SubSeq(rest, 1, k), A, p, p + k)
         /\ SubSeq(rest, k + 1, Len(rest)) = SubSeq(A, p + k + 1, n + 9)
<1>1. /\ rest \in Seq(Sym) /\ Len(rest) = n + 9 - p
      /\ \A i \in 1..(n + 9 - p) : rest[i] = A[p + i]
  BY RestIs
<1>2. Window(SubSeq(rest, 1, k), A, p, p + k)
  <2> DEFINE a == 1
             data == SubSeq(rest, a, k)
  <2>1. a \in Nat \ {0} /\ k \in Nat /\ k <= Len(rest)
    BY <1>1
  <2>2. k - a + 1 = k /\ a <= k /\ p + k - p = k /\ \A i \in 1..k : a + i - 1 = i
    OBVIOUS
  <2> HIDE DEF a
  <2>3. /\ data \in Seq(Sym) /\ Len(data) = IF a <= k THEN k - a + 1 ELSE 0
        /\ \A o \in 1..(k - a + 1) : data[o] = rest[a + o - 1]
    BY <1>1, <2>1, Part
  <2> HIDE DEF data
  <2>4. Len(data) = p + k - p
    BY <2>2, <2>3
  <2>5. \A i \in 1..(p + k - p) : data[i] = A[p + i]
    <3>1. TAKE i \in 1..(p + k - p)
    <3>2. i \in 1..(k - a + 1) /\ a + i - 1 = i /\ i \in 1..(n + 9 - p)
      BY <2>2
    <3>3. data[i] = rest[i]
      BY <2>3, <3>2
    <3> QED
      BY <1>1, <3>2, <3>3
  <2>6. Window(data, A, p, p + k)
    BY <2>3, <2>4, <2>5 DEF Window
  <2> QED
    BY <2>6 DEF data, a
<1>3. SubSeq(rest, k + 1, Len(rest)) = SubSeq(A, p + k + 1, n + 9)
  <2>1. PICK q \in Nat : q = n + 9
    OBVIOUS
  <2>2. PICK a \in Nat \ {0} : a = k + 1
    OBVIOUS
  <2>3. PICK b \in Nat : b = Len(rest)
    <3>1. rest \in Seq(Sym)
      BY <1>1
    <3>2. Len(rest) \in Nat
      BY <3>1, LenProperties
    <3> QED
      BY <3>2
  <2>4. Window(rest, A, p, q)
    <3>1. Len(rest) = q - p /\ q - p = n + 9 - p
      BY <1>1, <2>1
    <3>2. \A i \in 1..(q - p) : rest[i] = A[p + i]
      BY <1>1, <2>1
    <3> QED
      BY <1>1, <3>1, <3>2 DEF Window
  <2>5. Within(a, b, rest, A, p, q)
    BY <1>1, <2>1, <2>3, <2>4 DEF Within
  <2>6. Shows(a, b, rest, A, p)
    BY <2>5, WindowPart
  <2>7. p + a = p + k + 1 /\ p + b = n + 9
    BY <1>1, <2>2, <2>3
  <2> QED
    BY <2>2, <2>3, <2>6, <2>7 DEF Shows
<1> QED
  BY <1>2, <1>3

LEMMA CollectsFetch ==
  ASSUME TypeOK, Fetch, Tricky = {}
  PROVE  Collected'
<1>1. pc = "fetch" /\ pc' = "recv" /\ UNCHANGED <<raw, cur, iitem, recvVars>>
  BY DEF Fetch
<1>2. sid \in Isins /\ iitem \in Nat /\ sid' = sid /\ iitem' = iitem /\ st' = st
  BY <1>1, SidIs DEF TypeOK, sid, recvVars
<1>3. PICK A : A = Answer(sid, iitem)
  OBVIOUS
<1>4. PICK n : n = Held(sid, iitem)
  OBVIOUS
<1>5. n \in Nat /\ Shape(A, sid, iitem, n)
  BY <1>2, <1>3, <1>4, HeldIs, AnswerIs
<1>6. A \in Seq(Sym) /\ Len(A) = n + 9
  BY <1>5 DEF Shape
<1>7. fresh' => st = "UNK" /\ rest' = A /\ curl'
  <2>1. \/ Reply("page", A, TRUE)
        \/ Reply("refused", <<>>, FALSE)
        \/ Reply("error", ErrorPage, TRUE)
        \/ \E m \in 1..(Len(A) - 1) : Reply("cut", SubSeq(A, 1, m), FALSE)
    BY <1>3, Zenon DEF Fetch
  <2>2. CASE Reply("page", A, TRUE)
    BY <2>2 DEF Reply
  <2>3. ASSUME NEW how, how # "page", NEW body, NEW ok, Reply(how, body, ok) PROVE ~fresh'
    BY <2>3 DEF Reply
  <2>4. CASE ~Reply("page", A, TRUE)
    BY <2>1, <2>3, <2>4
  <2> QED
    BY <2>2, <2>4
<1>8. ASSUME fresh' PROVE Collects(A, n)'
  <2>1. rest' = A /\ curl' /\ st' = "UNK"
    BY <1>2, <1>7, <1>8
  <2>2. A = SubSeq(A, 1, Len(A))
    BY <1>6, SubSeqFull
  <2>3. rest' = SubSeq(A, 0 + 1, n + 9) /\ 0 \in 0..(n + 9)
    BY <1>5, <1>6, <2>1, <2>2
  <2>4. Gathered(A, n, 0)'
    BY <1>5, <2>1 DEF Gathered
  <2>5. pc' # "print"
    BY <1>1
  <2> QED
    BY <2>1, <2>3, <2>4, <2>5 DEF Collects
<1> QED
  BY <1>2, <1>3, <1>4, <1>8 DEF Collected

LEMMA CollectsChunk ==
  ASSUME TypeOK, Collected, Chunk, Tricky = {}
  PROVE  Collected'
<1>0. pc = "recv" /\ UNCHANGED <<pc, raw, cur, iitem, curl>>
  BY DEF Chunk
<1>1. PICK k \in 1..(IF Len(rest) < MaxChunk THEN Len(rest) ELSE MaxChunk) :
        /\ fresh' = (fresh /\ CleanCut(k))
        /\ IF raw THEN UNCHANGED recvVars ELSE recv_cb(SubSeq(rest, 1, k))
        /\ rest' = SubSeq(rest, k + 1, Len(rest))
  BY DEF Chunk
<1>2. SUFFICES ASSUME ~raw, fresh, CleanCut(k)
               PROVE  Collects(Answer(sid, iitem), Held(sid, iitem))'
  BY <1>0, <1>1 DEF Collected
<1>3. sid \in Isins /\ iitem \in Nat /\ sid' = sid /\ iitem' = iitem
  BY <1>0, SidIs DEF TypeOK, sid
<1>4. PICK A : A = Answer(sid, iitem)
  OBVIOUS
<1>5. PICK n : n = Held(sid, iitem)
  OBVIOUS
<1>6. n \in Nat /\ Shape(A, sid, iitem, n)
  BY <1>3, <1>4, <1>5, HeldIs, AnswerIs
<1>7. A \in Seq(Sym) /\ Len(A) = n + 9 /\ Marks(A, n)
  <2>1. PICK t, m : t = sid /\ m = iitem
    OBVIOUS
  <2>2. Shape(A, t, m, n)
    BY <1>6, <2>1
  <2>3. Marks(A, n)
    BY <1>6, <2>2, MarksAre
  <2> QED
    BY <2>2, <2>3 DEF Shape
<1>8. Collects(A, n)
  BY <1>0, <1>2, <1>4, <1>5 DEF Collected
<1>9. PICK p \in 0..(n + 9) : rest = SubSeq(A, p + 1, n + 9) /\ Gathered(A, n, p)
  BY <1>8 DEF Collects
<1>10. Len(rest) = n + 9 - p /\ \A i \in 1..(n + 9 - p) : rest[i] = A[p + i]
  BY <1>6, <1>7, <1>9, RestIs
<1>11. k \in Nat \ {0} /\ k <= n + 9 - p
  <2>1. MaxChunk \in Nat /\ Len(rest) \in Nat
    BY <1>6, <1>10, PageAssumption
  <2> QED
    BY <1>6, <1>10, <2>1
<1>12. PICK q \in Nat : q = p + k
  BY <1>11
<1>13. q \in (p + 1)..(n + 9)
  BY <1>6, <1>11, <1>12
<1>14. q \notin {1, 2, 3, n + 7}
  <2>1. CASE k = Len(rest)
    BY <1>6, <1>10, <1>12, <2>1
  <2>2. CASE rest[k] \notin {Bo1, Bo2, Noise, Eo1}
    <3>1. rest[k] = A[q]
      <4>1. k \in 1..(n + 9 - p)
        BY <1>6, <1>11
      <4> QED
        BY <1>10, <1>12, <4>1
    <3>2. A[1] = Bo1 /\ A[2] = Bo2 /\ A[3] = Noise /\ A[n + 7] = Eo1
      BY <1>6 DEF Shape
    <3> QED
      BY <2>2, <3>1, <3>2
  <2> QED
    BY <1>2, <2>1, <2>2 DEF CleanCut
<1> DEFINE data == SubSeq(rest, 1, k)
<1>15. Window(data, A, p, q) /\ rest' = SubSeq(A, q + 1, n + 9)
  <2>1. /\ Window(SubSeq(rest, 1, k), A, p, p + k)
        /\ SubSeq(rest, k + 1, Len(rest)) = SubSeq(A, p + k + 1, n + 9)
    BY <1>6, <1>7, <1>9, <1>11, ChunkOf
  <2> QED
    BY <1>1, <1>12, <2>1
<1>16. Gathered(A, n, q)'
  <2>1. recv_cb(data)
    BY <1>1, <1>2
  <2> HIDE DEF data
  <2> QED
    BY <1>6, <1>7, <1>9, <1>13, <1>14, <1>15, <2>1, GathersOn
<1>17. Collects(A, n)'
  <2>1. curl' /\ pc' # "print"
    BY <1>0, <1>8 DEF Collects
  <2>2. q \in 0..(n + 9)
    BY <1>13
  <2> QED
    BY <1>15, <1>16, <2>1, <2>2 DEF Collects
<1> QED
  BY <1>3, <1>4, <1>5, <1>17

LEMMA CollectsNext ==
  ASSUME TypeOK, Collected, [Next]_vars, Tricky = {}
  PROVE  Collected'
<1>1. CASE pc' \notin {"recv", "print"}
  BY <1>1 DEF Collected
<1>2. CASE NextSid \/ Exit \/ TransferFails \/ PrintRaw \/ PrintInvalid \/ PrintPage \/ PrintNothing \/ PrintNever
  <2>1. pc' \in {"fetch", "done", "repl", "parsing"}
    <3>1. PrintPage => pc' \in {"fetch", "repl"}
      <4>1. PrintPage => (More => pc' = "fetch") /\ (~More => Return(0))
        BY DEF PrintPage
      <4> QED
        BY <4>1 DEF Return
    <3> QED
      BY <1>2, <3>1, PrintedNothing DEF NextSid, Exit, TransferFails, PrintRaw, PrintInvalid, PrintNever, Return
  <2> QED
    BY <1>1, <2>1
<1>3. CASE Fetch
  BY <1>3, CollectsFetch
<1>4. CASE Chunk
  BY <1>4, CollectsChunk
<1>5. CASE TransferEnds \/ UNCHANGED vars
  <2>1. /\ UNCHANGED <<raw, cur, iitem, fresh, curl, rest, st, buf>>
        /\ pc' = pc \/ (pc = "recv" /\ pc' = "print" /\ rest = <<>>)
    BY <1>5 DEF TransferEnds, vars, callVars, recvVars
  <2>2. sid' = sid
    BY <2>1 DEF sid
  <2>3. \A A, n : \A p \in 0..(n + 9) : Gathered(A, n, p) => Gathered(A, n, p)'
    BY <2>1 DEF Gathered
  <2>4. ASSUME NEW A, NEW n, pc' \in {"recv", "print"}, pc \in {"recv", "print"} => Collects(A, n)
        PROVE  Collects(A, n)'
    <3>1. Collects(A, n)
      BY <2>1, <2>4
    <3> QED
      BY <2>1, <2>3, <3>1 DEF Collects
  <2>5. PICK A : A = Answer(sid, iitem)
    OBVIOUS
  <2>6. PICK n : n = Held(sid, iitem)
    OBVIOUS
  <2> QED
    BY <2>1, <2>2, <2>4, <2>5, <2>6 DEF Collected
<1> QED
  BY <1>2, <1>3, <1>4, <1>5 DEF Next, Step, Terminated

LEMMA CollectedAssembles ==
  ASSUME TypeOK, Collected, Tricky = {}
  PROVE  Assembled
<1> SUFFICES ASSUME pc = "print", ~raw, fresh
             PROVE  /\ st = "UNK"
                    /\ buf = SubSeq(Answer(sid, iitem), 5, Len(Answer(sid, iitem)) - 3)
  BY DEF Assembled
<1>1. sid \in Isins /\ iitem \in Nat
  BY SidIs DEF TypeOK
<1>2. PICK A : A = Answer(sid, iitem)
  OBVIOUS
<1>3. PICK n : n = Held(sid, iitem)
  OBVIOUS
<1>4. n \in Nat /\ Shape(A, sid, iitem, n)
  BY <1>1, <1>2, <1>3, HeldIs, AnswerIs
<1>5. A \in Seq(Sym) /\ Len(A) = n + 9
  BY <1>4 DEF Shape
<1>6. Collects(A, n) /\ rest = <<>>
  BY <1>2, <1>3 DEF Collected, Collects
<1>7. PICK p \in 0..(n + 9) : rest = SubSeq(A, p + 1, n + 9) /\ Gathered(A, n, p)
  BY <1>6 DEF Collects
<1>8. Len(rest) = n + 9 - p /\ Len(rest) = 0
  BY <1>4, <1>5, <1>6, <1>7, RestIs, EmptySeq
<1>9. p > n + 7 /\ Len(A) - 3 = n + 6
  BY <1>4, <1>5, <1>8
<1>10. st = "UNK" /\ buf = SubSeq(A, 5, n + 6)
  BY <1>7, <1>9 DEF Gathered
<1> QED
  BY <1>2, <1>9, <1>10

LEMMA Collecting ==
  ASSUME Tricky = {}
  PROVE  Spec => [](TypeOK /\ Collected)
<1>1. Init => TypeOK /\ Collected
  <2>1. Init => pc = "repl"
    BY DEF Init
  <2>2. Init => Collected
    BY <2>1 DEF Collected
  <2> QED
    BY <2>2, TypedInit
<1>2. TypeOK /\ Collected /\ [Next]_vars => (TypeOK /\ Collected)'
  BY TypedNext, CollectsNext
<1> QED
  BY <1>1, <1>2, PTL DEF Spec

(* As long as no row holds the end of the answer: what is in the buffer    *)
(* when an answer is printed is that answer and nothing of the earlier     *)
(* ones, and recv_cb waits for the next, provided that recv_cb waited for  *)
(* this one, and none of its chunks ended in a beacon or between the       *)
(* opening beacon and the brace (fresh): Spec => []Assembled.              *)
THEOREM AnswersAssembled ==
  ASSUME Tricky = {}
  PROVE  Spec => []Assembled
<1>1. TypeOK /\ Collected => Assembled
  BY CollectedAssembles
<1> QED
  BY <1>1, Collecting, PTL

LEMMA BufferIs ==
  ASSUME TypeOK, Assembled, pc = "print", ~raw, fresh, Tricky = {}
  PROVE  /\ sid \in Isins /\ iitem \in Nat /\ Held(sid, iitem) \in Nat /\ st = "UNK"
         /\ Data(buf, sid, iitem, Held(sid, iitem))
<1>1. sid \in Isins /\ iitem \in Nat
  BY SidIs DEF TypeOK
<1>2. PICK A : A = Answer(sid, iitem)
  OBVIOUS
<1>3. PICK n : n = Held(sid, iitem)
  OBVIOUS
<1>4. n \in Nat /\ Shape(A, sid, iitem, n)
  BY <1>1, <1>2, <1>3, HeldIs, AnswerIs
<1>5. A \in Seq(Sym) /\ Len(A) = n + 9
  BY <1>4 DEF Shape
<1>6. st = "UNK" /\ buf = SubSeq(A, 5, Len(A) - 3)
  BY <1>2 DEF Assembled
<1>7. PICK a \in Nat \ {0} : a = 5
  OBVIOUS
<1>8. PICK b \in Nat : b = n + 6
  BY <1>4
<1>9. buf = SubSeq(A, a, b) /\ b <= Len(A)
  <2>1. Len(A) - 3 = b /\ b <= Len(A)
    BY <1>4, <1>5, <1>8
  <2> QED
    BY <1>6, <1>7, <2>1
<1>10. /\ SubSeq(A, a, b) \in Seq(Sym) /\ Len(SubSeq(A, a, b)) = IF a <= b THEN b - a + 1 ELSE 0
       /\ \A o \in 1..(b - a + 1) : SubSeq(A, a, b)[o] = A[a + o - 1]
  BY SMTT(30), <1>5, <1>9, Part
<1>11. Len(buf) = n + 2 /\ \A o \in 1..(n + 2) : buf[o] = A[4 + o]
  <2>1. a <= b /\ b - a + 1 = n + 2 /\ \A o \in 1..(n + 2) : a + o - 1 = 4 + o
    BY <1>4, <1>7, <1>8
  <2> QED
    BY <1>9, <1>10, <2>1
<1>12. buf[1] = Open(sid) /\ buf[n + 2] = Close(sid)
  <2>1. 1 \in 1..(n + 2) /\ n + 2 \in 1..(n + 2) /\ 4 + 1 = 5 /\ 4 + (n + 2) = n + 6
    BY <1>4
  <2>2. buf[1] = A[5] /\ buf[n + 2] = A[n + 6]
    BY <1>11, <2>1
  <2> QED
    BY <1>4, <2>2 DEF Shape
<1>13. ASSUME NEW j \in 1..n PROVE buf[1 + j] = Row(<<sid, iitem + j>>)
  <2>1. 1 + j \in 1..(n + 2) /\ 4 + (1 + j) = 5 + j
    BY <1>4
  <2>2. buf[1 + j] = A[5 + j]
    BY <1>11, <2>1
  <2> QED
    BY <1>4, <2>2 DEF Shape
<1>14. Data(buf, sid, iitem, n)
  BY <1>9, <1>10, <1>11, <1>12, <1>13 DEF Data
<1> QED
  BY <1>1, <1>3, <1>4, <1>6, <1>14

\* What print1 prints of an answer, behind what is printed already.
Page(c, t, k, n) == [j \in 1..n |-> <<c, <<t, k + j>>>>]

LEMMA PageIs ==
  ASSUME TypeOK, Assembled, PrintPage, fresh, Tricky = {}
  PROVE  LET n == Held(sid, iitem)
         IN  /\ out' = out \o Page(cur, sid, iitem, n) /\ iitem' = iitem + n
             /\ nitem' \in {Total[sid], nitem} /\ (nitem = 0 => nitem' = Total[sid])
<1>1. /\ pc = "print" /\ ~raw
      /\ out' = out \o [j \in 1..Len(Rows(buf)) |-> <<cur, Rows(buf)[j]>>]
      /\ iitem' = iitem + Len(Rows(buf))
      /\ nitem' = Size(buf, nitem)
  BY Zenon DEF PrintPage
<1>2. PICK t, k : t = sid /\ k = iitem
  OBVIOUS
<1>3. PICK n : n = Held(sid, iitem)
  OBVIOUS
<1>4. n \in Nat /\ Data(buf, t, k, n)
  BY <1>1, <1>2, <1>3, BufferIs
<1>5. PICK b, m : b = buf /\ m = nitem
  OBVIOUS
<1>6. Data(b, t, k, n)
  BY <1>4, <1>5
<1>7. Rows(b) = [j \in 1..n |-> <<t, k + j>>]
  BY <1>4, <1>6, RowsIs
<1>8. Size(b, m) \in {Total[t], m} /\ (m = 0 => Size(b, m) = Total[t])
  BY <1>4, <1>6, SizeIs
<1> DEFINE r == [j \in 1..n |-> <<t, k + j>>]
<1>9. Len(r) = n /\ \A j \in 1..n : r[j] = <<t, k + j>>
  BY <1>4
<1>10. Rows(buf) = r
  BY <1>5, <1>7
<1> HIDE DEF r
<1>11. [j \in 1..Len(r) |-> <<cur, r[j]>>] = Page(cur, t, k, n)
  BY <1>9 DEF Page
<1>12. out' = out \o Page(cur, t, k, n) /\ iitem' = iitem + n
  BY <1>1, <1>9, <1>10, <1>11
<1> QED
  BY <1>1, <1>2, <1>3, <1>5, <1>8, <1>12

(* Then exactly the rows asked for are printed next: Spec => PrintsAnswer. *)
THEOREM AnswersPrinted ==
  ASSUME Tricky = {}
  PROVE  Spec => PrintsAnswer
<1>1. ASSUME TypeOK, Collected, [Next]_vars
      PROVE  [(pc = "print" /\ out' # out /\ fresh) =>
                out' = out \o [k \in 1..(Upto(sid, iitem) - iitem) |-> <<cur, <<sid, iitem + k>>>>]]_vars
  <2> SUFFICES ASSUME pc = "print", out' # out, fresh
               PROVE  out' = out \o [k \in 1..(Upto(sid, iitem) - iitem) |-> <<cur, <<sid, iitem + k>>>>]
    OBVIOUS
  <2>1. PrintPage
    BY <1>1 DEF Next, Step, Terminated, NextSid, Exit, Fetch, Chunk, TransferFails, TransferEnds,
                PrintRaw, PrintInvalid, PrintNothing, PrintNever, vars
  <2>2. Assembled
    BY <1>1, CollectedAssembles
  <2>3. out' = out \o Page(cur, sid, iitem, Held(sid, iitem))
    BY <1>1, <2>1, <2>2, PageIs
  <2>4. sid \in Isins /\ iitem \in Nat
    BY <1>1, SidIs DEF TypeOK
  <2>5. 1..Held(sid, iitem) = 1..(Upto(sid, iitem) - iitem)
    BY <2>4, HeldIs DEF Held
  <2> QED
    BY <2>3, <2>5, Zenon DEF Page
<1> QED
  BY <1>1, Collecting, PTL DEF Spec, PrintsAnswer

-----------------------------------------------------------------------------
(* The rows printed for an argument.                                       *)

FirstRows(t, m) == [k \in 1..m |-> <<t, k>>]
Printed == (1..Len(Sids)) \X (Isins \X Nat)

Picks(f, o, c, n) ==
  f = [k \in 0..n |-> IF k = 0 THEN <<>>
                      ELSE IF o[k][1] = c THEN Append(f[k - 1], o[k][2]) ELSE f[k - 1]]
Picked(o, c) ==
  LET of[k \in 0..Len(o)] == IF k = 0 THEN <<>>
                             ELSE IF o[k][1] = c THEN Append(of[k - 1], o[k][2])
                             ELSE of[k - 1]
  IN  of[Len(o)]

LEMMA PicksExists ==
  ASSUME NEW o, NEW c, NEW n \in Nat
  PROVE  \E f : Picks(f, o, c, n)
<1> DEFINE S == {k \in 0..n : \E f : Picks(f, o, c, k)}
<1>1. 0 \in S
  <2>1. Picks([k \in 0..0 |-> <<>>], o, c, 0)
    <3>1. \A k \in 0..0 : k = 0
      OBVIOUS
    <3> QED
      BY <3>1 DEF Picks
  <2> QED
    BY <2>1
<1>2. ASSUME NEW k \in 1..n, k - 1 \in S PROVE k \in S
  <2>1. PICK f : Picks(f, o, c, k - 1)
    BY <1>2
  <2> DEFINE G(g, j) == IF j = 0 THEN <<>>
                        ELSE IF o[j][1] = c THEN Append(g[j - 1], o[j][2]) ELSE g[j - 1]
             h == [j \in 0..k |-> G(f, j)]
  <2>2. \A j \in 0..(k - 1) : h[j] = f[j]
    <3>1. \A j \in 0..(k - 1) : f[j] = G(f, j)
      BY <2>1 DEF Picks
    <3>2. \A j \in 0..(k - 1) : j \in 0..k
      BY <1>2
    <3> HIDE DEF G
    <3> QED
      BY <3>1, <3>2
  <2>3. \A j \in 0..k : j # 0 => j - 1 \in 0..(k - 1)
    OBVIOUS
  <2>4. \A j \in 0..k : h[j] = G(h, j)
    <3>1. TAKE j \in 0..k
    <3>2. h[j] = G(f, j)
      <4> HIDE DEF G
      <4> QED
        OBVIOUS
    <3> HIDE DEF h
    <3>3. CASE j = 0
      BY <3>2, <3>3
    <3>4. CASE j # 0
      <4>1. h[j - 1] = f[j - 1]
        BY <2>2, <2>3, <3>4
      <4> QED
        BY <3>2, <3>4, <4>1
    <3> QED
      BY <3>3, <3>4
  <2>5. h = [j \in 0..k |-> h[j]]
    <3> HIDE DEF G
    <3> QED
      OBVIOUS
  <2>6. Picks(h, o, c, k)
    <3> HIDE DEF h
    <3>1. h = [j \in 0..k |-> G(h, j)]
      <4> HIDE DEF G
      <4> QED
        BY <2>4, <2>5
    <3> QED
      BY <3>1 DEF Picks
  <2> QED
    BY <2>6
<1>3. 0..n \subseteq S
  <2> HIDE DEF S
  <2> QED
    BY <1>1, <1>2, Upwards
<1>4. n \in S
  BY <1>3
<1> QED
  BY <1>4

PickedBy(f, o, c) ==
  /\ Picked(o, c) = f[Len(o)] /\ f[0] = <<>>
  /\ \A k \in 1..Len(o) : f[k] = IF o[k][1] = c THEN Append(f[k - 1], o[k][2]) ELSE f[k - 1]

LEMMA PickedIs ==
  ASSUME NEW o, NEW c, Len(o) \in Nat
  PROVE  \E f : PickedBy(f, o, c)
<1> DEFINE f == CHOOSE g : Picks(g, o, c, Len(o))
<1>1. Picks(f, o, c, Len(o))
  BY PicksExists
<1>2. Picked(o, c) = f[Len(o)]
  BY DEF Picked, Picks
<1> HIDE DEF f
<1>3. \A k \in 0..Len(o) : f[k] = IF k = 0 THEN <<>>
                           ELSE IF o[k][1] = c THEN Append(f[k - 1], o[k][2]) ELSE f[k - 1]
  BY <1>1 DEF Picks
<1>4. 0 \in 0..Len(o) /\ \A k \in 1..Len(o) : k \in 0..Len(o) /\ k # 0
  OBVIOUS
<1> QED
  BY <1>2, <1>3, <1>4 DEF PickedBy

LEMMA FirstGrows ==
  ASSUME NEW t, NEW m \in Nat
  PROVE  Append(FirstRows(t, m), <<t, m + 1>>) = FirstRows(t, m + 1)
<1> DEFINE T == {<<t, k>> : k \in Nat}
           x == FirstRows(t, m)
           e == <<t, m + 1>>
           y == FirstRows(t, m + 1)
<1>1. x \in Seq(T) /\ Len(x) = m /\ e \in T /\ y \in Seq(T) /\ Len(y) = m + 1
  BY DEF FirstRows
<1>2. \A i \in 1..m : x[i] = y[i]
  BY DEF FirstRows
<1>3. y[m + 1] = e
  BY DEF FirstRows
<1> HIDE DEF T, x, e, y
<1> DEFINE z == Append(x, e)
<1>4. /\ z \in Seq(T) /\ Len(z) = m + 1
      /\ \A i \in 1..m : z[i] = x[i]
      /\ z[m + 1] = e
  <2>1. /\ Append(x, e) \in Seq(T) /\ Len(Append(x, e)) = Len(x) + 1
        /\ \A i \in 1..Len(x) : Append(x, e)[i] = x[i]
        /\ Append(x, e)[Len(x) + 1] = e
    BY <1>1, AppendProperties
  <2> QED
    BY <1>1, <2>1
<1> HIDE DEF z
<1>5. \A i \in 1..(m + 1) : z[i] = y[i]
  <2>1. \A i \in 1..(m + 1) : i \in 1..m \/ i = m + 1
    OBVIOUS
  <2> QED
    BY <1>2, <1>3, <1>4, <2>1
<1>6. z = y
  BY <1>1, <1>4, <1>5, SeqEqual
<1> QED
  BY <1>6 DEF z, x, e, y

(* A page adds the rows behind the ones printed for its argument, and      *)
(* nothing to the other arguments.                                         *)
AddsTo(o, p, c, t, i, n) ==
  /\ \A d : d # c => Picked(o \o p, d) = Picked(o, d)
  /\ Picked(o, c) = FirstRows(t, i) => Picked(o \o p, c) = FirstRows(t, i + n)

LEMMA PagePicked ==
  ASSUME NEW T, NEW o \in Seq(T), NEW c, NEW t, NEW i \in Nat, NEW n \in Nat,
         NEW p \in Seq(T), p = Page(c, t, i, n)
  PROVE  AddsTo(o, p, c, t, i, n)
<1> DEFINE l == Len(o)
           q == o \o p
<1>1. Len(p) = n /\ \A j \in 1..n : p[j][1] = c /\ p[j][2] = <<t, i + j>>
  BY DEF Page
<1>2. /\ l \in Nat /\ Len(q) = l + n /\ Len(q) \in Nat
      /\ \A k \in 1..l : q[k] = o[k]
      /\ \A j \in 1..n : q[l + j] = p[j]
  <2>1. /\ o \o p \in Seq(T) /\ Len(o \o p) = Len(o) + Len(p)
        /\ \A k \in 1..Len(o) : (o \o p)[k] = o[k]
        /\ \A j \in 1..Len(p) : (o \o p)[Len(o) + j] = p[j]
    BY Joined
  <2>2. Len(o) \in Nat
    BY LenProperties
  <2> QED
    BY <1>1, <2>1, <2>2
<1> HIDE DEF l, q
<1>3. ASSUME NEW d
      PROVE  \E f, g : /\ Picked(o, d) = f[l] /\ Picked(q, d) = g[l + n] /\ g[l] = f[l]
                       /\ \A j \in 1..n : g[l + j] = IF c = d THEN Append(g[l + j - 1], <<t, i + j>>)
                                                              ELSE g[l + j - 1]
  <2>1. PICK f : /\ Picked(o, d) = f[l] /\ f[0] = <<>>
                 /\ \A k \in 1..l : f[k] = IF o[k][1] = d THEN Append(f[k - 1], o[k][2]) ELSE f[k - 1]
    <3>1. PICK f : PickedBy(f, o, d)
      BY <1>2, PickedIs DEF l
    <3> QED
      BY <3>1 DEF PickedBy, l
  <2>2. PICK g : /\ Picked(q, d) = g[l + n] /\ g[0] = <<>>
                 /\ \A k \in 1..(l + n) : g[k] = IF q[k][1] = d THEN Append(g[k - 1], q[k][2]) ELSE g[k - 1]
    <3>1. PICK g : PickedBy(g, q, d)
      BY <1>2, PickedIs
    <3>2. Len(q) = l + n
      BY <1>2
    <3> QED
      BY <3>1, <3>2 DEF PickedBy
  <2> DEFINE S == {k \in 0..l : g[k] = f[k]}
  <2>3. 0 \in S
    BY <1>2, <2>1, <2>2
  <2>4. ASSUME NEW k \in 1..l, k - 1 \in S PROVE k \in S
    <3>1. k \in 1..(l + n) /\ q[k] = o[k] /\ g[k - 1] = f[k - 1] /\ k \in 0..l
      BY <1>2, <2>4
    <3>2. f[k] = IF o[k][1] = d THEN Append(f[k - 1], o[k][2]) ELSE f[k - 1]
      BY <2>1
    <3>3. g[k] = IF q[k][1] = d THEN Append(g[k - 1], q[k][2]) ELSE g[k - 1]
      BY <2>2, <3>1
    <3> QED
      BY <3>1, <3>2, <3>3
  <2>5. l \in S
    <3> HIDE DEF S
    <3>1. 0..l \subseteq S
      BY <1>2, <2>3, <2>4, Upwards
    <3> QED
      BY <1>2, <3>1
  <2>6. ASSUME NEW j \in 1..n
        PROVE  g[l + j] = IF c = d THEN Append(g[l + j - 1], <<t, i + j>>) ELSE g[l + j - 1]
    <3>1. PICK k \in 1..(l + n) : k = l + j
      <4>1. l + j \in 1..(l + n)
        BY <1>2
      <4> QED
        BY <4>1
    <3>2. q[k][1] = c /\ q[k][2] = <<t, i + j>>
      BY <1>1, <1>2, <3>1
    <3>3. g[k] = IF q[k][1] = d THEN Append(g[k - 1], q[k][2]) ELSE g[k - 1]
      BY <2>2
    <3>4. PICK h : h = k - 1
      OBVIOUS
    <3>5. l + j - 1 = h
      BY <1>2, <3>1, <3>4
    <3>6. PICK e : e = <<t, i + j>>
      OBVIOUS
    <3>7. g[k] = IF c = d THEN Append(g[h], e) ELSE g[h]
      BY <3>2, <3>3, <3>4, <3>6
    <3> QED
      BY <3>1, <3>5, <3>6, <3>7
  <2> QED
    BY <2>1, <2>2, <2>5, <2>6
<1>4. ASSUME NEW d, d # c PROVE Picked(q, d) = Picked(o, d)
  <2>1. PICK f, g : /\ Picked(o, d) = f[l] /\ Picked(q, d) = g[l + n] /\ g[l] = f[l]
                    /\ \A j \in 1..n : g[l + j] = IF c = d THEN Append(g[l + j - 1], <<t, i + j>>)
                                                           ELSE g[l + j - 1]
    BY <1>3
  <2> DEFINE S == {j \in 0..n : g[l + j] = f[l]}
  <2>2. 0 \in S
    BY <1>2, <2>1
  <2>3. ASSUME NEW j \in 1..n, j - 1 \in S PROVE j \in S
    <3>1. l + (j - 1) = l + j - 1 /\ j \in 0..n
      BY <1>2
    <3>2. g[l + j] = g[l + j - 1]
      BY <1>4, <2>1
    <3> QED
      BY <2>3, <3>1, <3>2
  <2>4. n \in S
    <3> HIDE DEF S
    <3>1. 0..n \subseteq S
      BY <2>2, <2>3, Upwards
    <3> QED
      BY <3>1
  <2> QED
    BY <2>1, <2>4
<1>5. ASSUME Picked(o, c) = FirstRows(t, i) PROVE Picked(q, c) = FirstRows(t, i + n)
  <2>1. PICK f, g : /\ Picked(o, c) = f[l] /\ Picked(q, c) = g[l + n] /\ g[l] = f[l]
                    /\ \A j \in 1..n : g[l + j] = IF c = c THEN Append(g[l + j - 1], <<t, i + j>>)
                                                           ELSE g[l + j - 1]
    BY <1>3
  <2> DEFINE S == {j \in 0..n : g[l + j] = FirstRows(t, i + j)}
  <2>2. 0 \in S
    <3>1. i + 0 = i /\ l + 0 = l /\ 0 \in 0..n
      BY <1>2
    <3>2. FirstRows(t, i + 0) = FirstRows(t, i) /\ g[l + 0] = g[l]
      BY <3>1
    <3> QED
      BY <1>5, <2>1, <3>1, <3>2
  <2>3. ASSUME NEW j \in 1..n, j - 1 \in S PROVE j \in S
    <3>1. l + (j - 1) = l + j - 1 /\ j \in 0..n
      BY <1>2
    <3>2. g[l + j] = Append(g[l + j - 1], <<t, i + j>>)
      BY <2>1
    <3>3. PICK m \in Nat : m = i + (j - 1)
      OBVIOUS
    <3>4. m + 1 = i + j /\ g[l + j - 1] = FirstRows(t, m)
      BY <2>3, <3>1, <3>3
    <3>5. Append(FirstRows(t, m), <<t, m + 1>>) = FirstRows(t, m + 1)
      BY FirstGrows
    <3>6. g[l + j] = FirstRows(t, i + j)
      BY <3>2, <3>4, <3>5
    <3> QED
      BY <3>1, <3>6
  <2>4. n \in S
    <3> HIDE DEF S
    <3>1. 0..n \subseteq S
      BY <2>2, <2>3, Upwards
    <3> QED
      BY <3>1
  <2> QED
    BY <2>1, <2>4
<1> QED
  BY <1>4, <1>5 DEF q, AddsTo

-----------------------------------------------------------------------------
(* All rows, each once, in order.                                          *)

\* Nothing is left of an answer in st, and no answer is printed that has not
\* come as it should.
Steady ==
  calm /\ ~raw =>
    /\ pc \in {"repl", "fetch"} => st = "UNK"
    /\ pc = "recv" => fresh \/ (~curl /\ rest = <<>> /\ st = "UNK")
    /\ pc = "print" => fresh

(* There is always an answer in the buffer then.                           *)
LEMMA NeverBlank ==
  ASSUME TypeOK, Collected, Steady, PrintNothing \/ PrintNever, Tricky = {}
  PROVE  ~calm /\ ~calm'
<1>1. pc = "print" /\ ~raw /\ calm' = calm /\ (Blank(buf) \/ Endless(buf))
  <2>1. PrintNever => pc = "print" /\ ~raw /\ calm' = calm /\ Endless(buf)
    BY Zenon DEF PrintNever, callVars
  <2>2. PrintNothing => pc = "print" /\ ~raw /\ calm' = calm /\ Blank(buf)
    BY PrintedNothing DEF callVars
  <2> QED
    BY <2>1, <2>2
<1>2. SUFFICES ASSUME calm PROVE FALSE
  BY <1>1
<1>3. fresh /\ Assembled
  BY <1>1, <1>2, CollectedAssembles DEF Steady
<1>4. PICK t, k, n : t = sid /\ k = iitem /\ n = Held(sid, iitem)
  OBVIOUS
<1>5. n \in Nat /\ Data(buf, t, k, n)
  BY <1>1, <1>3, <1>4, BufferIs
<1>6. Len(buf) \in Nat /\ Len(buf) # 0 /\ buf[1] # Comma
  <2>1. Len(buf) = n + 2 /\ buf[1] = Open(t)
    BY <1>5 DEF Data
  <2>2. Open(t)[1] = "open" /\ Comma[1] = "comma"
    BY DEF Open, Comma
  <2> QED
    BY <1>5, <2>1, <2>2
<1>7. First(buf) = 1
  <2>1. /\ First(buf) \in 1..(Len(buf) + 1) /\ \A m \in 1..(First(buf) - 1) : buf[m] = Comma
    BY <1>6, FirstIs
  <2>2. First(buf) > 1 => 1 \in 1..(First(buf) - 1)
    BY <1>6, <2>1
  <2> QED
    BY <1>6, <2>1, <2>2
<1>8. ~Blank(buf) /\ ~Endless(buf)
  BY <1>6, <1>7 DEF Blank, Endless
<1> QED
  BY <1>1, <1>8

\* What has been printed for the arguments up to the present one.
Ordered ==
  calm /\ ~raw =>
    /\ out \in Seq(Printed)
    /\ \A c \in 1..Len(Sids) : \E m \in 0..Total[Sids[c]] : RowsOf(c) = FirstRows(Sids[c], m)
    /\ \A c \in 1..Len(Sids) : c > cur => RowsOf(c) = FirstRows(Sids[c], 0)
    /\ \A c \in 1..Len(rcs) : rcs[c] = 0 => RowsOf(c) = FirstRows(Sids[c], Total[Sids[c]])
    /\ pc \in {"fetch", "recv", "print"} =>
         iitem <= Total[sid] /\ nitem \in {0, Total[sid]} /\ RowsOf(cur) = FirstRows(sid, iitem)

Counted == Len(rcs) = IF pc \in {"repl", "done"} THEN cur ELSE cur - 1
Silent  == raw => out = <<>>

IInv == TypeOK /\ Collected /\ Steady /\ Ordered /\ Counted /\ Silent

LEMMA RowsOfIs == \A c : RowsOf(c) = Picked(out, c)
BY DEF RowsOf, Picked

LEMMA RowsOfThen == \A c : RowsOf(c)' = Picked(out', c)
BY DEF RowsOf, Picked

LEMMA RowsSame ==
  ASSUME out' = out
  PROVE  \A c : RowsOf(c)' = RowsOf(c)
BY RowsOfIs, RowsOfThen

LEMMA RowsNone ==
  ASSUME out = <<>>
  PROVE  \A c, t : RowsOf(c) = FirstRows(t, 0)
<1> TAKE c, t
<1>1. Len(out) = 0
  OBVIOUS
<1>2. PICK f : PickedBy(f, out, c)
  BY <1>1, PickedIs
<1>3. Picked(out, c) = <<>>
  BY <1>1, <1>2 DEF PickedBy
<1>4. FirstRows(t, 0) = <<>>
  <2>1. FirstRows(t, 0) \in Seq({<<t, k>> : k \in Nat}) /\ Len(FirstRows(t, 0)) = 0
    BY DEF FirstRows
  <2> HIDE DEF FirstRows
  <2> QED
    BY <2>1, EmptySeq
<1> QED
  BY <1>3, <1>4, RowsOfIs

LEMMA InvInit ==
  ASSUME Init
  PROVE  IInv
<1>1. /\ pc = "repl" /\ cur = 0 /\ st = "UNK" /\ out = <<>> /\ rcs = <<>>
  BY DEF Init, RecvInit
<1>2. TypeOK
  BY TypedInit
<1>3. Len(rcs) = 0 /\ Len(Sids) \in Nat
  BY <1>1, SidAssumption
<1>4. Ordered
  <2>1. out \in Seq(Printed)
    BY <1>1
  <2>2. \A c : RowsOf(c) = FirstRows(Sids[c], 0)
    BY <1>1, RowsNone
  <2>3. \A c \in 1..Len(Sids) : 0 \in 0..Total[Sids[c]]
    BY SidAssumption
  <2>4. 1..Len(rcs) = {} /\ pc \notin {"fetch", "recv", "print"}
    BY <1>1, <1>3
  <2> QED
    BY <2>1, <2>2, <2>3, <2>4 DEF Ordered
<1>5. Collected /\ Steady /\ Counted /\ Silent
  BY <1>1, <1>3 DEF Collected, Steady, Counted, Silent
<1> QED
  BY <1>2, <1>4, <1>5 DEF IInv

\* A step that prints nothing and does not return.
LEMMA OrderedStays ==
  ASSUME Ordered, UNCHANGED <<raw, cur, iitem, nitem, out, rcs>>, calm' => calm,
         pc' \in {"fetch", "recv", "print"} => pc \in {"fetch", "recv", "print"}
  PROVE  Ordered'
<1>1. \A c : RowsOf(c)' = RowsOf(c)
  BY RowsSame
<1>2. RowsOf(cur)' = RowsOf(cur) /\ sid' = sid
  <2>1. RowsOf(cur)' = Picked(out', cur') /\ RowsOf(cur) = Picked(out, cur)
    BY DEF RowsOf, Picked
  <2> QED
    BY <2>1 DEF sid
<1> QED
  BY <1>1, <1>2 DEF Ordered

\* A step that returns, but not with success.
LEMMA OrderedFails ==
  ASSUME TypeOK, Ordered, UNCHANGED <<raw, cur, calm, out>>, pc' = "repl", rcs' = Append(rcs, 1)
  PROVE  Ordered'
<1>1. \A c : RowsOf(c)' = RowsOf(c)
  BY RowsSame
<1>2. /\ Len(rcs') = Len(rcs) + 1 /\ Len(rcs) \in Nat
      /\ \A c \in 1..Len(rcs) : rcs'[c] = rcs[c]
      /\ rcs'[Len(rcs) + 1] = 1
  <2>1. rcs \in Seq({0, 1}) /\ 1 \in {0, 1}
    BY DEF TypeOK
  <2> QED
    BY <2>1, AppendProperties, LenProperties
<1>3. \A c \in 1..Len(rcs') : rcs'[c] = 0 => c \in 1..Len(rcs) /\ rcs[c] = 0
  <2>1. \A c \in 1..Len(rcs') : c \in 1..Len(rcs) \/ c = Len(rcs) + 1
    BY <1>2
  <2> QED
    BY <1>2, <2>1
<1> QED
  BY <1>1, <1>3 DEF Ordered

LEMMA OrderedNextSid ==
  ASSUME TypeOK, Ordered, NextSid
  PROVE  Ordered'
<1>1. /\ pc = "repl" /\ cur < Len(Sids) /\ cur' = cur + 1 /\ iitem' = 0 /\ nitem' = 0
      /\ UNCHANGED <<raw, calm, out, rcs>>
  BY DEF NextSid
<1>2. \A c : RowsOf(c)' = RowsOf(c)
  BY <1>1, RowsSame
<1>3. cur \in Nat /\ Len(Sids) \in Nat
  BY SidAssumption DEF TypeOK
<1>4. PICK d : d = cur + 1
  OBVIOUS
<1>5. d \in 1..Len(Sids) /\ d > cur /\ cur' = d
  BY <1>1, <1>3, <1>4
<1>6. RowsOf(cur)' = Picked(out', cur')
  BY DEF RowsOf, Picked
<1>7. RowsOf(cur)' = RowsOf(d)
  BY <1>1, <1>5, <1>6, RowsOfIs
<1>8. sid' = Sids[d] /\ Total[Sids[d]] \in Nat
  BY <1>5, SidAssumption DEF sid
<1>9. \A c \in 1..Len(Sids) : c > cur' => c > cur
  BY <1>3, <1>4, <1>5
<1>10. calm /\ ~raw => RowsOf(cur)' = FirstRows(sid', iitem') /\ iitem' <= Total[sid'] /\ nitem' = 0
  BY <1>1, <1>5, <1>7, <1>8 DEF Ordered
<1> QED
  BY <1>1, <1>2, <1>9, <1>10 DEF Ordered

LEMMA OrderedPrints ==
  ASSUME IInv, PrintPage, Tricky = {}
  PROVE  Ordered'
<1>1. /\ pc = "print" /\ ~raw /\ UNCHANGED <<raw, cur, calm>>
      /\ More => pc' = "fetch" /\ rcs' = rcs
      /\ ~More => Return(0)
  BY DEF PrintPage, callVars
<1> SUFFICES ASSUME calm
             PROVE  Ordered'
  BY <1>1 DEF Ordered
<1>2. TypeOK /\ Collected /\ Steady /\ Ordered /\ Counted
  BY DEF IInv
<1>3. fresh /\ Assembled
  BY <1>1, <1>2, CollectedAssembles DEF Steady
<1>4. PICK t, i, c : t = sid /\ i = iitem /\ c = cur
  OBVIOUS
<1>5. PICK n : n = Held(sid, iitem)
  OBVIOUS
<1>6. t \in Isins /\ i \in Nat /\ n \in Nat /\ Total[t] \in Nat
  <2>1. cur # 0
    BY <1>1, <1>2 DEF TypeOK
  <2>2. sid \in Isins /\ iitem \in Nat
    BY <1>2, <2>1, SidIs DEF TypeOK
  <2>3. Held(sid, iitem) \in Nat /\ Total[sid] \in Nat
    BY <2>2, HeldIs
  <2> QED
    BY <1>4, <1>5, <2>2, <2>3
<1>7. c \in 1..Len(Sids) /\ t = Sids[c] /\ cur' = c /\ sid' = t /\ Len(Sids) \in Nat
  BY <1>1, <1>2, <1>4, SidAssumption DEF TypeOK, sid
<1>8. /\ out' = out \o Page(c, t, i, n) /\ iitem' = i + n
      /\ nitem' \in {Total[t], nitem} /\ (nitem = 0 => nitem' = Total[t])
  BY <1>2, <1>3, <1>4, <1>5, PageIs
<1>9. /\ out \in Seq(Printed)
      /\ \A d \in 1..Len(Sids) : \E m \in 0..Total[Sids[d]] : RowsOf(d) = FirstRows(Sids[d], m)
      /\ \A d \in 1..Len(Sids) : d > c => RowsOf(d) = FirstRows(Sids[d], 0)
      /\ \A d \in 1..Len(rcs) : rcs[d] = 0 => RowsOf(d) = FirstRows(Sids[d], Total[Sids[d]])
      /\ i <= Total[t] /\ nitem \in {0, Total[t]} /\ RowsOf(c) = FirstRows(t, i)
  BY <1>1, <1>2, <1>4 DEF Ordered
<1>10. nitem' = Total[t]
  BY <1>8, <1>9
<1>11. i + n <= Total[t]
  <2>1. Upto(sid, iitem) = iitem + Held(sid, iitem)
    BY <1>4, <1>6, <1>9, HeldIs
  <2>2. Upto(sid, iitem) <= Total[sid]
    BY <1>4, <1>6, PageAssumption DEF Upto
  <2> QED
    BY <1>4, <1>5, <2>1, <2>2
<1> DEFINE p == Page(c, t, i, n)
<1>12. p \in Seq(Printed)
  <2>1. \A j \in 1..n : <<c, <<t, i + j>>>> \in Printed
    BY <1>6, <1>7 DEF Printed
  <2>2. p \in [1..n -> Printed]
    BY <2>1 DEF Page
  <2> HIDE DEF p
  <2> QED
    BY <1>6, <2>2, SeqDef
<1> HIDE DEF p
<1>13. /\ \A d : d # c => RowsOf(d)' = RowsOf(d)
       /\ RowsOf(c)' = FirstRows(t, i + n)
       /\ out' \in Seq(Printed)
  <2>1. PICK o : o = out
    OBVIOUS
  <2>2. o \in Seq(Printed) /\ out' = o \o p
    BY <1>8, <1>9, <2>1 DEF p
  <2>3. /\ \A d : d # c => Picked(o \o p, d) = Picked(o, d)
        /\ Picked(o, c) = FirstRows(t, i) => Picked(o \o p, c) = FirstRows(t, i + n)
    <3>1. p = Page(c, t, i, n)
      BY DEF p
    <3>2. AddsTo(o, p, c, t, i, n)
      BY <1>6, <1>12, <2>2, <3>1, PagePicked
    <3> QED
      BY <3>2 DEF AddsTo
  <2>4. Picked(o, c) = FirstRows(t, i)
    BY <1>9, <2>1, RowsOfIs
  <2>5. o \o p \in Seq(Printed)
    BY <1>12, <2>2, Joined
  <2>6. \A d : RowsOf(d)' = Picked(o \o p, d) /\ RowsOf(d) = Picked(o, d)
    BY <2>1, <2>2, RowsOfIs, RowsOfThen
  <2> QED
    BY <2>2, <2>3, <2>4, <2>5, <2>6
<1>14. \A d \in 1..Len(Sids) : \E m \in 0..Total[Sids[d]] : RowsOf(d)' = FirstRows(Sids[d], m)
  <2>1. TAKE d \in 1..Len(Sids)
  <2>2. CASE d = c
    <3>1. i + n \in 0..Total[t]
      BY <1>6, <1>11
    <3> QED
      BY <1>7, <1>13, <2>2, <3>1
  <2>3. CASE d # c
    BY <1>9, <1>13, <2>3
  <2> QED
    BY <2>2, <2>3
<1>15. \A d \in 1..Len(Sids) : d > c => RowsOf(d)' = FirstRows(Sids[d], 0)
  BY <1>7, <1>9, <1>13
<1>16. Len(rcs) \in Nat /\ Len(rcs) + 1 = c /\ rcs \in Seq({0, 1})
  <2>1. rcs \in Seq({0, 1}) /\ Len(rcs) = cur - 1
    BY <1>1, <1>2 DEF TypeOK, Counted
  <2> QED
    BY <1>4, <1>7, <2>1, LenProperties
<1>17. \A d \in 1..Len(rcs) : rcs[d] = 0 => RowsOf(d)' = FirstRows(Sids[d], Total[Sids[d]])
  <2>1. \A d \in 1..Len(rcs) : d # c
    BY <1>16
  <2> QED
    BY <1>9, <1>13, <2>1
<1>18. \A d \in 1..Len(rcs') : rcs'[d] = 0 => RowsOf(d)' = FirstRows(Sids[d], Total[Sids[d]])
  <2>1. CASE More
    BY <1>1, <1>17, <2>1
  <2>2. CASE ~More
    <3>1. rcs' = Append(rcs, 0)
      BY <1>1, <2>2 DEF Return
    <3>2. Len(rcs') = Len(rcs) + 1 /\ \A d \in 1..Len(rcs) : rcs'[d] = rcs[d]
      <4>1. 0 \in {0, 1}
        OBVIOUS
      <4> QED
        BY <1>16, <3>1, <4>1, AppendProperties
    <3>3. i + n = Total[t]
      <4>1. ~(i + n < Total[t])
        BY <1>8, <1>10, <2>2 DEF More
      <4> QED
        BY <1>6, <1>11, <4>1
    <3>4. \A d \in 1..Len(rcs') : d \in 1..Len(rcs) \/ d = c
      BY <1>16, <3>2
    <3>5. RowsOf(c)' = FirstRows(Sids[c], Total[Sids[c]])
      BY <1>7, <1>13, <3>3
    <3> QED
      BY <1>17, <3>2, <3>4, <3>5
  <2> QED
    BY <2>1, <2>2
<1>19. RowsOf(cur)' = FirstRows(sid', iitem')
  <2>1. RowsOf(cur)' = Picked(out', cur') /\ RowsOf(c)' = Picked(out', c)
    BY DEF RowsOf, Picked
  <2> QED
    BY <1>7, <1>8, <1>13, <2>1
<1>20. iitem' <= Total[sid'] /\ nitem' \in {0, Total[sid']}
  BY <1>7, <1>8, <1>10, <1>11
<1> QED
  BY <1>7, <1>13, <1>14, <1>15, <1>18, <1>19, <1>20 DEF Ordered

LEMMA OrderedNext ==
  ASSUME IInv, [Next]_vars, Tricky = {}
  PROVE  Ordered'
<1> USE DEF callVars
<1>1. TypeOK /\ Ordered
  BY DEF IInv
<1>2. CASE NextSid
  BY <1>1, <1>2, OrderedNextSid
<1>3. CASE Exit \/ Fetch \/ Chunk \/ TransferEnds \/ UNCHANGED vars
  <2>1. Fetch => (calm' => calm)
    BY DEF Fetch, Reply
  <2>2. Chunk => (calm' => calm)
    BY DEF Chunk
  <2>3. /\ UNCHANGED <<raw, cur, iitem, nitem, out, rcs>>
        /\ calm' => calm
        /\ pc' \in {"fetch", "recv", "print"} => pc \in {"fetch", "recv", "print"}
    <3>1. CASE Exit
      BY <3>1 DEF Exit
    <3>2. CASE Fetch
      BY <2>1, <3>2 DEF Fetch
    <3>3. CASE Chunk
      BY <2>2, <3>3 DEF Chunk
    <3>4. CASE TransferEnds
      BY <3>4 DEF TransferEnds
    <3>5. CASE UNCHANGED vars
      BY <3>5 DEF vars
    <3> QED
      BY <1>3, <3>1, <3>2, <3>3, <3>4, <3>5
  <2> QED
    BY <1>1, <2>3, OrderedStays
<1>4. CASE TransferFails \/ PrintInvalid
  <2>1. UNCHANGED <<raw, cur, calm, out>> /\ pc' = "repl" /\ rcs' = Append(rcs, 1)
    BY <1>4 DEF TransferFails, PrintInvalid, Return
  <2> QED
    BY <1>1, <2>1, OrderedFails
<1>5. CASE PrintRaw
  BY <1>5 DEF PrintRaw, Ordered
<1>6. CASE PrintPage
  BY <1>6, OrderedPrints
<1>7. CASE PrintNothing \/ PrintNever
  BY <1>7, NeverBlank DEF IInv, Ordered
<1> QED
  BY <1>2, <1>3, <1>4, <1>5, <1>6, <1>7 DEF Next, Step, Terminated

LEMMA SteadyNext ==
  ASSUME IInv, [Next]_vars, Tricky = {}
  PROVE  Steady'
<1> USE DEF callVars
<1>1. TypeOK /\ Steady /\ Collected /\ Assembled
  BY CollectedAssembles DEF IInv
<1>2. CASE NextSid \/ Exit
  BY <1>1, <1>2 DEF NextSid, Exit, Steady, recvVars
<1>3. CASE Fetch
  <2>1. pc = "fetch" /\ pc' = "recv" /\ st' = st /\ raw' = raw
    BY <1>3 DEF Fetch, recvVars
  <2>2. PICK A : A = Answer(sid, iitem)
    OBVIOUS
  <2>3. \/ Reply("page", A, TRUE)
        \/ Reply("refused", <<>>, FALSE)
        \/ Reply("error", ErrorPage, TRUE)
        \/ \E m \in 1..(Len(A) - 1) : Reply("cut", SubSeq(A, 1, m), FALSE)
    BY <1>3, <2>2, Zenon DEF Fetch
  <2>4. ASSUME NEW how, NEW body, NEW ok, Reply(how, body, ok), calm', ~raw
        PROVE  st = "UNK" /\ how \in {"page", "refused"}
    BY <1>1, <2>1, <2>4 DEF Reply, Steady
  <2>5. ASSUME calm', ~raw PROVE fresh' \/ (~curl' /\ rest' = <<>> /\ st' = "UNK")
    <3>1. CASE Reply("page", A, TRUE)
      BY <2>4, <2>5, <3>1 DEF Reply
    <3>2. CASE Reply("refused", <<>>, FALSE)
      <4>1. st = "UNK" /\ curl' = FALSE /\ rest' = <<>>
        BY <2>4, <2>5, <3>2 DEF Reply
      <4> QED
        BY <2>1, <4>1
    <3>3. CASE Reply("error", ErrorPage, TRUE) \/ \E m \in 1..(Len(A) - 1) : Reply("cut", SubSeq(A, 1, m), FALSE)
      <4>1. PICK how, body, ok : Reply(how, body, ok) /\ how \notin {"page", "refused"}
        <5>1. "error" \notin {"page", "refused"} /\ "cut" \notin {"page", "refused"}
          OBVIOUS
        <5> QED
          BY <3>3, <5>1
      <4> QED
        BY <2>4, <2>5, <4>1
    <3> QED
      BY <2>3, <3>1, <3>2, <3>3
  <2> QED
    BY <2>1, <2>5 DEF Steady
<1>4. CASE Chunk
  <2>1. PICK k \in 1..(IF Len(rest) < MaxChunk THEN Len(rest) ELSE MaxChunk) :
          /\ fresh' = (fresh /\ CleanCut(k))
          /\ calm' = (calm /\ CleanCut(k))
    BY <1>4 DEF Chunk
  <2>2. pc = "recv" /\ rest # <<>> /\ pc' = "recv" /\ raw' = raw
    BY <1>4 DEF Chunk
  <2> QED
    BY <1>1, <2>1, <2>2 DEF Steady
<1>5. CASE TransferFails
  <2>1. pc = "recv" /\ ~curl /\ pc' = "repl" /\ UNCHANGED <<raw, calm, st>>
    BY <1>5 DEF TransferFails, Return, recvVars
  <2>2. ~raw /\ fresh => curl
    BY <1>1, <2>1 DEF Collected, Collects
  <2> QED
    BY <1>1, <2>1, <2>2 DEF Steady
<1>6. CASE TransferEnds
  BY <1>1, <1>6 DEF TransferEnds, Steady
<1>7. CASE PrintRaw
  BY <1>7 DEF PrintRaw, Steady
<1>8. CASE PrintInvalid \/ PrintPage
  <2>1. pc = "print" /\ ~raw /\ UNCHANGED <<raw, calm, st>> /\ pc' \in {"repl", "fetch"}
    <3>1. PrintPage => (More => pc' = "fetch") /\ (~More => Return(0))
      BY DEF PrintPage
    <3>2. PrintPage => pc' \in {"repl", "fetch"}
      BY <3>1 DEF Return
    <3>3. PrintPage => pc = "print" /\ ~raw /\ UNCHANGED <<raw, calm, st>>
      BY DEF PrintPage, recvVars
    <3> QED
      BY <1>8, <3>2, <3>3 DEF PrintInvalid, Return, recvVars
  <2>2. calm => st = "UNK"
    BY <1>1, <2>1 DEF Steady, Assembled
  <2> QED
    BY <2>1, <2>2 DEF Steady
<1>9. CASE UNCHANGED vars
  BY <1>1, <1>9 DEF vars, recvVars, Steady
<1>10. CASE PrintNothing \/ PrintNever
  BY <1>10, NeverBlank DEF IInv, Steady
<1> QED
  BY <1>2, <1>3, <1>4, <1>5, <1>6, <1>7, <1>8, <1>9, <1>10 DEF Next, Step, Terminated

LEMMA CountedNext ==
  ASSUME IInv, [Next]_vars
  PROVE  Counted' /\ Silent'
<1> USE DEF callVars
<1>1. TypeOK /\ Counted /\ Silent
  BY DEF IInv
<1>2. cur \in Nat /\ rcs \in Seq({0, 1}) /\ Len(rcs) \in Nat
  BY <1>1, SidAssumption, LenProperties DEF TypeOK
<1>3. \A x \in {0, 1} : Len(Append(rcs, x)) = Len(rcs) + 1
  BY <1>2, AppendProperties
<1>4. CASE NextSid
  BY <1>1, <1>2, <1>4 DEF NextSid, Counted, Silent
<1>5. CASE Exit \/ Fetch \/ Chunk \/ TransferEnds \/ UNCHANGED vars
  <2>1. /\ UNCHANGED <<raw, cur, out, rcs>>
        /\ pc \in {"repl", "done"} <=> pc' \in {"repl", "done"}
    <3>1. CASE Exit
      BY <3>1 DEF Exit
    <3>2. CASE Fetch
      BY <3>2 DEF Fetch
    <3>3. CASE Chunk
      BY <3>3 DEF Chunk
    <3>4. CASE TransferEnds
      BY <3>4 DEF TransferEnds
    <3>5. CASE UNCHANGED vars
      BY <3>5 DEF vars
    <3> QED
      BY <1>5, <3>1, <3>2, <3>3, <3>4, <3>5
  <2> QED
    BY <1>1, <2>1 DEF Counted, Silent
<1>6. CASE TransferFails \/ PrintRaw \/ PrintInvalid
  <2>1. /\ pc \in {"recv", "print"} /\ pc' = "repl" /\ UNCHANGED <<raw, cur, out>>
        /\ rcs' \in {Append(rcs, 0), Append(rcs, 1)}
    BY <1>6 DEF TransferFails, PrintRaw, PrintInvalid, Return
  <2>2. Len(rcs') = Len(rcs) + 1
    BY <1>3, <2>1
  <2> QED
    BY <1>1, <1>2, <2>1, <2>2 DEF Counted, Silent
<1>7. CASE PrintPage
  <2>1. /\ pc = "print" /\ ~raw /\ UNCHANGED <<raw, cur>>
        /\ More => pc' = "fetch" /\ rcs' = rcs
        /\ ~More => Return(0)
    BY <1>7 DEF PrintPage
  <2>2. CASE More
    BY <1>1, <2>1, <2>2 DEF Counted, Silent
  <2>3. CASE ~More
    <3>1. pc' = "repl" /\ Len(rcs') = Len(rcs) + 1
      BY <1>3, <2>1, <2>3 DEF Return
    <3> QED
      BY <1>1, <1>2, <2>1, <3>1 DEF Counted, Silent
  <2> QED
    BY <2>2, <2>3
<1>8. CASE PrintNothing
  <2>1. /\ pc = "print" /\ UNCHANGED <<raw, cur, out>>
        /\ (pc' = "fetch" /\ rcs' = rcs) \/ (pc' = "repl" /\ rcs' = Append(rcs, 0))
    BY <1>8, PrintedNothing
  <2>2. CASE pc' = "fetch" /\ rcs' = rcs
    BY <1>1, <2>1, <2>2 DEF Counted, Silent
  <2>3. CASE pc' = "repl" /\ rcs' = Append(rcs, 0)
    <3>1. Len(rcs') = Len(rcs) + 1
      BY <1>3, <2>3
    <3> QED
      BY <1>1, <1>2, <2>1, <2>3, <3>1 DEF Counted, Silent
  <2> QED
    BY <2>1, <2>2, <2>3
<1>9. CASE PrintNever
  BY <1>1, <1>9 DEF PrintNever, Counted, Silent
<1> QED
  BY <1>4, <1>5, <1>6, <1>7, <1>8, <1>9 DEF Next, Step, Terminated

LEMMA Invariance ==
  ASSUME Tricky = {}
  PROVE  Spec => []IInv
<1>1. Init => IInv
  BY InvInit
<1>2. IInv /\ [Next]_vars => IInv'
  BY TypedNext, CollectsNext, SteadyNext, OrderedNext, CountedNext DEF IInv
<1> QED
  BY <1>1, <1>2, PTL DEF Spec

LEMMA FirstBegins ==
  ASSUME NEW t, NEW n \in Nat, NEW m \in 0..n
  PROVE  Seqs!IsPrefix(FirstRows(t, m), FirstRows(t, n))
<1> DEFINE x == FirstRows(t, m)
           y == FirstRows(t, n)
           T == {<<t, k>> : k \in Nat}
<1>1. x \in Seq(T) /\ Len(x) = m /\ y \in Seq(T) /\ Len(y) = n /\ \A i \in 1..m : x[i] = y[i]
  BY DEF FirstRows
<1> HIDE DEF x, y, T
<1>2. SubSeq(x, 1, Len(x)) = x
  BY <1>1, SubSeqFull
<1>3. PICK a \in Nat \ {0} : a = 1
  OBVIOUS
<1> DEFINE z == SubSeq(y, a, m)
<1>4. z \in Seq(T) /\ Len(z) = m /\ \A i \in 1..m : z[i] = y[i]
  <2>1. m \in Nat /\ m <= Len(y)
    BY <1>1
  <2>2. /\ z \in Seq(T) /\ Len(z) = IF a <= m THEN m - a + 1 ELSE 0
        /\ \A o \in 1..(m - a + 1) : z[o] = y[a + o - 1]
    BY <1>1, <2>1, Part
  <2> HIDE DEF z
  <2>3. \A i \in 1..m : i \in 1..(m - a + 1) /\ a + i - 1 = i
    BY <1>3
  <2> QED
    BY <1>3, <2>1, <2>2, <2>3
<1> HIDE DEF z
<1>5. x = z
  BY <1>1, <1>4, SeqEqual
<1>6. Len(x) <= Len(y) /\ SubSeq(x, 1, Len(x)) = SubSeq(y, 1, Len(x))
  BY <1>1, <1>2, <1>3, <1>5 DEF z
<1> QED
  BY <1>6 DEF Seqs!IsPrefix, x, y

LEMMA WholeIs == \A t : WholeAnswer(t) = FirstRows(t, Total[t])
BY DEF WholeAnswer, FirstRows

LEMMA InvOrders ==
  ASSUME IInv
  PROVE  InOrderOnce /\ Complete
<1>1. TypeOK /\ Ordered /\ Counted /\ Silent
  BY DEF IInv
<1>2. ASSUME calm, NEW c \in 1..Len(Sids) PROVE Seqs!IsPrefix(RowsOf(c), WholeAnswer(Sids[c]))
  <2>1. PICK t : t = Sids[c]
    OBVIOUS
  <2>2. Total[t] \in Nat
    BY <2>1, SidAssumption
  <2>3. PICK m \in 0..Total[t] : RowsOf(c) = FirstRows(t, m)
    <3>1. CASE raw
      <4>1. RowsOf(c) = FirstRows(t, 0) /\ 0 \in 0..Total[t]
        BY <1>1, <2>2, <3>1, RowsNone DEF Silent
      <4> QED
        BY <4>1
    <3>2. CASE ~raw
      BY <1>1, <1>2, <2>1, <3>2 DEF Ordered
    <3> QED
      BY <3>1, <3>2
  <2>4. Seqs!IsPrefix(FirstRows(t, m), FirstRows(t, Total[t]))
    BY <2>2, FirstBegins
  <2> QED
    BY <2>1, <2>3, <2>4, WholeIs
<1>3. ASSUME calm, NEW c \in 1..Len(rcs), ~raw, rcs[c] = 0 PROVE RowsOf(c) = WholeAnswer(Sids[c])
  BY <1>1, <1>3, WholeIs DEF Ordered
<1> QED
  BY <1>2, <1>3 DEF InOrderOnce, Complete

(* As long as the beacons of all answers arrive, no chunk ends in one or   *)
(* between the opening one and the brace (calm), and no row holds the end  *)
(* of the answer: the rows printed for an argument are the beginning of    *)
(* its answer, each once, none skipped, whatever the other chunks and the  *)
(* requests that were refused: Spec => []InOrderOnce.                      *)
THEOREM RowsInOrder ==
  ASSUME Tricky = {}
  PROVE  Spec => []InOrderOnce
<1>1. IInv => InOrderOnce
  BY InvOrders
<1> QED
  BY <1>1, Invariance, PTL

(* And an argument repl reports success for has been printed to the last   *)
(* row: Spec => []Complete.                                                *)
THEOREM AllRows ==
  ASSUME Tricky = {}
  PROVE  Spec => []Complete
<1>1. IInv => Complete
  BY InvOrders
<1> QED
  BY <1>1, Invariance, PTL

-----------------------------------------------------------------------------
(* The end of the pages.                                                   *)

\* No more rows are counted for an argument than there are.
Bounded == calm => cur \in 0..Len(Sids) /\ (cur # 0 => iitem \in 0..Total[sid])

\* The way of a page back to repl.
Order == [fetch |-> 4, recv |-> 3, print |-> 2, repl |-> 1, done |-> 0]

\* What a step gets on with: the arguments, the rows of one, the request for
\* some of them, the answer to it.
Advances == \/ cur' > cur
            \/ cur' = cur /\ iitem' > iitem
            \/ cur' = cur /\ iitem' = iitem /\ Order[pc'] < Order[pc]
            \/ cur' = cur /\ iitem' = iitem /\ pc' = pc /\ Len(rest') < Len(rest)

\* A page another one follows had rows.
LEMMA PagesCount ==
  ASSUME IInv, PrintPage, calm, Tricky = {}
  PROVE  /\ iitem \in Nat /\ iitem' \in Nat /\ cur \in 1..Len(Sids) /\ cur' = cur
         /\ iitem <= iitem' /\ iitem' <= Total[sid]
         /\ pc' # "repl" => iitem < iitem'
<1>1. TypeOK /\ Collected /\ Steady /\ Ordered
  BY DEF IInv
<1>2. /\ pc = "print" /\ ~raw /\ cur' = cur
      /\ ~More => pc' = "repl"
  BY DEF PrintPage, callVars, Return
<1>3. fresh /\ Assembled
  BY <1>1, <1>2, CollectedAssembles DEF Steady
<1>4. PICK t, i, n : t = sid /\ i = iitem /\ n = Held(sid, iitem)
  OBVIOUS
<1>5. cur \in 1..Len(Sids) /\ t \in Isins /\ i \in Nat
  <2>1. cur # 0
    BY <1>1, <1>2 DEF TypeOK
  <2> QED
    BY <1>1, <1>4, <2>1, SidIs, SidAssumption DEF TypeOK
<1>6. i <= Total[t] /\ nitem \in {0, Total[t]}
  BY <1>1, <1>2, <1>4 DEF Ordered
<1>7. n \in Nat /\ Total[t] \in Nat /\ Upto(t, i) = i + n
  BY <1>4, <1>5, <1>6, HeldIs
<1>8. iitem' = i + n /\ nitem' = Total[t]
  BY <1>1, <1>3, <1>4, <1>6, PageIs
<1>9. i + n <= Total[t] /\ (i + n < Total[t] => n > 0)
  BY <1>5, <1>6, <1>7, PageAssumption DEF Upto
<1>10. pc' # "repl" => i + n < Total[t]
  BY <1>2, <1>8 DEF More
<1> QED
  BY <1>2, <1>4, <1>5, <1>7, <1>8, <1>9, <1>10

LEMMA StepAdvances ==
  ASSUME IInv, Step, calm, Tricky = {}
  PROVE  Advances
<1> USE DEF callVars
<1>1. TypeOK
  BY DEF IInv
<1>2. /\ Order["fetch"] = 4 /\ Order["recv"] = 3 /\ Order["print"] = 2
      /\ Order["repl"] = 1 /\ Order["done"] = 0
  BY DEF Order
<1>3. CASE NextSid
  <2>1. cur \in Nat /\ cur' = cur + 1
    BY <1>1, <1>3, SidAssumption DEF NextSid, TypeOK
  <2> QED
    BY <2>1 DEF Advances
<1>4. CASE Exit
  BY <1>2, <1>4 DEF Exit, Advances
<1>5. CASE Fetch
  <2>1. pc = "fetch" /\ pc' = "recv" /\ cur' = cur /\ iitem' = iitem
    BY <1>5 DEF Fetch
  <2> QED
    BY <1>2, <2>1 DEF Advances
<1>6. CASE Chunk
  <2>1. PICK k \in 1..(IF Len(rest) < MaxChunk THEN Len(rest) ELSE MaxChunk) :
          rest' = SubSeq(rest, k + 1, Len(rest))
    BY <1>6 DEF Chunk
  <2>2. rest \in Seq(Sym) /\ Len(rest) \in Nat /\ MaxChunk \in Nat
    BY <1>1, PageAssumption, LenProperties DEF TypeOK
  <2>3. k \in 1..Len(rest)
    BY <2>1, <2>2
  <2>4. Len(rest') < Len(rest)
    BY <2>1, <2>2, <2>3
  <2>5. pc' = pc /\ cur' = cur /\ iitem' = iitem
    BY <1>6 DEF Chunk
  <2> QED
    BY <2>4, <2>5 DEF Advances
<1>7. CASE TransferFails \/ TransferEnds
  <2>1. pc = "recv" /\ pc' \in {"repl", "print"} /\ cur' = cur /\ iitem' = iitem
    BY <1>7 DEF TransferFails, TransferEnds, Return
  <2> QED
    BY <1>2, <2>1 DEF Advances
<1>8. CASE PrintRaw \/ PrintInvalid
  <2>1. pc = "print" /\ pc' = "repl" /\ cur' = cur /\ iitem' = iitem
    BY <1>8 DEF PrintRaw, PrintInvalid, Return
  <2> QED
    BY <1>2, <2>1 DEF Advances
<1>9. CASE PrintPage
  <2>1. /\ iitem \in Nat /\ iitem' \in Nat /\ cur' = cur /\ iitem <= iitem'
        /\ pc' # "repl" => iitem < iitem'
    BY <1>9, PagesCount
  <2>2. pc = "print"
    BY <1>9 DEF PrintPage
  <2> QED
    BY <1>2, <2>1, <2>2 DEF Advances
<1>10. ~PrintNothing /\ ~PrintNever
  BY <1>2, NeverBlank DEF IInv
<1> QED
  BY <1>3, <1>4, <1>5, <1>6, <1>7, <1>8, <1>9, <1>10 DEF Step

LEMMA WithinNext ==
  ASSUME IInv, Bounded, [Next]_vars, Tricky = {}
  PROVE  Bounded'
<1> USE DEF callVars
<1>1. TypeOK /\ Len(Sids) \in Nat
  BY SidAssumption DEF IInv
<1>2. CASE NextSid
  <2>1. cur' = cur + 1 /\ cur \in 0..Len(Sids) /\ cur < Len(Sids) /\ iitem' = 0
    BY <1>1, <1>2 DEF NextSid, TypeOK
  <2>2. PICK d : d = cur + 1
    OBVIOUS
  <2>3. d \in 1..Len(Sids) /\ sid' = Sids[d]
    BY <1>1, <2>1, <2>2 DEF sid
  <2>4. Total[Sids[d]] \in Nat
    BY <2>3, SidAssumption
  <2> QED
    BY <1>1, <2>1, <2>2, <2>3, <2>4 DEF Bounded
<1>3. CASE PrintPage
  <2>1. cur' = cur /\ calm' = calm /\ sid' = sid
    BY <1>3 DEF PrintPage, sid
  <2>2. calm => /\ cur \in 1..Len(Sids) /\ iitem \in Nat /\ iitem' \in Nat
                /\ iitem' <= Total[sid] /\ Total[sid] \in Nat
    BY <1>3, PagesCount, SidAssumption DEF sid
  <2> QED
    BY <1>1, <2>1, <2>2 DEF Bounded
<1>4. ASSUME cur' = cur, iitem' = iitem, calm' => calm PROVE Bounded'
  BY <1>4 DEF Bounded, sid
<1>5. CASE Exit \/ TransferFails \/ TransferEnds \/ PrintRaw \/ PrintInvalid
  BY <1>4, <1>5 DEF Exit, TransferFails, TransferEnds, PrintRaw, PrintInvalid
<1>6. CASE Fetch
  BY <1>4, <1>6 DEF Fetch, Reply
<1>7. CASE Chunk
  BY <1>4, <1>7 DEF Chunk
<1>8. CASE UNCHANGED vars
  BY <1>4, <1>8 DEF vars
<1>9. CASE PrintNothing \/ PrintNever
  BY <1>9, NeverBlank DEF IInv, Bounded
<1> QED
  BY <1>2, <1>3, <1>5, <1>6, <1>7, <1>8, <1>9 DEF Next, Step, Terminated

(* Paging ends for all ISINs, page sizes and chunks: as long as all is     *)
(* calm, as above, each step goes on to the next argument, to a later row  *)
(* of it, on the way of a page, or further in its chunks, and the rows     *)
(* counted for an argument are never more than the service has.  No page   *)
(* is asked for twice.                                                     *)
THEOREM PagesEnd ==
  ASSUME Tricky = {}
  PROVE  Spec => []Bounded /\ [][Step /\ calm => Advances]_vars
<1>1. Init => Bounded
  BY SidAssumption DEF Init, Bounded
<1>2. IInv /\ Bounded /\ [Next]_vars => Bounded'
  BY WithinNext
<1>3. IInv /\ [Next]_vars => [Step /\ calm => Advances]_vars
  BY StepAdvances
<1> QED
  BY Invariance, <1>1, <1>2, <1>3, PTL DEF Spec

-----------------------------------------------------------------------------
(* What holds when no row looks like the end of an answer.                 *)

\* Rows that are printed stand behind the ISIN they are rows of.
Own == calm => out \in Seq(Printed) /\ RightSid

LEMMA OwnPrints ==
  ASSUME IInv, Own, PrintPage, Tricky = {}
  PROVE  Own'
<1>1. /\ pc = "print" /\ ~raw /\ UNCHANGED <<raw, cur, calm>>
  BY DEF PrintPage, callVars
<1> SUFFICES ASSUME calm PROVE out' \in Seq(Printed) /\ RightSid'
  BY <1>1 DEF Own
<1>2. TypeOK /\ Collected /\ Steady /\ RightSid /\ out \in Seq(Printed)
  BY DEF IInv, Own
<1>3. fresh /\ Assembled
  BY <1>1, <1>2, CollectedAssembles DEF Steady
<1>4. PICK t, i, c, n : t = sid /\ i = iitem /\ c = cur /\ n = Held(sid, iitem)
  OBVIOUS
<1>5. cur # 0 /\ sid \in Isins /\ iitem \in Nat
  <2>1. cur # 0
    BY <1>1, <1>2 DEF TypeOK
  <2> QED
    BY <1>2, <2>1, SidIs DEF TypeOK
<1>6. n \in Nat /\ t \in Isins /\ i \in Nat
  BY <1>4, <1>5, HeldIs
<1>7. c \in 1..Len(Sids) /\ t = Sids[c]
  BY <1>2, <1>4, <1>5, SidAssumption DEF TypeOK, sid
<1>8. out' = out \o Page(c, t, i, n)
  BY <1>2, <1>3, <1>4, PageIs
<1> DEFINE p == Page(c, t, i, n)
<1>9. p \in Seq(Printed) /\ Len(p) = n /\ \A j \in 1..n : p[j][1] = c /\ p[j][2][1] = t
  <2>1. \A j \in 1..n : <<c, <<t, i + j>>>> \in Printed
    BY <1>6, <1>7 DEF Printed
  <2> QED
    BY <1>6, <2>1 DEF Page
<1> HIDE DEF p
<1>10. /\ out \o p \in Seq(Printed) /\ Len(out \o p) = Len(out) + Len(p)
       /\ \A k \in 1..Len(out) : (out \o p)[k] = out[k]
       /\ \A j \in 1..Len(p) : (out \o p)[Len(out) + j] = p[j]
  <2>1. out \in Seq(Printed) /\ p \in Seq(Printed)
    BY <1>2, <1>9
  <2> QED
    BY <2>1, Joined
<1>11. Len(out) \in Nat
  BY <1>2, LenProperties
<1>12. ASSUME NEW k \in 1..Len(out') PROVE out'[k][2][1] = Sids[out'[k][1]]
  <2>1. Len(out') = Len(out) + n
    BY <1>8, <1>9, <1>10 DEF p
  <2>2. k \in 1..Len(out) \/ (k - Len(out) \in 1..n /\ Len(out) + (k - Len(out)) = k)
    BY <1>6, <1>11, <2>1
  <2>3. CASE k \in 1..Len(out)
    BY <1>2, <1>8, <1>10, <2>3 DEF RightSid, p
  <2>4. CASE k - Len(out) \in 1..n /\ Len(out) + (k - Len(out)) = k
    <3>1. out'[k] = p[k - Len(out)]
      BY <1>8, <1>9, <1>10, <2>4 DEF p
    <3> QED
      BY <1>7, <1>9, <2>4, <3>1
  <2> QED
    BY <2>2, <2>3, <2>4
<1> QED
  BY <1>8, <1>10, <1>12 DEF RightSid, p

LEMMA OwnNext ==
  ASSUME IInv, Own, [Next]_vars, Tricky = {}
  PROVE  Own'
<1> USE DEF callVars
<1>1. ASSUME out' = out, calm' => calm PROVE Own'
  BY <1>1 DEF Own, RightSid
<1>2. CASE NextSid \/ Exit \/ TransferFails \/ TransferEnds \/ PrintRaw \/ PrintInvalid
  BY <1>1, <1>2 DEF NextSid, Exit, TransferFails, TransferEnds, PrintRaw, PrintInvalid
<1>3. CASE Fetch
  BY <1>1, <1>3 DEF Fetch, Reply
<1>4. CASE Chunk
  BY <1>1, <1>4 DEF Chunk
<1>5. CASE UNCHANGED vars
  BY <1>1, <1>5 DEF vars
<1>6. CASE PrintNothing \/ PrintNever
  BY <1>6, NeverBlank DEF IInv, Own
<1> QED
  BY <1>2, <1>3, <1>4, <1>5, <1>6, OwnPrints DEF Next, Step, Terminated

(* A row is printed behind the ISIN it is a row of.  This fails when an    *)
(* answer comes without beacons, is cut off, or in chunks that end in a    *)
(* beacon or between the opening one and the brace, for the buffer may     *)
(* then keep the rows of another argument, and for no other reason:        *)
(* otherwise, and as long as no row holds the end of the answer, RightSid  *)
(* holds for all ISINs, page sizes and chunks.                             *)
THEOREM OwnRows ==
  ASSUME Tricky = {}
  PROVE  Spec => [](calm => RightSid)
<1>1. Init => Own
  <2>1. <<>> \in Seq(Printed) /\ Len(<<>>) = 0 /\ 1..0 = {}
    OBVIOUS
  <2> QED
    BY <2>1 DEF Init, Own, RightSid
<1>2. IInv /\ Own /\ [Next]_vars => Own'
  BY OwnNext
<1>3. Own => (calm => RightSid)
  BY DEF Own
<1> QED
  BY Invariance, <1>1, <1>2, <1>3, PTL DEF Spec

\* An end of an answer stands behind a brace, or at the start of what is
\* left of the answer.
Ends(s) == \A k \in 2..(Len(s) - 1) : Matches(s, Eo1, Eo2, k) => EndsInBrace(s[k - 1])

LEMMA EndsPart ==
  ASSUME NEW s \in Seq(Sym), Ends(s), NEW a \in Nat \ {0}, NEW b \in Nat, b <= Len(s)
  PROVE  Ends(SubSeq(s, a, b))
<1>1. Len(s) \in Nat
  BY LenProperties
<1> DEFINE z == SubSeq(s, a, b)
<1>2. /\ Len(z) = IF a <= b THEN b - a + 1 ELSE 0
      /\ \A o \in 1..(b - a + 1) : z[o] = s[a + o - 1]
  BY Part
<1> HIDE DEF z
<1>3. ASSUME NEW k \in 2..(Len(z) - 1), Matches(z, Eo1, Eo2, k) PROVE EndsInBrace(z[k - 1])
  <2>1. /\ k - 1 \in 1..(b - a + 1) /\ k \in 1..(b - a + 1) /\ k + 1 \in 1..(b - a + 1)
        /\ a + k - 1 \in 2..(Len(s) - 1)
    BY <1>1, <1>2
  <2>2. z[k - 1] = s[a + (k - 1) - 1] /\ z[k] = s[a + k - 1] /\ z[k + 1] = s[a + (k + 1) - 1]
    BY <1>2, <2>1
  <2>3. PICK j : j = a + k - 1
    OBVIOUS
  <2>4. a + (k - 1) - 1 = j - 1 /\ a + (k + 1) - 1 = j + 1
    BY <2>3
  <2>5. Matches(s, Eo1, Eo2, j) /\ j \in 2..(Len(s) - 1)
    BY <1>3, <2>1, <2>2, <2>3, <2>4 DEF Matches
  <2>6. EndsInBrace(s[j - 1])
    BY <2>5 DEF Ends
  <2> QED
    BY <2>2, <2>4, <2>6
<1> QED
  BY <1>3 DEF Ends, z

LEMMA EndsAnswer ==
  ASSUME NEW t \in Isins, NEW k \in Nat, Tricky = {}
  PROVE  Ends(Answer(t, k))
<1>1. PICK A : A = Answer(t, k)
  OBVIOUS
<1>2. PICK n : n = Held(t, k)
  OBVIOUS
<1>3. n \in Nat /\ Marks(A, n)
  BY <1>1, <1>2, HeldIs, AnswerIs, MarksAre
<1>4. ASSUME NEW i \in 2..(Len(A) - 1), Matches(A, Eo1, Eo2, i) PROVE EndsInBrace(A[i - 1])
  <2>1. i = n + 7 /\ i - 1 = n + 6
    BY <1>3, <1>4 DEF Marks, Matches
  <2> QED
    BY <1>3, <2>1 DEF Marks
<1> QED
  BY <1>1, <1>4 DEF Ends

LEMMA EndsOthers == Ends(<<>>) /\ Ends(ErrorPage)
<1>1. \A k \in 2..(0 - 1) : FALSE
  OBVIOUS
<1>2. \A k \in 2..(2 - 1) : FALSE
  OBVIOUS
<1>3. Len(<<>>) = 0 /\ Len(ErrorPage) = 2
  BY DEF ErrorPage
<1> QED
  BY <1>1, <1>2, <1>3 DEF Ends

LEMMA MemmemFinds ==
  ASSUME NEW data, NEW a, NEW b, Len(data) \in Nat, Memmem(data, a, b) # 0
  PROVE  Memmem(data, a, b) \in 1..(Len(data) - 1) /\ Matches(data, a, b, Memmem(data, a, b))
<1> DEFINE at == {m \in 1..(Len(data) - 1) : data[m] = a /\ data[m + 1] = b}
           c == CHOOSE o \in at : \A m \in at : o <= m
<1>1. Memmem(data, a, b) = IF at = {} THEN 0 ELSE c
  BY DEF Memmem
<1>2. at \subseteq Nat /\ \A m \in at : m \in 1..(Len(data) - 1) /\ Matches(data, a, b, m)
  BY DEF Matches
<1> HIDE DEF at
<1>3. at # {} => c \in at
  BY <1>2, Smallest
<1> HIDE DEF c
<1> QED
  BY <1>1, <1>2, <1>3

\* Rewinding from there does not go back behind the start.
LEMMA TakeKeeps ==
  ASSUME NEW data \in Seq(Sym), NEW sp \in 1..(Len(data) + 1), NEW b, Ends(data), Take(data, sp, b)
  PROVE  ~aborted'
<1>1. PICK found : found = Memmem(data, Eo1, Eo2)
  OBVIOUS
<1>2. PICK ep : ep = IF found < sp THEN Len(data) + 1 ELSE Rewind(data, found)
  OBVIOUS
<1>3. aborted' = (ep < sp)
  BY <1>1, <1>2, Zenon DEF Take
<1>4. Len(data) \in Nat
  BY LenProperties
<1>5. found = 0 \/ (found \in 1..(Len(data) - 1) /\ Matches(data, Eo1, Eo2, found))
  <2>1. Memmem(data, Eo1, Eo2) # 0 =>
          /\ Memmem(data, Eo1, Eo2) \in 1..(Len(data) - 1)
          /\ Matches(data, Eo1, Eo2, Memmem(data, Eo1, Eo2))
    BY <1>4, MemmemFinds
  <2> QED
    BY <1>1, <2>1
<1>6. ~(ep < sp)
  <2>1. CASE found < sp
    BY <1>2, <1>4, <2>1
  <2>2. CASE ~(found < sp)
    <3>1. found \in Nat /\ found # 0 /\ found \in 1..found /\ found \in 1..(Len(data) - 1)
      BY <1>4, <1>5, <2>2
    <3>2. found > 1 => EndsInBrace(data[found - 1])
      BY <1>4, <1>5, <3>1 DEF Ends
    <3>3. \A m \in found..(found - 1) : ~EndsInBrace(data[m])
      BY <3>1
    <3>4. Rewind(data, found) = found
      BY <3>1, <3>2, <3>3, RewindAt
    <3> QED
      BY <1>2, <2>2, <3>1, <3>4
  <2> QED
    BY <2>1, <2>2
<1> QED
  BY <1>3, <1>6, Zenon

LEMMA RecvKeeps ==
  ASSUME NEW data \in Seq(Sym), Ends(data), ~aborted, recv_cb(data)
  PROVE  ~aborted'
<1>0. Len(data) \in Nat
  BY LenProperties
<1>1. CASE UNCHANGED recvVars
  BY <1>1 DEF recvVars
<1>2. CASE Begin(data)
  <2> DEFINE m == Memmem(data, Bo1, Bo2)
             sp == FastForward(data, m)
             b == <<>>
  <2>1. m # 0 /\ Take(data, sp, b)
    BY <1>2 DEF Begin
  <2>2. m \in 1..(Len(data) - 1)
    BY <1>0, <2>1, MemmemRange
  <2> HIDE DEF m
  <2>3. m \in 1..Len(data)
    BY <1>0, <2>2
  <2>4. sp \in m..(Len(data) + 1)
    BY <1>0, <2>3, FastForwardRange
  <2> HIDE DEF sp, b
  <2>5. sp \in 1..(Len(data) + 1)
    BY <1>0, <2>3, <2>4
  <2>6. ~aborted'
    BY <2>1, <2>5, TakeKeeps
  <2> QED
    BY <2>6
<1>3. CASE Continue(data)
  <2> DEFINE sp == 1
  <2>1. sp \in 1..(Len(data) + 1) /\ Take(data, sp, buf)
    BY <1>0, <1>3 DEF Continue
  <2> HIDE DEF sp
  <2>2. ~aborted'
    BY <2>1, TakeKeeps
  <2> QED
    BY <2>2
<1> QED
  BY <1>1, <1>2, <1>3 DEF recv_cb, Waiting, Another

Tidy == ~aborted /\ Ends(rest)

LEMMA TidyNext ==
  ASSUME TypeOK, Tidy, [Next]_vars, Tricky = {}
  PROVE  Tidy'
<1> USE DEF callVars
<1>1. ASSUME rest' = rest, aborted' = aborted PROVE Tidy'
  BY <1>1 DEF Tidy, Ends, Matches
<1>2. CASE NextSid \/ Exit \/ TransferFails \/ TransferEnds \/ PrintRaw \/ PrintInvalid
  BY <1>1, <1>2 DEF NextSid, Exit, TransferFails, TransferEnds, PrintRaw, PrintInvalid, recvVars
<1>3. CASE PrintPage \/ PrintNothing \/ PrintNever
  BY <1>1, <1>3 DEF PrintPage, PrintNothing, PrintNever, recvVars
<1>4. CASE UNCHANGED vars
  BY <1>1, <1>4 DEF vars, recvVars
<1>5. CASE Fetch
  <2>1. pc = "fetch" /\ aborted' = aborted
    BY <1>5 DEF Fetch, recvVars
  <2>2. PICK A : A = Answer(sid, iitem)
    OBVIOUS
  <2>3. A \in Seq(Sym) /\ Ends(A)
    <3>1. sid \in Isins /\ iitem \in Nat
      BY <2>1, SidIs DEF TypeOK
    <3> QED
      BY <2>2, <3>1, AnswerTyped, EndsAnswer
  <2>4. ASSUME NEW n \in 1..(Len(A) - 1) PROVE Ends(SubSeq(A, 1, n))
    <3> DEFINE a == 1
    <3>1. Len(A) \in Nat
      BY <2>3, LenProperties
    <3>2. a \in Nat \ {0} /\ n \in Nat /\ n <= Len(A)
      BY <3>1
    <3> HIDE DEF a
    <3>3. Ends(SubSeq(A, a, n))
      BY <2>3, <3>2, EndsPart
    <3> QED
      BY <3>3 DEF a
  <2>5. \/ Reply("page", A, TRUE)
        \/ Reply("refused", <<>>, FALSE)
        \/ Reply("error", ErrorPage, TRUE)
        \/ \E n \in 1..(Len(A) - 1) : Reply("cut", SubSeq(A, 1, n), FALSE)
    BY <1>5, <2>2, Zenon DEF Fetch
  <2>6. ASSUME NEW how, NEW body, NEW ok, Reply(how, body, ok), Ends(body) PROVE Ends(rest')
    BY <2>6 DEF Reply
  <2>7. Ends(rest')
    BY <2>3, <2>4, <2>5, <2>6, EndsOthers
  <2>8. Ends(rest') => Ends(rest)'
    BY DEF Ends, Matches
  <2> QED
    BY <2>1, <2>7, <2>8 DEF Tidy
<1>6. CASE Chunk
  <2>1. PICK k \in 1..(IF Len(rest) < MaxChunk THEN Len(rest) ELSE MaxChunk) :
          /\ IF raw THEN UNCHANGED recvVars ELSE recv_cb(SubSeq(rest, 1, k))
          /\ rest' = SubSeq(rest, k + 1, Len(rest))
    BY <1>6 DEF Chunk
  <2>2. rest \in Seq(Sym) /\ Len(rest) \in Nat /\ MaxChunk \in Nat
    BY PageAssumption, LenProperties DEF TypeOK
  <2>3. k \in Nat /\ k <= Len(rest) /\ k + 1 \in Nat \ {0} /\ Len(rest) <= Len(rest)
    BY <2>1, <2>2
  <2>4. PICK a \in Nat \ {0} : a = 1
    OBVIOUS
  <2>5. PICK z : z = SubSeq(rest, a, k)
    OBVIOUS
  <2>6. z \in Seq(Sym) /\ Ends(z)
    BY <2>2, <2>3, <2>5, Part, EndsPart DEF Tidy
  <2>7. PICK e \in Nat \ {0} : e = k + 1
    BY <2>3
  <2>8. Ends(rest')
    BY <2>1, <2>2, <2>3, <2>7, EndsPart DEF Tidy
  <2>9. ~aborted'
    <3>1. CASE raw
      BY <2>1, <3>1 DEF Tidy, recvVars
    <3>2. CASE ~raw
      <4>1. recv_cb(z)
        BY <2>1, <2>4, <2>5, <3>2
      <4> QED
        BY <2>6, <4>1, RecvKeeps DEF Tidy
    <3> QED
      BY <3>1, <3>2
  <2>10. Ends(rest') => Ends(rest)'
    BY DEF Ends, Matches
  <2> QED
    BY <2>8, <2>9, <2>10 DEF Tidy
<1> QED
  BY <1>2, <1>3, <1>4, <1>5, <1>6 DEF Next, Step, Terminated

(* assert(ep >= sp) fails because of a row with ");" in a field, and for   *)
(* no other reason: without such a row EndBehindStart holds whatever       *)
(* arrives, cut answers, error pages and chunks cut anywhere included.      *)
THEOREM AssertHolds ==
  ASSUME Tricky = {}
  PROVE  Spec => []EndBehindStart
<1>1. Init => Tidy
  BY EndsOthers DEF Init, RecvInit, Tidy
<1>2. TypeOK /\ Tidy /\ [Next]_vars => Tidy'
  BY TidyNext
<1>3. Tidy => EndBehindStart
  BY DEF Tidy, EndBehindStart
<1> QED
  BY Typed, <1>1, <1>2, <1>3, PTL DEF Spec
=============================================================================
