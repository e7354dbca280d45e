------------------------------ MODULE MeldCfi -------------------------------
(***************************************************************************)
(* meld-cfi: from each line of CFI classes it makes the class they have in *)
(* common, which is printed as a subclass of all of them.  Columns are     *)
(* found by counting bytes, and getline puts one line over the other: what *)
(* is behind the end of a line is left from those before it.               *)
(***************************************************************************)
EXTENDS Integers, Sequences

CONSTANTS
  Byte,     \* what lines are made of
  Printing, \* bytes from ' ' on, as signed characters
  TAB, NL, NUL,
  Width,    \* bytes of a class, "cfi:" and six letters: 10 in the code
  Category, \* bytes up to where all columns have to agree, 6
  Size,     \* of getline's buffer, more than any line needs
  Input,    \* lines there may be, sequences of bytes
  MaxLines  \* bound: lines read

\* Lines are free of NUL and end with NL, the last one may not; none fills the buffer.
ASSUME ByteAssumption ==
  /\ Printing \subseteq Byte /\ {TAB, NL, NUL} \subseteq Byte \ Printing
  /\ TAB # NL /\ TAB # NUL /\ "X" \in Printing
ASSUME LineAssumption ==
  /\ Width \in Nat \ {0} /\ Category \in 1..Width /\ Size \in Nat /\ MaxLines \in Nat
  /\ Input \subseteq Seq(Byte) /\ \A l \in Input : Len(l) + Width < Size

VARIABLES
  line,  \* the buffer
  lines, \* history: what has been read
  out    \* for each line what is printed, or Nothing
meldVars == <<line, lines, out>>

Nothing == [class |-> <<>>, of |-> <<>>]

-----------------------------------------------------------------------------
\* Column j of buffer b; the first is number 0.
Column(b, j) == [i \in 1..Width |-> b[(Width + 1) * j + i]]
\* There is a tab between all of the first n columns, and none behind them.
Columns(b, n) ==
  /\ (Width + 1) * n \in DOMAIN b
  /\ b[(Width + 1) * n] # TAB
  /\ \A k \in 1..(n - 1) : b[(Width + 1) * k] = TAB

SameCategory(b, n) == \A j \in 0..(n - 1), i \in 1..Category : Column(b, j)[i] = b[i]

\* Variants of Letters: one column further, and the last column left out.
LettersPast(b, n, i) == {j \in 0..n : Column(b, j)[i] # "X"}
LettersButLast(b, n, i) == {j \in 0..(n - 2) : Column(b, j)[i] # "X"}
\* The columns that say something at byte i; the first one counts.
Letters(b, n, i) == {j \in 0..(n - 1) : Column(b, j)[i] # "X"}
First(js) == CHOOSE j \in js : \A k \in js : j <= k
Letter(b, n, i) == IF Letters(b, n, i) = {} THEN "X" ELSE Column(b, First(Letters(b, n, i)))[i]

Melded(b, n) == [i \in 1..Width |->
                   IF Letter(b, n, i) \in Printing THEN Letter(b, n, i) ELSE "?"]

\* meld_them, of n columns
Printed(b, n) == IF SameCategory(b, n)
                 THEN [class |-> Melded(b, n), of |-> [j \in 1..n |-> Column(b, j - 1)]]
                 ELSE Nothing

-----------------------------------------------------------------------------
\* The first buffer is fresh from the heap.
MeldInit == line = [i \in 1..Size |-> NUL] /\ lines = <<>> /\ out = <<>>

Getline(l) == [i \in 1..Size |-> IF i <= Len(l) THEN l[i]
                                 ELSE IF i = Len(l) + 1 THEN NUL ELSE line[i]]

Meld == /\ Len(lines) < MaxLines
        /\ \E l \in Input, n \in 1..Size :
             /\ lines' = Append(lines, l)
             /\ line' = Getline(l)
             /\ Columns(line', n)
             /\ out' = Append(out, Printed(line', n))

MeldSpec == MeldInit /\ [][Meld]_meldVars

-----------------------------------------------------------------------------
\* l is n columns of the right width, with or without a newline behind them.
IsLine(l, n) ==
  /\ n \in Nat \ {0}
  /\ Len(l) = (Width + 1) * n - 1 \/ (Len(l) = (Width + 1) * n /\ l[Len(l)] # TAB)
  /\ \A k \in 1..(n - 1) : l[(Width + 1) * k] = TAB

(* A line of whole columns gives the same wherever it stands: what the     *)
(* lines before it, broken ones too, have left in the buffer has no part   *)
(* in it.                                                                  *)
OwnLine ==
  \A j, k \in 1..Len(lines), n \in 1..Size :
    lines[j] = lines[k] /\ IsLine(lines[k], n) => out[j] = out[k]

\* Class c says all that class d says.
Below(c, d) == \A i \in 1..Width : d[i] \in {"X", c[i]}
Classes(l, n) == {Column(l, j) : j \in 0..(n - 1)}
\* Classes of one category that do not contradict each other.
Compatible(cs) ==
  \A c, d \in cs : \A i \in 1..Width :
    /\ c[i] \in Printing
    /\ c[i] = d[i] \/ (i > Category /\ "X" \in {c[i], d[i]})

(* Of classes that do not contradict each other the one printed is below   *)
(* all, as the statement with it says, and says no more than they do, so   *)
(* that the order of the columns does not matter.                          *)
MeldIsMeet ==
  \A k \in 1..Len(lines), n \in 1..Size :
    IsLine(lines[k], n) /\ Compatible(Classes(lines[k], n)) =>
      /\ out[k] # Nothing
      /\ \A c \in Classes(lines[k], n) : Below(out[k].class, c)
      /\ \A i \in 1..Width : \/ out[k].class[i] = "X"
                             \/ \E c \in Classes(lines[k], n) : out[k].class[i] = c[i]
=============================================================================
