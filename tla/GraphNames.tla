----------------------------- MODULE GraphNames -----------------------------
(***************************************************************************)
(* How nquads-explode turns a line into the name of the file it belongs    *)
(* to: snarf_graph finds the graph name in the line, mkfn and mtrcpy make  *)
(* a file name of it.  A line, a graph name and a file name are sequences  *)
(* of characters; the alphabet is whatever the instances use.              *)
(***************************************************************************)
EXTENDS Integers, Sequences

CONSTANT MAX_GN  \* length of a row of the cache, 256 in the code

ASSUME MaxGnAssumption == MAX_GN \in Nat /\ MAX_GN >= 2

\* The last and the first index of s that carry one of the characters in C.
LastAmong(s, C) == CHOOSE i \in 1..Len(s) :
                      s[i] \in C /\ \A j \in (i + 1)..Len(s) : s[j] \notin C
FirstAmong(s, C) == CHOOSE i \in 1..Len(s) :
                      s[i] \in C /\ \A j \in 1..(i - 1) : s[j] \notin C
Occurs(s, c) == \E i \in 1..Len(s) : s[i] = c

\* Names as long as a row, or longer, lose their end.
Truncate(name) == IF Len(name) < MAX_GN THEN name ELSE SubSeq(name, 1, MAX_GN)

\* The last <...> of the line.  The very last character, taken for the
\* newline, is not looked at.  <<>> stands for the empty struct grnam_s.
SnarfGraph(line) ==
  LET body == SubSeq(line, 1, Len(line) - 1)
      upto == SubSeq(body, 1, LastAmong(body, {">"}))
  IN  IF line = <<>> \/ ~Occurs(body, ">") \/ ~Occurs(upto, "<")
        THEN <<>>
        ELSE Truncate(SubSeq(upto, LastAmong(upto, {"<"}), Len(upto)))

\* Characters that may stand in a file name; the others become underscores.
\* Letters, digits and , - . are kept; these are the others in use.
Other == {":", "/", "_", "<", ">", " ", "#"}
\* Variant of Mapped: "/" is between "," and "9".
MappedByRange(c) == IF c \in Other \ {"/"} THEN "_" ELSE c
Mapped(c) == IF c \in Other THEN "_" ELSE c

\* Leading and trailing underscores are not copied.
Mtrcpy(src) ==
  LET m    == [i \in 1..Len(src) |-> Mapped(src[i])]
      kept == {i \in 1..Len(src) : m[i] # "_"}
  IN  IF kept = {}
        THEN <<>>
        ELSE SubSeq(m, FirstAmong(m, {m[i] : i \in kept}),
                       LastAmong(m, {m[i] : i \in kept}))

\* There is a byte behind the first colon.  A name cut right behind it would be
\* -1 bytes for mtrcpy, which takes an unsigned number of them.
BytesBehindColon(g) == Occurs(g, ":") => FirstAmong(g, {":"}) < Len(g)

\* What lies between the first colon, or the opening bracket, and the last
\* character of the name, whichever that is.  The suffix .nq is left out.
Mkfn(g) ==
  LET fp == IF Occurs(g, ":") THEN FirstAmong(g, {":"}) + 1 ELSE 2
  IN  Mtrcpy(SubSeq(g, fp, Len(g) - 1))
=============================================================================
