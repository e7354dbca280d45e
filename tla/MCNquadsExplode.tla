--------------------------- MODULE MCNquadsExplode ---------------------------
(***************************************************************************)
(* Instances of NquadsExplode.  Rows are five characters wide.  The names  *)
(* of LA, LB and LC make three files.  LN goes on where LA ends.  LX is    *)
(* longer than a row and is cut.                                           *)
(***************************************************************************)
EXTENDS ExplodePromise

LA == <<"<", ":", "a", ">">>
LB == <<"<", ":", "b", ">">>
LC == <<"<", ":", "c", ">">>
LN == <<"<", ":", "a", "b", ">">>
LX == <<"<", ":", "d", "d", "d", "x", ">">>

ThreeFiles == {LA, LB, LC}
Nested     == {LA, LN, LX}

Chars == {"<", ">", ":", "_", "a", "b", "c", "d", "x"}

\* What gcc lays behind last[] when it optimises; and that, nothing, the order
\* of the declarations, that of gcc when it does not, and their reverse.
GccLayout == {{"prefix"}}
AnyLayout == {{"prefix"}, {}, {"when"}, {"tick", "when"}, {"tick", "prefix"}}

\* main goes on as long as it has inputs, and inputs end.
Fairness == WF_vars(EndOfInput \/ CloseSlot \/ Reset \/ OpenInput \/ Exit \/ Flush)
FairSpec == Spec /\ Fairness

\* Both halves of line n are in a file.
OnDisk(n) == \A h \in {1, 2} : \E p \in Path : \E k \in 1..Len(disk[p]) : disk[p][k] = <<n, h>>

(* Every line that is not reported reaches its file in the end, those that *)
(* are held back when the input ends included.                             *)
ReachesDisk ==
  <>[](\A n \in 1..Len(lines) : n \notin reported => OnDisk(n))
=============================================================================
