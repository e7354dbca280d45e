----------------------------- MODULE ExplodeSpec -----------------------------
(***************************************************************************)
(* What nquads-explode promises, without cache, streams and buffers: the   *)
(* lines of a graph are in its file, all of them, whole and in the order   *)
(* they were read; a line without a graph is reported.  The first file     *)
(* that cannot be opened voids the promise.                                *)
(***************************************************************************)
EXTENDS GraphNames

CONSTANTS Label, MaxLines

VARIABLES lines, reported, file, ok
vars == <<lines, reported, file, ok>>

Stem == {Mkfn(Truncate(l)) : l \in Label}

Init == lines = <<>> /\ reported = {} /\ file = [s \in Stem |-> <<>>] /\ ok = TRUE

Append2(l) == LET n == Len(lines) + 1
                  s == Mkfn(Truncate(l))
              IN  /\ file' = [file EXCEPT ![s] = @ \o << <<n, 1>>, <<n, 2>> >>]
                  /\ UNCHANGED reported
Report == /\ reported' = reported \cup {Len(lines) + 1}
          /\ UNCHANGED file

Line == /\ Len(lines) < MaxLines /\ UNCHANGED ok
        /\ \/ lines' = Append(lines, <<>>) /\ Report
           \/ \E l \in Label : lines' = Append(lines, l) /\ Append2(l)

Void == ok' = FALSE

Spec == Init /\ [][Line \/ Void]_vars
=============================================================================
