------------------------------ MODULE NameScan ------------------------------
(***************************************************************************)
(* snarf_graph, mkfn and mtrcpy loop by loop, with the offsets they keep,  *)
(* for one line of the input.  GraphNames says what they should compute.   *)
(* Offsets count from 0 as in the code: line[o + 1] is the byte at o.      *)
(***************************************************************************)
EXTENDS GraphNames

\* The quads in the input: text is the line, graph its graph label or <<>>.
CONSTANT Quads

\* In an IRI there are no brackets, and behind the graph label only " ." and
\* the newline.
IsIri(gr) == /\ Len(gr) >= 2 /\ gr[1] = "<" /\ gr[Len(gr)] = ">"
             /\ \A k \in 2..(Len(gr) - 1) : gr[k] \notin {"<", ">"}
StandsAt(q, k) == /\ SubSeq(q.text, k + 1, k + Len(q.graph)) = q.graph
                  /\ k + Len(q.graph) < Len(q.text)
                  /\ \A o \in (k + Len(q.graph) + 1)..Len(q.text) : q.text[o] # ">"

\* explode stops when getline has nothing more; a line has a byte at least.
ASSUME QuadAssumption ==
  /\ Quads \subseteq [text : Seq(STRING) \ {<<>>}, graph : Seq(STRING)]
  /\ \A q \in Quads : q.graph # <<>> /\ q.graph[1] = "<" =>
       IsIri(q.graph) /\ \E k \in 0..Len(q.text) : StandsAt(q, k)
\* Schemes are shorter than a row.
ASSUME SchemeAssumption == \A q \in Quads : BytesBehindColon(SnarfGraph(q.text))

VARIABLES
  quad,  \* the quad whose line is looked at
  pc,    \* "ep", "fp", "cut", "copy", "trim"; "none" and "done" at the end
  ep, fp,  \* end and start of what has been found
  g,     \* the graph name
  i, j,  \* mtrcpy: bytes read, bytes kept
  tgt    \* prfx behind the prefix
vars == <<quad, pc, ep, fp, g, i, j, tgt>>

line == quad.text

\* Offset of the first byte of the name mkfn copies.
From == IF Occurs(g, ":") THEN FirstAmong(g, {":"}) ELSE 1
\* ep - fp, how many it copies
Span == Len(g) - 1 - From

Init == /\ quad \in Quads
        /\ pc = "ep"
        /\ ep = Len(line) - 1 /\ fp = 0
        /\ g = <<>> /\ i = 0 /\ j = 0
        /\ tgt = [o \in 0..(MAX_GN - 1) |-> "NUL"]

\* for (ep = line + llen - 1; ep > line && ep[-1] != '>'; ep--)
BackToEnd == /\ pc = "ep"
             /\ IF ep > 0 /\ line[ep] # ">"
                  THEN ep' = ep - 1 /\ UNCHANGED <<pc, fp>>
                  ELSE pc' = "fp" /\ fp' = ep - 1 /\ UNCHANGED ep
             /\ UNCHANGED <<quad, g, i, j, tgt>>

\* Variant of Starts: a term starts behind a blank.
StartsAtBlank(o) == line[o + 1] = " "
Starts(o) == line[o + 1] = "<"

\* for (fp = ep - 1; fp >= line && *fp != '<'; fp--)
BackToStart == /\ pc = "fp"
               /\ IF fp >= 0 /\ ~Starts(fp)
                    THEN fp' = fp - 1 /\ UNCHANGED pc
                    ELSE pc' = "cut" /\ UNCHANGED fp
               /\ UNCHANGED <<quad, ep, g, i, j, tgt>>

NothingFound == /\ pc = "cut" /\ (fp < 0 \/ ep <= 0)
                /\ pc' = "none"
                /\ UNCHANGED <<quad, ep, fp, g, i, j, tgt>>

\* Variant of CutAt: room is left for a zero byte.
CutBefore == IF ep - fp >= MAX_GN THEN fp + MAX_GN - 1 ELSE ep
CutAt == IF ep - fp >= MAX_GN THEN fp + MAX_GN ELSE ep

Cut == /\ pc = "cut" /\ fp >= 0 /\ ep > 0
       /\ ep' = CutAt
       /\ g'  = SubSeq(line, fp + 1, ep')
       /\ pc' = "copy"
       /\ UNCHANGED <<quad, fp, i, j, tgt>>

\* Variant of Advance: underscores are kept in front, too.
AdvanceAlways(c) == j + 1
\* j += j || c != '_'
Advance(c) == IF j > 0 \/ c # "_" THEN j + 1 ELSE j

\* One round of the loop of mtrcpy, over the bytes after From.
Copy == /\ pc = "copy" /\ i < Span
        /\ LET c == Mapped(g[From + i + 1])
           IN  /\ tgt' = [tgt EXCEPT ![j] = c]
               /\ j' = Advance(c)
        /\ i' = i + 1
        /\ UNCHANGED <<quad, pc, ep, fp, g>>

CopyEnds == /\ pc = "copy" /\ i >= Span
            /\ pc' = "trim"
            /\ UNCHANGED <<quad, ep, fp, g, i, j, tgt>>

Trim == /\ pc = "trim"
        /\ IF j > 0 /\ tgt[j - 1] = "_"
             THEN j' = j - 1 /\ UNCHANGED pc
             ELSE pc' = "done" /\ UNCHANGED j
        /\ UNCHANGED <<quad, ep, fp, g, i, tgt>>

Stop == pc \in {"none", "done"} /\ UNCHANGED vars

Next == BackToEnd \/ BackToStart \/ NothingFound \/ Cut \/ Copy \/ CopyEnds \/ Trim \/ Stop
Spec == Init /\ [][Next]_vars

-----------------------------------------------------------------------------
\* What has been copied.
Kept == [o \in 1..j |-> tgt[o - 1]]

(* Going backwards the scans never leave the line and end on the last      *)
(* <...> of it, cut to the width of a row; they find none only when there  *)
(* is none.                                                                *)
ScanAgrees ==
  /\ ep \in 0..Len(line) /\ fp \in -1..Len(line)
  /\ pc \in {"copy", "trim", "done"} => g = SnarfGraph(line) /\ g # <<>>
  /\ pc = "none" => SnarfGraph(line) = <<>>

(* The bytes kept are never more than those read, so they fit where the    *)
(* name did, and in the end they are the name without its scheme, its      *)
(* brackets and the underscores around it.                                 *)
NameAgrees ==
  /\ j <= i /\ i <= MAX_GN
  /\ pc = "done" => Kept = Mkfn(g)

(* A file name has no slash in it and does not start or end with an        *)
(* underscore: no line makes the program write in another directory.       *)
NameIsPlain ==
  pc = "done" => /\ \A o \in 1..j : Kept[o] # "/"
                 /\ j > 0 => Kept[1] # "_" /\ Kept[j] # "_"

(* A quad whose graph label is an IRI is filed under that label, or under  *)
(* its first MAX_GN bytes when it has more, whatever IRIs stand in the     *)
(* other three places.                                                     *)
GraphFound ==
  pc \in {"copy", "trim", "done", "none"} /\ quad.graph # <<>> /\ quad.graph[1] = "<" =>
    g = Truncate(quad.graph)
=============================================================================
