---------------------------- MODULE NquadsExplode ----------------------------
(***************************************************************************)
(* nquads-explode: every line of an N-Quads stream is appended to the file *)
(* named after its graph.  explode() keeps NMRU open stdio streams in a    *)
(* cache whose rows hold the graph names; main() runs it on one input      *)
(* after another.  Streams buffer: what fwrite was given reaches the file  *)
(* in pieces that need not end where a line ends.  A line is two pieces.   *)
(***************************************************************************)
EXTENDS GraphNames, FiniteSets

CONSTANTS
  Char,       \* the characters names are made of
  NUL,        \* the zero byte, which is none of them
  Label,      \* the graph names in the input, <...>, before any truncation
  NMRU,       \* slots of the cache, 256 in the code
  ClearRows,  \* rows a memset of countof(prfx) bytes clears, 1024/256 = 4
  Spill,      \* what lies behind last[] in memory, where a memset that runs
              \* past its end clears it: each member is a layout, a set of
              \* "prefix" (prfz and prfx), "tick" and "when" (some of its slots)
  MaxLines,   \* bound: lines in all inputs together
  MaxInputs,  \* bound: inputs on the command line
  MaxFails    \* bound: calls of fopen for writing that fail

\* A graph name as the N-Quads grammar has it: brackets at both ends only.
IsLabel(l) == /\ l \in Seq(Char) /\ Len(l) >= 2 /\ l[1] = "<" /\ l[Len(l)] = ">"
              /\ \A i \in 1..(Len(l) - 1) : l[i] # ">"

ASSUME LabelAssumption == NUL \notin Char /\ \A l \in Label : IsLabel(l)
\* Schemes are shorter than a row.
ASSUME SchemeAssumption == \A l \in Label : BytesBehindColon(Truncate(l))
ASSUME CacheAssumption == /\ NMRU \in Nat \ {0}
                          /\ ClearRows \in Nat \ {0}
                          /\ Spill \subseteq SUBSET {"prefix", "tick", "when"}
                          /\ Spill # {}
ASSUME BoundAssumption == MaxLines \in Nat /\ MaxInputs \in Nat /\ MaxFails \in Nat

NoLabel == <<>>                          \* no <...> in the line
Name    == {Truncate(l) : l \in Label}   \* what snarf_graph returns
Slot    == 1..NMRU
Row     == [1..MAX_GN -> Char \cup {NUL}]
Blank   == [i \in 1..MAX_GN |-> NUL]

\* A file: is the name of the command line's prefix in front, and the rest.
Stem      == {Mkfn(g) : g \in Name}
Path      == BOOLEAN \X Stem
Closed    == <<>>

VARIABLES
  phase,    \* where main and explode are: "main", "explode", "close"; "exit" is
            \* the C library's part of exit, and "done" what is left
  inputs,   \* inputs main has still to open
  lines,    \* history: the graph names of the lines read so far, in order
  reported, \* history: the lines an error message was printed for instead
  fails,    \* calls of fopen that have failed
  spilt,    \* what has been cleared behind last[]; without "prefix" in it the
            \* command line's prefix is still in prfx, and prfz its length
  tick,     \* as in the code
  last,     \* the rows
  when,     \* the tick a slot was filled at, 0 when there is nothing in it
  fp,       \* the file a slot's stream is open on, or Closed
  buf,      \* what that stream holds back
  adrift,   \* the open streams no slot has any more, each with its file and
            \* what it holds back
  disk,     \* what has reached the files
  cl        \* next slot to be closed at the end of an input

cache == <<tick, last, when, fp>>
vars  == <<phase, inputs, lines, reported, fails, spilt, cache, buf, adrift, disk, cl>>

-----------------------------------------------------------------------------
(* Some definitions are preceded by a faulty variant of theirs, a slip one *)
(* could make in the code.  Nothing refers to the variants: they serve to  *)
(* show which property would find the slip.                                *)

\* Variant of Match: one byte short.
MatchShort(row, g) == \A i \in 1..(Len(g) - 1) : row[i] = g[i]
\* memcmp(last[which], g.n, g.m) == 0
Match(row, g) == \A i \in 1..Len(g) : row[i] = g[i]

\* memcpy(last[which], g.n, g.m): what stood behind the name stays.
Overwrite(row, g) == [i \in 1..MAX_GN |-> IF i <= Len(g) THEN g[i] ELSE row[i]]

\* The search for g stops at slot w; the search for a victim settles on w,
\* the first of those with the smallest tick, which it has to be below the
\* tick the miss has just counted on.
FoundAt(w, g) == Match(last[w], g) /\ \A v \in 1..(w - 1) : ~Match(last[v], g)
Victim(w)     == /\ when[w] <= tick
                 /\ \A v \in Slot : when[w] <= when[v] /\ (v < w => when[w] # when[v])

\* The pieces of line number n.
Pieces(n) == << <<n, 1>>, <<n, 2>> >>

PathOf(g) == <<"prefix" \notin spilt, Mkfn(g)>>

\* Variant of Fclose: the stream is not flushed.
FcloseUnflushed(d, w) == d
\* The files d after fclose of the stream of slot w.
Fclose(d, w) == IF fp[w] = Closed THEN d ELSE [d EXCEPT ![fp[w]] = @ \o buf[w]]

\* fwrite of line n to the stream of slot w, which is open on p and holds
\* back b: some of the pieces it has then are written through to the files.
Fwrite(d, w, p, b, n) ==
  LET all == b \o Pieces(n) IN
  \E k \in 0..(IF p = Closed THEN 0 ELSE Len(all)) :
    /\ buf'  = [buf EXCEPT ![w] = SubSeq(all, k + 1, Len(all))]
    /\ disk' = IF k = 0 THEN d ELSE [d EXCEPT ![p] = @ \o SubSeq(all, 1, k)]

-----------------------------------------------------------------------------
Init ==
  /\ phase = "main"
  /\ inputs \in 0..MaxInputs
  /\ lines = <<>> /\ reported = {} /\ fails = 0
  /\ spilt = {}
  /\ tick = 0
  /\ last = [w \in Slot |-> Blank]
  /\ when = [w \in Slot |-> 0]
  /\ fp   = [w \in Slot |-> Closed]
  /\ buf  = [w \in Slot |-> <<>>]
  /\ adrift = {}
  /\ disk = [p \in Path |-> <<>>]
  /\ cl   = 1

\* getline returns a line whose graph name is l.
Getline(l) == /\ phase = "explode" /\ Len(lines) < MaxLines
              /\ lines' = Append(lines, l)
              /\ UNCHANGED <<phase, inputs, cl>>
ThisLine == Len(lines) + 1

NoGraph == /\ Getline(NoLabel)
           /\ reported' = reported \cup {ThisLine}
           /\ UNCHANGED <<fails, spilt, cache, buf, adrift, disk>>

Hit(l, w) ==
  /\ FoundAt(w, Truncate(l))
  /\ Getline(l)
  /\ Fwrite(disk, w, fp[w], buf[w], ThisLine)
  /\ UNCHANGED <<reported, fails, spilt, cache, adrift>>

\* The miss path up to the fopen: a victim that has a tick is closed whatever
\* follows, and a stream without one is lost sight of.
Miss(l, w) == /\ \A v \in Slot : ~Match(last[v], Truncate(l))
              /\ Victim(w)
              /\ Getline(l)
Evicted(w) == IF when[w] # 0 THEN Fclose(disk, w) ELSE disk
Overwritten(w) == IF when[w] = 0 /\ fp[w] # Closed
                    THEN adrift \cup {<<fp[w], buf[w]>>}
                    ELSE adrift

\* Variant of Stamp: slots are only marked.
StampFixed == 1
\* The tick a slot is filled at: tick, which the miss has counted on.
Stamp == tick + 1

MissOpen(l, w) ==
  LET g == Truncate(l) IN
  /\ Miss(l, w)
  /\ tick' = tick + 1
  /\ fp'   = [fp EXCEPT ![w] = PathOf(g)]
  /\ when' = [when EXCEPT ![w] = Stamp]
  /\ last' = [last EXCEPT ![w] = Overwrite(@, g)]
  /\ Fwrite(Evicted(w), w, PathOf(g), <<>>, ThisLine)
  /\ adrift' = Overwritten(w)
  /\ UNCHANGED <<reported, fails, spilt>>

\* Variant of Cleared: the rows behind the slot's own one.
ClearedBehind(w) == [v \in Slot |-> IF v \in (w + 1)..(w + ClearRows - 1) THEN Blank ELSE last[v]]
\* memset(last[which], 0, countof(prfx)), which is not the row alone.
Cleared(w) == [v \in Slot |-> IF v \in w..(w + ClearRows - 1) THEN Blank ELSE last[v]]
\* ... and goes on behind last when the slot is one of the last.
Reached(w) == IF w + ClearRows - 1 > NMRU THEN Spill ELSE {{}}
MissFail(l, w) ==
  /\ fails < MaxFails
  /\ Miss(l, w)
  /\ fails'    = fails + 1
  /\ reported' = reported \cup {ThisLine}
  /\ disk'     = Evicted(w)
  /\ adrift'   = Overwritten(w)
  /\ fp'       = [fp EXCEPT ![w] = Closed]
  /\ buf'      = [buf EXCEPT ![w] = <<>>]
  /\ last'     = Cleared(w)
  /\ \E hit \in Reached(w) :
       /\ spilt' = spilt \cup hit
       /\ tick'  = IF "tick" \in hit THEN 0 ELSE tick + 1
       /\ \E k \in 0..(IF "when" \in hit THEN NMRU ELSE 0) :
            when' = [v \in Slot |-> IF v = w \/ v <= k THEN 0 ELSE when[v]]

\* getline fails: explode closes what is open, slot after slot, ...
EndOfInput == /\ phase = "explode"
              /\ phase' = "close" /\ cl' = 1
              /\ UNCHANGED <<inputs, lines, reported, fails, spilt, cache, buf, adrift, disk>>

CloseSlot == /\ phase = "close" /\ cl <= NMRU
             /\ cl' = cl + 1
             /\ IF when[cl] # 0
                  THEN /\ disk' = Fclose(disk, cl)
                       /\ fp'   = [fp EXCEPT ![cl] = Closed]
                       /\ buf'  = [buf EXCEPT ![cl] = <<>>]
                  ELSE UNCHANGED <<disk, fp, buf>>
             /\ UNCHANGED <<phase, inputs, lines, reported, fails, spilt, tick, last, when, adrift>>

\* Variant of Forgotten: the names stay.
Remembered == last
\* memset(last, 0, sizeof(last))
Forgotten == [w \in Slot |-> Blank]

\* ... and forgets the names and the ticks, but not the tick.  A stream that
\* is open still is out of reach from here on.
Reset == /\ phase = "close" /\ cl > NMRU
         /\ phase' = "main"
         /\ last' = Forgotten
         /\ when' = [w \in Slot |-> 0]
         /\ adrift' = adrift \cup {<<fp[w], buf[w]>> : w \in {v \in Slot : fp[v] # Closed}}
         /\ fp' = [w \in Slot |-> Closed]
         /\ buf' = [w \in Slot |-> <<>>]
         /\ UNCHANGED <<inputs, lines, reported, fails, spilt, tick, disk, cl>>

\* The next input of the command line; one that cannot be opened is skipped.
OpenInput == /\ phase = "main" /\ inputs > 0
             /\ inputs' = inputs - 1
             /\ phase' \in {"main", "explode"}
             /\ UNCHANGED <<lines, reported, fails, spilt, cache, buf, adrift, disk, cl>>

\* main returns; the C library closes what streams there are, in any order.
Exit == /\ phase = "main" /\ inputs = 0
        /\ phase' = "exit"
        /\ UNCHANGED <<inputs, lines, reported, fails, spilt, cache, buf, adrift, disk, cl>>
Flush == /\ phase = "exit"
         /\ IF adrift = {}
              THEN phase' = "done" /\ UNCHANGED <<adrift, disk>>
              ELSE \E s \in adrift :
                     /\ adrift' = adrift \ {s}
                     /\ disk'   = [disk EXCEPT ![s[1]] = @ \o s[2]]
                     /\ UNCHANGED phase
         /\ UNCHANGED <<inputs, lines, reported, fails, spilt, cache, buf, cl>>

Terminated == phase = "done" /\ UNCHANGED vars

Explode == \/ NoGraph
           \/ \E l \in Label, w \in Slot : Hit(l, w) \/ MissOpen(l, w) \/ MissFail(l, w)
           \/ EndOfInput \/ CloseSlot \/ Reset
Next == Explode \/ OpenInput \/ Exit \/ Flush \/ Terminated

Spec == Init /\ [][Next]_vars

-----------------------------------------------------------------------------
StemOf(n) == Mkfn(Truncate(lines[n]))

Piece == (1..Len(lines)) \X {1, 2}

TypeOK ==
  /\ phase \in {"main", "explode", "close", "exit", "done"}
  /\ inputs \in 0..MaxInputs
  /\ lines \in Seq(Label \cup {NoLabel}) /\ Len(lines) <= MaxLines
  /\ reported \in SUBSET (1..Len(lines))
  /\ fails \in 0..MaxFails
  /\ spilt \in SUBSET {"prefix", "tick", "when"}
  /\ tick \in 0..Len(lines)
  /\ last \in [Slot -> Row]
  /\ when \in [Slot -> 0..Len(lines)]
  /\ fp \in [Slot -> Path \cup {Closed}]
  /\ buf \in [Slot -> Seq(Piece)]
  /\ adrift \subseteq Path \X Seq(Piece)
  /\ disk \in [Path -> Seq(Piece)]
  /\ cl \in 1..(NMRU + 1)

\* What lies behind last[] has kept its when, its tick.
WhenKept == "when" \notin spilt
TickKept == "tick" \notin spilt

(* While lines are read no stream is closed that is not open, and a row    *)
(* never finds a name for a slot without a stream, so that none is written *)
(* to that is not open, whatever a memset has cleared; and unless it has   *)
(* cleared some of when, every open stream has its tick: none is forgotten *)
(* open.                                                                   *)
Streams ==
  phase = "explode" =>
    \A w \in Slot :
      /\ when[w] # 0 => fp[w] # Closed
      /\ fp[w] = Closed => buf[w] = <<>>
      /\ \A g \in Name : Match(last[w], g) => fp[w] # Closed
      /\ WhenKept /\ when[w] = 0 => fp[w] = Closed

(* Between two inputs the cache knows no stream and no name, and unless a  *)
(* memset has cleared some of when, none is open that it knows nothing of: *)
(* "leave no files open".  After exit nothing is held back in any case.    *)
AtRest ==
  phase \in {"main", "exit", "done"} =>
    /\ WhenKept \/ phase = "done" => adrift = {}
    /\ \A w \in Slot : /\ fp[w] = Closed /\ buf[w] = <<>>
                        /\ when[w] = 0 /\ last[w] = Blank

(* However names were cached, evicted, cleared and overwritten, and        *)
(* whatever a memset has cleared, a piece of a line is only ever in the    *)
(* file named after the graph of that line, or on its way there.           *)
NoMisfile ==
  /\ \A p \in Path : \A k \in 1..Len(disk[p]) : StemOf(disk[p][k][1]) = p[2]
  /\ \A w \in Slot : fp[w] # Closed =>
       \A k \in 1..Len(buf[w]) : StemOf(buf[w][k][1]) = fp[w][2]
  /\ \A s \in adrift : \A k \in 1..Len(s[2]) : StemOf(s[2][k][1]) = s[1][2]

\* Where piece x is in the files, and where in the buffers.
Places(seqs, x) == {place \in UNION {{i} \X DOMAIN seqs[i] : i \in DOMAIN seqs} :
                      seqs[place[1]][place[2]] = x}
Copies(n, h) == Cardinality(Places(disk, <<n, h>>)) + Cardinality(Places(buf, <<n, h>>))
                + Cardinality(Places([s \in adrift |-> s[2]], <<n, h>>))

(* Every line read is in the files or on its way there, once and with both *)
(* its halves, or an error message was printed for it and it is nowhere.   *)
Accounted ==
  \A n \in 1..Len(lines), h \in {1, 2} :
    Copies(n, h) = IF n \in reported THEN 0 ELSE 1

(* Unless a memset has cleared it, tick is later than, or that of, every   *)
(* slot filled, and the slots in use were filled at different ticks: a     *)
(* miss finds a smallest one, and it is the slot filled first.             *)
TicksDistinct ==
  TickKept => /\ \A w \in Slot : when[w] <= tick
              /\ \A v, w \in Slot : v # w /\ when[v] # 0 => when[v] # when[w]

(* A file is open in one slot at most, as the comment "see if we've got    *)
(* this one" supposes: two buffered streams on one file would write its    *)
(* lines out of order and cut.                                             *)
OneStreamPerFile ==
  \A v, w \in Slot : v # w /\ fp[v] # Closed => fp[v] # fp[w]
=============================================================================
