---------------------------- MODULE YuckDocument ----------------------------
(***************************************************************************)
(* How a .yuck file is meant to be read: usage lines, each with the text   *)
(* right below it as description, options with the text behind and below   *)
(* them, and paragraphs in between.                                        *)
(***************************************************************************)
EXTENDS Integers, Sequences

CONSTANTS MaxLines \* bound: lines of all files

(***************************************************************************)
(* Kinds of lines.                                                         *)
(*   umbrella  Usage: yuck [OPTION]...     command  Usage: yuck gen ...    *)
(*   text      starts in the first column  prose    is indented            *)
(*   option    is indented by less than eight columns, starts with a dash  *)
(*             and has a description                                       *)
(*   bare      the same with a long name and without a description         *)
(*   short     the same with a short name and nothing else                 *)
(*   deep      is indented further and starts with a dash                  *)
(***************************************************************************)
Usages  == {"umbrella", "command"}
Options == {"option", "bare", "short", "deep"}
Kinds   == Usages \cup Options \cup {"text", "prose", "blank", "setopt", "comment"}

(***************************************************************************)
(* What is read makes items: line "at" begins it, "lines" describe it, and *)
(* an option belongs to the command whose usage line is "of", 0 for none.  *)
(***************************************************************************)
Item(what, at, of, lines) == [what |-> what, at |-> at, of |-> of, lines |-> lines]

VARIABLES
  file,  \* the lines read so far
  doc,   \* the items made of them
  place  \* "usage", "options", "paragraph", "between"
vars == <<file, doc, place>>

n == Len(file) + 1
Command == LET of == {i \in 1..Len(doc) : doc[i].what = "command"}
           IN  IF of = {} THEN 0 ELSE doc[CHOOSE i \in of : \A j \in of : j <= i].at

Init == file = <<>> /\ doc = <<>> /\ place = "between"

Begin(what, of, lines, where) == doc' = Append(doc, Item(what, n, of, lines)) /\ place' = where
Continue == /\ doc' = [doc EXCEPT ![Len(doc)].lines = Append(@, n)]
            /\ UNCHANGED place
Leave(where) == place' = where /\ UNCHANGED doc

\* Only the first usage line cannot name a command.
Usage(l) == /\ l \in Usages /\ place # "paragraph"
            /\ LET known == \E i \in 1..Len(doc) : doc[i].what \in Usages IN
               Begin(IF known THEN l ELSE "umbrella", 0, <<>>, "usage")

Option(l) == /\ l \in Options /\ place # "paragraph" /\ (l = "deep" => place # "options")
             /\ Begin("option", Command, IF l \in {"bare", "short"} THEN <<>> ELSE <<n>>, "options")

Paragraph(l) == /\ \/ l = "text" /\ place \in {"between", "options"}
                   \/ l = "prose" /\ place \in {"between", "usage"}
                /\ Begin("paragraph", 0, <<n>>, "paragraph")

Described(l) == /\ \/ place = "usage" /\ l = "text"
                   \/ place = "options" /\ l \in {"prose", "deep"}
                   \/ place = "paragraph" /\ l \notin {"blank", "setopt", "comment"}
                /\ Continue

Blank(l) == /\ l = "blank"
            /\ Leave(IF place = "paragraph" \/ (place = "usage" /\ doc[Len(doc)].lines # <<>>)
                     THEN "between" ELSE place)

Setopt(l) == l = "setopt" /\ Leave(IF place = "options" THEN "between" ELSE place)

Comment(l) == l = "comment" /\ Leave(place)

Line == /\ Len(file) < MaxLines
        /\ \E l \in Kinds :
             /\ file' = Append(file, l)
             /\ \/ Usage(l) \/ Option(l) \/ Paragraph(l) \/ Described(l)
                \/ Blank(l) \/ Setopt(l) \/ Comment(l)

EndOfFile == Leave("between") /\ UNCHANGED file

Spec == Init /\ [][Line \/ EndOfFile]_vars
=============================================================================
