----------------------------- MODULE YuckReader -----------------------------
(***************************************************************************)
(* yuck.c reads .yuck files line by line and prints a call of a macro for  *)
(* everything it has understood.  Four functions look at a line; each says *)
(* whether it is the line's, and keeps what it has not printed yet in      *)
(* static variables.  Here they take and give a record of those variables, *)
(* lines are told from each other by number, and a file has one umbrella.  *)
(***************************************************************************)
EXTENDS Integers, Sequences

CONSTANTS
  YuckLines, \* bound: lines of all files
  Careful    \* are the files written as build-aux/yuck.yuck and src/*.yuck are?

Doc == INSTANCE YuckDocument WITH MaxLines <- 0, file <- 0, doc <- 0, place <- 0
Kinds  == Doc!Kinds
Usages == Doc!Usages
Item(what, at, of, lines) == Doc!Item(what, at, of, lines)

VARIABLES
  file, \* history: the kinds of the lines read so far, of all files
  rd,   \* the static variables
  calls, \* the calls printed
  pc    \* "read", "done"
yuckVars == <<file, rd, calls, pc>>

(***************************************************************************)
(* The static variables:                                                   *)
(*   st                 of snarf_ln                                        *)
(*   usg, cmd, umb      the usage line, is it a command's, is there any?   *)
(*   desc               its description                                    *)
(*   cur_usg_yldd_p     has it been printed?                               *)
(*   opt, said          the option line, 0 for none, and its description,  *)
(*                      TRUE when it points to                             *)
(*   text, cut          this buffer; has its newline become a NUL?         *)
(*   inter              the paragraph                                      *)
(*   printed            calls to print                                     *)
(***************************************************************************)
Start == [st |-> "UNKNOWN", usg |-> 0, cmd |-> FALSE, umb |-> FALSE, desc |-> <<>>,
          cur_usg_yldd_p |-> FALSE, opt |-> 0, said |-> FALSE, text |-> <<>>, cut |-> FALSE,
          inter |-> <<>>, printed |-> <<>>]
NULL == "NULL"
here == Len(file) + 1

Yes(r) == [mine |-> TRUE, r |-> r]
No(r)  == [mine |-> FALSE, r |-> r]
Output(r, item) == [r EXCEPT !.printed = Append(@, item)]

-----------------------------------------------------------------------------
yield_usg(r) == IF r.umb THEN Output(r, Item(IF r.cmd THEN "command" ELSE "umbrella", r.usg, 0, r.desc))
                         ELSE r
Yielded(r) ==
  IF r.cur_usg_yldd_p THEN r
  ELSE [yield_usg(r) EXCEPT !.cmd = FALSE, !.desc = <<>>, !.cur_usg_yldd_p = TRUE]

\* The first usage line makes the umbrella known and names no command: this is
\* what umb_yldd_p is for.
Snarfed(r, l) == [r EXCEPT !.usg = here, !.umb = TRUE,
                           !.cmd = (l = "command" /\ r.umb), !.cur_usg_yldd_p = FALSE]

usagep(r, l) ==
  CASE l = "setopt" -> No(r)
    [] l \in Usages -> Yes(Snarfed(Yielded(r), l))
    [] l = "blank" /\ r.desc = <<>> -> Yes(r)
    [] l = "text" /\ ~r.cur_usg_yldd_p -> Yes([r EXCEPT !.desc = Append(@, here)])
    [] OTHER -> No(Yielded(r))

-----------------------------------------------------------------------------
\* YUCK_CMD is what the last yuck_add_command has made it.
CommandOf(cs) == LET of == {i \in 1..Len(cs) : cs[i].what = "command"}
                 IN  IF of = {} THEN 0 ELSE cs[CHOOSE i \in of : \A j \in of : j <= i].at

\* massage_desc ends the text in front of its last newline.
yield_opt(r) == [Output(r, Item("option", r.opt, CommandOf(calls \o r.printed),
                               IF r.said THEN r.text ELSE <<>>)) EXCEPT !.cut = @ \/ r.said]

\* bbuf_cat writes behind the last newline, where nobody looks when it is a NUL.
Cat(r) == [r EXCEPT !.text = IF r.cut THEN @ ELSE Append(@, here), !.said = TRUE]
Anew(r) == [r EXCEPT !.text = <<>>, !.cut = FALSE]

Closed(r) == IF r.opt = 0 THEN r ELSE [yield_opt(r) EXCEPT !.opt = 0, !.said = FALSE]

\* An indented line that describes the option above it.
Describes(r, l) == r.opt # 0 /\ l \in {"prose", "deep", "blank"}

optionp(r, l) ==
  IF Describes(r, l) THEN Yes(IF l = "blank" THEN r ELSE Cat(r))
  ELSE LET new == [Closed(r) EXCEPT !.opt = here] IN
       CASE l = "short" -> Yes(new)
         [] l = "bare" -> Yes(Anew(new))
         [] l \in {"option", "deep"} -> Yes(Cat(Anew(new)))
         [] OTHER -> No(Closed(r))

-----------------------------------------------------------------------------
yield_inter(r) == IF r.inter = <<>> THEN r
                  ELSE [Output(r, Item("paragraph", r.inter[1], 0, r.inter)) EXCEPT !.inter = <<>>]
interp(r, l) == CASE l \in {"blank", NULL} -> No(yield_inter(r))
                  [] l = "setopt" -> No(r)
                  [] OTHER -> Yes([r EXCEPT !.inter = Append(@, here)])

setoptp(r, l) == No(IF l = "setopt" THEN Output(r, Item("setopt", here, 0, <<>>)) ELSE r)

-----------------------------------------------------------------------------
\* The cases of snarf_ln fall through from each function to the next.
To(r, st) == [r EXCEPT !.st = st]
TryInter(r, l) == LET x == interp(r, l)
                  IN  IF x.mine THEN To(x.r, "SET_INTER") ELSE To(setoptp(x.r, l).r, "UNKNOWN")
TryOption(r, l) == LET x == optionp(r, l)
                   IN  IF x.mine THEN To(x.r, "SET_OPTION") ELSE TryInter(x.r, l)
TryUsage(r, l) == LET x == usagep(r, l)
                  IN  IF x.mine THEN To(x.r, "SET_UMBCMD") ELSE TryOption(x.r, l)
\* Variant of InOptions: usagep is not asked again.
InOptionsOnly(r, l) == TryOption(r, l)
InOptions(r, l) == LET x == optionp(r, l)
                   IN  IF x.mine THEN x.r ELSE TryUsage(x.r, l)
snarf_ln(r, l) == CASE r.st \in {"UNKNOWN", "SET_UMBCMD"} -> TryUsage(r, l)
                    [] r.st = "SET_OPTION" -> InOptions(r, l)
                    [] OTHER -> TryInter(r, l)

\* What a line gives is printed right away.
Snarf(l) == LET r == snarf_ln(rd, l) IN /\ rd' = [r EXCEPT !.printed = <<>>]
                                        /\ calls' = calls \o r.printed

-----------------------------------------------------------------------------
(***************************************************************************)
(* Files as they are written here: text does not come before the first     *)
(* usage line, which is the umbrella's only one; a blank line is in front  *)
(* of setopt; the description of an option starts on its line, unless no   *)
(* option above has one.                                                   *)
(***************************************************************************)
Written(l) == LET used == \E i \in 1..Len(file) : file[i] \in Usages IN
              /\ l = "text" => used
              /\ l = "umbrella" => ~used
              /\ l = "setopt" => \A i \in 1..Len(file) : i = Len(file) => file[i] = "blank"
              /\ l = "short" => \A i \in 1..Len(file) : file[i] \notin {"option", "deep", "prose"}

YuckInit == file = <<>> /\ rd = Start /\ calls = <<>> /\ pc = "read"

ReadLine == /\ pc = "read" /\ Len(file) < YuckLines
            /\ \E l \in Kinds :
                 /\ Careful => Written(l)
                 /\ file' = Append(file, l)
                 /\ IF l = "comment" THEN UNCHANGED <<rd, calls>> ELSE Snarf(l)
            /\ UNCHANGED pc

\* snarf_f drains; another file may follow.
EndOfFile == /\ pc = "read"
             /\ Snarf(NULL)
             /\ pc' \in {"read", "done"}
             /\ UNCHANGED file

Terminated == pc = "done" /\ UNCHANGED yuckVars

YuckNext == ReadLine \/ EndOfFile \/ Terminated
YuckSpec == YuckInit /\ [][YuckNext]_yuckVars

-----------------------------------------------------------------------------
\* What would be printed next, if anything.
Held ==
          (IF rd.cur_usg_yldd_p THEN <<>> ELSE yield_usg(rd).printed)
          \o (IF rd.opt = 0 THEN <<>> ELSE yield_opt(rd).printed)
          \o yield_inter(rd).printed

\* What a call makes of the document; setopt is not of it.
IsItem(call) == call.what # "setopt"
Items(cs) == LET of[k \in 0..Len(cs)] == IF k = 0 THEN <<>>
                                         ELSE IF IsItem(cs[k]) THEN Append(of[k - 1], cs[k])
                                         ELSE of[k - 1]
             IN  of[Len(cs)]
Place == CASE rd.st = "SET_INTER" -> "paragraph"
           [] rd.opt # 0 -> "options"
           [] rd.umb /\ ~rd.cur_usg_yldd_p -> "usage"
           [] OTHER -> "between"
Document == INSTANCE YuckDocument WITH
  MaxLines <- YuckLines,
  doc <- Items(calls) \o (IF pc = "done" THEN <<>> ELSE Held), place <- Place

(* What has been printed and what the static variables hold are together   *)
(* the document as it is meant: every description is with its option, and  *)
(* every option with its command, whatever the order of the lines; and     *)
(* nothing is held when the file has been read.                            *)
ReadsDocument == Document!Spec
=============================================================================
