----------------------------- MODULE YuckParse ------------------------------
(***************************************************************************)
(* yuck_parse, the option parser generated from yuck-coru.c.m4 that runs   *)
(* first in every program: options, their values and a command are picked  *)
(* from the arguments, what remains is passed on.  An argument is a        *)
(* sequence of characters, and values are told by the argument they are    *)
(* in.                                                                     *)
(***************************************************************************)
EXTENDS Integers, Sequences, FiniteSets

CONSTANTS
  Arguments, \* a set of sequences of characters
  MaxArgs,   \* bound: arguments of a call, argc - 1
  Parsers    \* what parsers are generated from; a set of records
             \*   commands     names, sequences of characters, too
             \*   options      records of cmd, short, long and type
             \*   max_posargs  YUCK_MAX_POSARGS
             \*   allow_dash   YOPT_ALLOW_UNKNOWN_DASH

None == <<>>
Types == {"flag", "arg", "arg_opt", "arg_mul", "arg_mul_opt", "auto"}

ASSUME ArgumentAssumption == \A a \in Arguments : Len(a) \in Nat
\* Every option has a long name, and a short one, no "-", or "".  Its names are
\* its own among those of its command, or of the umbrella for cmd None.
ASSUME ParserAssumption ==
  /\ MaxArgs \in Nat
  /\ \A p \in Parsers :
       /\ p.max_posargs \in Nat /\ p.allow_dash \in BOOLEAN /\ None \notin p.commands
       /\ \A o \in p.options : /\ o.cmd \in p.commands \cup {None} /\ o.type \in Types
                                /\ o.long # None /\ o.short # "-"
       /\ \A o, q \in p.options : o # q /\ o.cmd = q.cmd =>
            o.long # q.long /\ (o.short # q.short \/ o.short = "")

VARIABLES
  parser, argv, \* the call, never changed
  i,            \* the argument looked at
  op,           \* the character of a cluster of short options, 0 outside
  pc,           \* "loop", "returned", "invalid" (-1), "failure", "success"
  cmd,          \* tgt->cmd, a name, None for none
  args,         \* tgt->args by their places in argv
  slot,         \* the values of options: [at, in] with in "same" or "next" for
                \* the argument it is in, "none" for no value
  use           \* history: what each argument has been taken for
callVars == <<parser, argv>>
vars == <<callVars, i, op, pc, cmd, args, slot, use>>

argc == Len(argv) + 1
From(k) == SubSeq(argv[i], k, Len(argv[i]))
Taken(k, as) == use' = [use EXCEPT ![k] = @ \cup {as}]

OptionsOf(c, key, name) == {o \in parser.options : o.cmd = c /\ o[key] = name}
\* Variant of Own: the options of all commands.
OwnOfAll(key, name) == UNION {OptionsOf(c, key, name) : c \in parser.commands}
Own(key, name)      == OptionsOf(cmd, key, name)
Umbrella(key, name) == OptionsOf(None, key, name)

Init == /\ parser \in Parsers
        /\ argv \in UNION {[1..k -> Arguments] : k \in 0..MaxArgs}
        /\ i = 1 /\ op = 0 /\ pc = "loop"
        /\ cmd = None /\ args = <<>>
        /\ slot = [o \in parser.options |-> <<>>]
        /\ use = [k \in 1..Len(argv) |-> {}]

-----------------------------------------------------------------------------
\* Variant of Reading: one positional argument too many.
ReadingMore == pc = "loop" /\ op = 0 /\ i < argc /\ Len(args) <= parser.max_posargs
Reading == pc = "loop" /\ op = 0 /\ i < argc /\ Len(args) < parser.max_posargs
InCluster == pc = "loop" /\ op # 0

Goto(k) == i' = k /\ op' = 0 /\ UNCHANGED pc
Stop(how) == pc' = how /\ UNCHANGED <<i, op>>

(***************************************************************************)
(* The coroutine arg, with op at character k.                              *)
(***************************************************************************)
TakeArg(k) ==
  /\ \/ /\ cmd # None \/ parser.commands = {}
        /\ args' = Append(args, i)
        /\ Taken(i, "positional") /\ Goto(i + 1)
        /\ UNCHANGED cmd
     \/ /\ cmd = None /\ From(k) \in parser.commands
        /\ cmd' = From(k)
        /\ Taken(i, "command") /\ Goto(i + 1)
        /\ UNCHANGED args
     \/ /\ cmd = None /\ parser.commands # {} /\ From(k) \notin parser.commands
        /\ Stop("invalid")
        /\ UNCHANGED <<cmd, args, use>>
  /\ UNCHANGED <<callVars, slot>>

(***************************************************************************)
(* The actions of the types of options: the value is in this argument,     *)
(* from character k on, when "glued".                                      *)
(***************************************************************************)
Fill(o, at, in) == LET v == [at |-> at, in |-> in] IN
  slot' = [slot EXCEPT ![o] = IF o.type \in {"arg", "arg_opt"} THEN <<v>> ELSE Append(@, v)]

\* Variant of NextValue: i stays where it is.
NextValueStay(o) == IF i + 1 < argc
                    THEN /\ Fill(o, i + 1, "next") /\ Goto(i)
                         /\ use' = [use EXCEPT ![i] = {"option"}, ![i + 1] = {"value"}]
                    ELSE Stop("failure") /\ UNCHANGED <<slot, use>>
\* Variant of NextValue: i goes on to the value only.
NextValueAgain(o) == IF i + 1 < argc
                     THEN /\ Fill(o, i + 1, "next") /\ Goto(i + 1)
                          /\ use' = [use EXCEPT ![i] = {"option"}, ![i + 1] = {"value"}]
                     ELSE Stop("failure") /\ UNCHANGED <<slot, use>>
\* "option requires an argument"
NextValue(o) == IF i + 1 < argc
                THEN /\ Fill(o, i + 1, "next") /\ Goto(i + 2)
                     /\ use' = [use EXCEPT ![i] = {"option"}, ![i + 1] = {"value"}]
                ELSE Stop("failure") /\ UNCHANGED <<slot, use>>

Value(o, glued) ==
  CASE glued -> Fill(o, i, "same") /\ Taken(i, "option") /\ Goto(i + 1)
    [] ~glued /\ o.type \in {"arg", "arg_mul"} -> NextValue(o)
    [] OTHER -> Fill(o, i, "none") /\ Taken(i, "option") /\ Goto(i + 1)

AutoAction == Stop("success") /\ UNCHANGED <<slot, use>>

-----------------------------------------------------------------------------
Dashed(a) == Len(a) > 1 /\ a[1] = "-"

Word == Reading /\ ~Dashed(argv[i]) /\ TakeArg(IF argv[i] = <<"-">> THEN 2 ELSE 1)

\* All arguments from k on.
Pile(k) == /\ args' = args \o [j \in 1..(argc - k) |-> k + j - 1]
           /\ use' = [j \in DOMAIN use |-> IF j >= k THEN {"positional"}
                                           ELSE IF j = i THEN {"end"} ELSE use[j]]
           /\ pc' = "returned"
           /\ UNCHANGED <<callVars, i, op, cmd, slot>>

Dashdash == Reading /\ argv[i] = <<"-", "-">> /\ Pile(i + 1)

\* Another dashdash is filtered out.
Rest == /\ pc = "loop" /\ op = 0 /\ ~Reading
        /\ Pile(IF i < argc /\ argv[i] = <<"-", "-">> THEN i + 1 ELSE i)

Long ==
  /\ Reading /\ Len(argv[i]) > 2 /\ argv[i][1] = "-" /\ argv[i][2] = "-"
  /\ LET eq    == {k \in 3..Len(argv[i]) : argv[i][k] = "="}
         given == eq # {}
         name  == IF given THEN SubSeq(argv[i], 3, (CHOOSE k \in eq : \A j \in eq : k <= j) - 1)
                  ELSE From(3)
         found == IF Own("long", name) # {} THEN Own("long", name) ELSE Umbrella("long", name)
     IN  \/ found = {} /\ Stop("failure") /\ UNCHANGED <<slot, use>>
         \/ \E o \in found :
              \/ o.type = "flag" /\ Fill(o, i, "none") /\ Taken(i, "option")
                                 /\ IF given THEN Stop("failure") ELSE Goto(i + 1)
              \/ o.type = "auto" /\ AutoAction
              \/ o.type \notin {"flag", "auto"} /\ Value(o, given)
  /\ UNCHANGED <<callVars, cmd, args>>

Cluster == /\ Reading /\ Dashed(argv[i]) /\ argv[i][2] # "-"
           /\ op' = 2
           /\ UNCHANGED <<callVars, i, pc, cmd, args, slot, use>>

-----------------------------------------------------------------------------
Numeral == {"0", "1", "2", "3", "4", "5", "6", "7", "8", "9"}
\* -5 is a number, unless the command, or there is none, has an option 5.
Literal == argv[i][op] \in Numeral /\ argv[i][op - 1] = "-"
OwnShort == Own("short", argv[i][op])
Found == IF OwnShort # {} \/ Literal THEN OwnShort ELSE Umbrella("short", argv[i][op])

Unknown == /\ InCluster /\ Found = {}
           /\ \/ (Literal \/ parser.allow_dash) /\ TakeArg(op)
              \/ ~Literal /\ ~parser.allow_dash /\ Stop("failure")
                 /\ UNCHANGED <<callVars, cmd, args, slot, use>>

Last == op = Len(argv[i])
Short ==
  /\ InCluster
  /\ \E o \in Found :
       \/ /\ o.type = "flag"
          /\ Fill(o, i, "none") /\ Taken(i, "option")
          /\ IF Last THEN Goto(i + 1) ELSE op' = op + 1 /\ UNCHANGED <<i, pc>>
       \/ o.type = "auto" /\ AutoAction
       \/ o.type \notin {"flag", "auto"} /\ Value(o, ~Last)
  /\ UNCHANGED <<callVars, cmd, args>>

Terminated == pc # "loop" /\ UNCHANGED vars

Step == Word \/ Dashdash \/ Rest \/ Long \/ Cluster \/ Unknown \/ Short
Next == Step \/ Terminated
Spec == Init /\ [][Next]_vars
FairSpec == Spec /\ WF_vars(Step)

-----------------------------------------------------------------------------
Values == UNION {{slot[o][k] : k \in 1..Len(slot[o])} : o \in parser.options}

(* Every argument is used, and for one thing: a value is not an argument   *)
(* again, and none is passed over.  Arguments passed on keep their order.  *)
(* Where unknown options are allowed, a cluster is passed on as a whole, or *)
(* its end names the command, although the options in front of the unknown *)
(* one have been taken.                                                    *)
UsedOnce ==
  op = 0 /\ pc \in {"loop", "returned"} =>
    /\ \A k \in 1..Len(argv) :
         IF pc = "loop" /\ k >= i THEN use[k] = {}
         ELSE \/ Cardinality(use[k]) = 1
              \/ parser.allow_dash /\ use[k] \in {{"option", "positional"}, {"option", "command"}}
    /\ \A j, k \in 1..Len(args) : j < k => args[j] < args[k]
    /\ {args[k] : k \in 1..Len(args)} = {k \in 1..Len(argv) : "positional" \in use[k]}
    /\ \A v \in Values : v.in = "next" <=> "value" \in use[v.at]

(* What looks like an option is passed on only behind a dashdash or the    *)
(* last positional argument, as a number, or when it is unknown and        *)
(* unknown ones are allowed; a word is no option, and behind the last      *)
(* positional argument there are none.                                     *)
OptionsSeen ==
  /\ \A k \in 1..Len(args) : LET a == argv[args[k]] IN
       Dashed(a) => \/ k > parser.max_posargs
                    \/ \E j \in 1..(args[k] - 1) : use[j] = {"end"}
                    \/ a[2] \in Numeral
                    \/ parser.allow_dash /\ a[2] # "-"
  /\ \A k \in 1..Len(argv) :
       /\ use[k] \in {{"option"}, {"end"}} => Dashed(argv[k])
       /\ "option" \in use[k] =>
            Cardinality({j \in 1..(k - 1) : "positional" \in use[j]}) < parser.max_posargs

(* Only the options of the command named in the call are filled, and only  *)
(* from behind its name; no argument is passed on before a command is      *)
(* named, other than behind a dashdash.                                    *)
CommandFirst ==
  LET named(k) == cmd # None /\ \E c \in 1..(k - 1) : "command" \in use[c]
  IN  /\ \A o \in parser.options : o.cmd # None =>
           \A k \in 1..Len(slot[o]) : o.cmd = cmd /\ named(slot[o][k].at)
      /\ parser.commands # {} /\ parser.max_posargs > 0 =>
           \A k \in 1..Len(args) : \/ named(args[k])
                                   \/ \E j \in 1..(args[k] - 1) : use[j] = {"end"}

(* Every call returns or exits. *)
Returns == <>(pc # "loop")
=============================================================================
