--------------------------- MODULE YuckParseProofs ---------------------------
(***************************************************************************)
(* Proofs about YuckParse, for all parsers and calls: how options, values  *)
(* and words are told apart, and that parsing ends.                        *)
(***************************************************************************)
EXTENDS YuckParse, SequenceTheorems, FiniteSetTheorems, TLAPS

Places == 1..Len(argv)
Uses   == {"option", "value", "positional", "command", "end"}

-----------------------------------------------------------------------------
(* The invariant.                                                          *)

WellTyped ==
  /\ parser \in Parsers /\ Len(argv) \in Nat /\ \A k \in Places : argv[k] \in Arguments
  /\ pc \in {"loop", "returned", "invalid", "failure", "success"}
  /\ i \in 1..argc /\ op \in Nat
  /\ cmd \in parser.commands \cup {None}
  /\ args \in Seq(Places)
  /\ slot \in [parser.options -> Seq([at : Places, in : {"same", "next", "none"}])]
  /\ use \in [Places -> SUBSET Uses]

\* In a cluster of short options there is room for an argument more, and one
\* that is not at its beginning stands behind an option.
ClusterInv ==
  pc = "loop" /\ op # 0 =>
    /\ i < argc /\ Dashed(argv[i]) /\ argv[i][2] # "-" /\ op > 1
    /\ Len(args) < parser.max_posargs
    /\ use[i] \in {{}, {"option"}}
    /\ op = 2 => use[i] = {}
    /\ op > 2 => \E o \in parser.options : argv[i][op - 1] = o.short

\* An argument has been taken for one thing.
Proper(u) == \/ \E x \in Uses : u = {x}
             \/ parser.allow_dash /\ u \in {{"option", "positional"}, {"option", "command"}}
UseInv ==
  /\ pc = "loop" => /\ \A k \in Places : k < i => Proper(use[k]) /\ use[k] # {"end"}
                    /\ \A k \in Places : k > i \/ (k = i /\ op = 0) => use[k] = {}
  /\ pc = "returned" => \A k \in Places : Proper(use[k])

ArgsInv ==
  /\ \A j, k \in 1..Len(args) : j < k => args[j] < args[k]
  /\ pc = "loop" => \A k \in 1..Len(args) : args[k] < i
  /\ \A k \in Places : "positional" \in use[k] <=> \E m \in 1..Len(args) : args[m] = k

ValueInv ==
  \A o \in parser.options : \A k \in 1..Len(slot[o]) :
    /\ slot[o][k].in = "next" <=> "value" \in use[slot[o][k].at]
    /\ pc = "loop" => slot[o][k].at < i \/ (op # 0 /\ slot[o][k].at = i)

\* In front of k the command is named, by what arguments have been used for, u.
Named(u, k) == \E c \in Places : c < k /\ "command" \in u[c]
CommandInv ==
  /\ pc = "loop" /\ cmd # None => Named(use, i)
  /\ pc = "loop" /\ args # <<>> /\ parser.commands # {} => cmd # None
  /\ \A o \in parser.options : o.cmd # None =>
       \A k \in 1..Len(slot[o]) : o.cmd = cmd /\ Named(use, slot[o][k].at)
  /\ parser.commands # {} /\ parser.max_posargs > 0 =>
       \A k \in 1..Len(args) : \/ cmd # None /\ Named(use, args[k])
                               \/ \E j \in Places : j < args[k] /\ use[j] = {"end"}

IInv == WellTyped /\ ClusterInv /\ UseInv /\ ArgsInv /\ ValueInv /\ CommandInv

LEMMA InitInv == Init => IInv
<1> SUFFICES ASSUME Init PROVE IInv
  OBVIOUS
<1>1. PICK n \in 0..MaxArgs : argv \in [1..n -> Arguments]
  BY DEF Init
<1>2. n \in Nat /\ Len(argv) = n
  <2>1. n \in Nat
    <3>1. MaxArgs \in Nat
      BY ParserAssumption, Zenon
    <3> QED
      BY <3>1
  <2>2. argv \in Seq(Arguments)
    BY <1>1, <2>1, SeqDef
  <2>3. Len(argv) \in Nat /\ 1..Len(argv) = 1..n
    BY <1>1, <2>2, LenProperties
  <2> QED
    BY <2>1, <2>3
<1>3. WellTyped
  BY <1>1, <1>2, EmptySeq DEF Init, WellTyped, Places, argc, Uses
<1>4. \A o \in parser.options : slot[o] = <<>> /\ Len(slot[o]) = 0
  BY EmptySeq DEF Init
<1> QED
  BY <1>2, <1>3, <1>4, EmptySeq DEF Init, IInv, ClusterInv, UseInv, ArgsInv, ValueInv, CommandInv, Places

-----------------------------------------------------------------------------
(* What steps do.                                                          *)

\* Argument i is looked at, and is not the last positional one's successor.
Ready == /\ pc = "loop" /\ i < argc /\ Len(args) < parser.max_posargs
         /\ use[i] \in {{}, {"option"}}

OnTo(k) == i' = k /\ op' = 0 /\ pc' = pc
Ends    == pc' \in {"invalid", "failure", "success"} /\ i' = i /\ op' = op

Takes == /\ args' = Append(args, i) /\ Taken(i, "positional") /\ OnTo(i + 1)
         /\ cmd # None \/ parser.commands = {}
         /\ UNCHANGED <<callVars, cmd, slot>>
Names == /\ cmd = None /\ cmd' \in parser.commands /\ Taken(i, "command") /\ OnTo(i + 1)
         /\ UNCHANGED <<callVars, args, slot>>
Fills(o, in) ==
  /\ o \in parser.options /\ o.cmd \in {cmd, None} /\ in \in {"same", "none"}
  /\ Fill(o, i, in) /\ Taken(i, "option")
  /\ \/ OnTo(i + 1)
     \/ Ends
     \/ op > 1 /\ op' = op + 1 /\ i' = i /\ pc' = pc /\ argv[i][op] = o.short
  /\ UNCHANGED <<callVars, cmd, args>>
FillsNext(o) ==
  /\ o \in parser.options /\ o.cmd \in {cmd, None} /\ i + 1 < argc
  /\ Fill(o, i + 1, "next") /\ use' = [use EXCEPT ![i] = {"option"}, ![i + 1] = {"value"}]
  /\ OnTo(i + 2)
  /\ UNCHANGED <<callVars, cmd, args>>

LEMMA Places0 ==
  ASSUME WellTyped
  PROVE  /\ argc = Len(argv) + 1 /\ Len(argv) \in Nat /\ i \in Nat /\ i > 0
         /\ i < argc => i \in Places /\ (i + 1 < argc => i + 1 \in Places)
         /\ \A k \in Places : k \in Nat /\ k > 0 /\ k < argc
  BY DEF WellTyped, Places, argc

LEMMA SlotTypes ==
  ASSUME WellTyped, NEW o \in parser.options, NEW k \in 1..Len(slot[o])
  PROVE  slot[o][k].at \in Places /\ slot[o][k].in \in {"same", "next", "none"}
<1>1. slot[o] \in Seq([at : Places, in : {"same", "next", "none"}])
  BY DEF WellTyped
<1>2. slot[o][k] \in [at : Places, in : {"same", "next", "none"}]
  BY <1>1, ElementOfSeq
<1> QED
  BY <1>2

LEMMA AppendArgs ==
  ASSUME WellTyped, i < argc, args' = Append(args, i)
  PROVE  /\ args' \in Seq(Places) /\ Len(args) \in Nat /\ Len(args') = Len(args) + 1
         /\ args'[Len(args) + 1] = i
         /\ \A k \in 1..Len(args) : args'[k] = args[k]
<1>1. args \in Seq(Places) /\ i \in Places
  BY Places0 DEF WellTyped
<1> QED
  BY <1>1, AppendProperties

(* A value comes behind those there are, or in the place of one.           *)
LEMMA FillFacts ==
  ASSUME WellTyped, NEW o \in parser.options, NEW at \in Places, NEW in \in {"same", "next", "none"},
         Fill(o, at, in)
  PROVE  /\ slot' \in [parser.options -> Seq([at : Places, in : {"same", "next", "none"}])]
         /\ \A q \in parser.options : \A k \in 1..Len(slot'[q]) :
              \/ q = o /\ slot'[q][k].at = at /\ slot'[q][k].in = in
              \/ k \in 1..Len(slot[q]) /\ slot'[q][k] = slot[q][k]
<1> DEFINE V == [at : Places, in : {"same", "next", "none"}]
           v == [at |-> at, in |-> in]
           s == IF o.type \in {"arg", "arg_opt"} THEN <<v>> ELSE Append(slot[o], v)
<1>1. v \in V /\ v.at = at /\ v.in = in
  OBVIOUS
<1>2. slot \in [parser.options -> Seq(V)] /\ slot[o] \in Seq(V)
  BY DEF WellTyped
<1>3. slot' = [slot EXCEPT ![o] = s]
  BY DEF Fill
<1> HIDE DEF v, V
<1>4. /\ s \in Seq(V)
      /\ \A k \in 1..Len(s) : s[k] = v \/ (k \in 1..Len(slot[o]) /\ s[k] = slot[o][k])
  <2>1. CASE o.type \in {"arg", "arg_opt"}
    <3>1. s = <<v>>
      BY <2>1
    <3> HIDE DEF s
    <3>2. <<v>> \in Seq(V) /\ Len(<<v>>) = 1 /\ <<v>>[1] = v
      BY <1>1
    <3> QED
      BY <3>1, <3>2
  <2>2. CASE o.type \notin {"arg", "arg_opt"}
    <3>1. s = Append(slot[o], v)
      BY <2>2
    <3> HIDE DEF s
    <3>2. /\ s \in Seq(V) /\ Len(slot[o]) \in Nat /\ Len(s) = Len(slot[o]) + 1
          /\ s[Len(slot[o]) + 1] = v /\ \A k \in 1..Len(slot[o]) : s[k] = slot[o][k]
      BY <1>1, <1>2, <3>1, AppendProperties
    <3> QED
      BY <3>2
  <2> QED
    BY <2>1, <2>2
<1> HIDE DEF s
<1>5. slot' \in [parser.options -> Seq(V)] /\ slot'[o] = s
      /\ \A q \in parser.options : q # o => slot'[q] = slot[q]
  BY <1>2, <1>3, <1>4
<1>6. \A q \in parser.options : \A k \in 1..Len(slot'[q]) :
        (q = o /\ slot'[q][k] = v) \/ (k \in 1..Len(slot[q]) /\ slot'[q][k] = slot[q][k])
  BY <1>4, <1>5
<1> QED
  BY <1>1, <1>5, <1>6 DEF V

LEMMA EndsInv ==
  ASSUME IInv, Ends, UNCHANGED <<callVars, cmd, args, slot, use>>
  PROVE  IInv'
<1>1. /\ parser' = parser /\ argv' = argv /\ cmd' = cmd /\ slot' = slot /\ args' = args /\ use' = use
      /\ i' = i /\ op' = op /\ Places' = Places /\ argc' = argc
      /\ pc' \in {"invalid", "failure", "success"}
  BY DEF Ends, callVars, Places, argc
<1>2. WellTyped'
  BY <1>1 DEF IInv, WellTyped
<1>3. ClusterInv' /\ UseInv'
  BY <1>1 DEF ClusterInv, UseInv
<1>4. ArgsInv'
  BY <1>1 DEF IInv, ArgsInv
<1>5. ValueInv'
  BY <1>1 DEF IInv, ValueInv
<1>6. CommandInv'
  BY <1>1 DEF IInv, CommandInv, Named
<1> QED
  BY <1>2, <1>3, <1>4, <1>5, <1>6 DEF IInv

LEMMA TakesInv ==
  ASSUME IInv, Ready, Takes, Proper(use[i] \cup {"positional"})
  PROVE  IInv'
<1>1. /\ WellTyped /\ pc = "loop" /\ i < argc /\ i \in Places /\ i \in Nat
      /\ parser' = parser /\ argv' = argv /\ cmd' = cmd /\ slot' = slot /\ pc' = pc
      /\ i' = i + 1 /\ op' = 0 /\ Places' = Places /\ argc' = argc
      /\ \A k \in Places : k \in Nat
  BY Places0 DEF IInv, Ready, Takes, OnTo, callVars, Places, argc
<1>2. /\ args' \in Seq(Places) /\ Len(args) \in Nat /\ Len(args') = Len(args) + 1
      /\ args'[Len(args) + 1] = i
      /\ \A k \in 1..Len(args) : args'[k] = args[k]
  BY <1>1, AppendArgs DEF Takes
<1>3. /\ use' \in [Places -> SUBSET Uses] /\ use'[i] = use[i] \cup {"positional"}
      /\ \A k \in Places : k # i => use'[k] = use[k]
  BY <1>1 DEF Takes, Taken, WellTyped, Uses
<1>4. \A k \in 1..Len(args') : k \in 1..Len(args) \/ (k = Len(args) + 1 /\ args'[k] = i)
  BY <1>2
<1>5. WellTyped'
  <2>1. i + 1 \in 1..argc /\ 0 \in Nat
    BY <1>1, Places0
  <2> QED
    BY <1>1, <1>2, <1>3, <2>1 DEF WellTyped
<1>6. UseInv'
  <2>1. ASSUME NEW k \in Places, k < i + 1 PROVE Proper(use'[k]) /\ use'[k] # {"end"}
    <3>1. CASE k = i
      BY <1>3, <3>1
    <3>2. CASE k # i
      <4>1. k < i /\ use'[k] = use[k]
        BY <1>1, <1>3, <2>1, <3>2
      <4> QED
        BY <1>1, <4>1 DEF IInv, UseInv
    <3> QED
      BY <3>1, <3>2
  <2>2. ASSUME NEW k \in Places, k >= i + 1 PROVE use'[k] = {}
    BY <1>1, <1>3, <2>2 DEF IInv, UseInv
  <2>3. \A u : Proper(u)' = Proper(u)
    BY <1>1 DEF Proper
  <2> QED
    BY <1>1, <2>1, <2>2, <2>3 DEF UseInv
<1>7. ArgsInv'
  <2>1. \A k \in 1..Len(args) : args[k] \in Nat /\ args[k] < i
    BY <1>1, ElementOfSeq DEF IInv, ArgsInv, WellTyped
  <2>2. \A j, k \in 1..Len(args') : j < k => args'[j] < args'[k]
    BY SMTT(30), <1>1, <1>2, <1>4, <2>1 DEF IInv, ArgsInv
  <2>3. \A k \in 1..Len(args') : args'[k] < i + 1
    BY <1>1, <1>2, <1>4, <2>1
  <2>4. \A k \in Places : "positional" \in use'[k] <=> \E m \in 1..Len(args') : args'[m] = k
    BY <1>1, <1>2, <1>3, <1>4 DEF IInv, ArgsInv
  <2> QED
    BY <1>1, <2>2, <2>3, <2>4 DEF ArgsInv
<1>8. \A k \in Places : "value" \in use'[k] <=> "value" \in use[k]
  BY <1>3
<1>9. \A q \in parser.options : \A k \in 1..Len(slot[q]) : slot[q][k].at \in Places
  BY <1>1, SlotTypes
<1>10. ValueInv'
  <2>1. ASSUME NEW q \in parser.options, NEW k \in 1..Len(slot[q])
        PROVE  /\ slot[q][k].in = "next" <=> "value" \in use'[slot[q][k].at]
               /\ slot[q][k].at < i + 1
    <3>1. slot[q][k].at \in Places
      BY <1>9
    <3>2. /\ slot[q][k].in = "next" <=> "value" \in use[slot[q][k].at]
          /\ slot[q][k].at < i \/ slot[q][k].at = i
      BY <1>1 DEF IInv, ValueInv
    <3> DEFINE at == slot[q][k].at
    <3>3. at \in Places /\ (slot[q][k].in = "next" <=> "value" \in use[at]) /\ (at < i \/ at = i)
      BY <3>1, <3>2
    <3> HIDE DEF at
    <3>4. (slot[q][k].in = "next" <=> "value" \in use'[at]) /\ at < i + 1
      BY <1>1, <1>8, <3>3
    <3> QED
      BY <3>4 DEF at
  <2> QED
    BY <1>1, <2>1 DEF ValueInv
<1>11. \A k : Named(use, k) => Named(use', k)
  BY <1>1, <1>3 DEF Named
<1>12. CommandInv'
  <2>1. parser.commands # {} => cmd # None
    BY DEF Takes
  <2>2. cmd # None => Named(use, i) /\ Named(use', i + 1)
    <3>1. Named(use', i) => Named(use', i + 1)
      BY <1>1 DEF Named
    <3> QED
      BY <1>1, <1>11, <3>1 DEF IInv, CommandInv
  <2>3. \A o \in parser.options : o.cmd # None =>
          \A k \in 1..Len(slot[o]) : o.cmd = cmd /\ Named(use', slot[o][k].at)
    BY <1>11 DEF IInv, CommandInv
  <2>4. parser.commands # {} /\ parser.max_posargs > 0 => \A k \in 1..Len(args') :
          \/ cmd # None /\ Named(use', args'[k])
          \/ \E j \in Places : j < args'[k] /\ use'[j] = {"end"}
    <3> SUFFICES ASSUME parser.commands # {}, parser.max_posargs > 0, NEW k \in 1..Len(args')
                 PROVE  cmd # None /\ Named(use', args'[k])
      OBVIOUS
    <3>1. CASE args'[k] = i
      BY <1>11, <2>1, <2>2, <3>1
    <3>2. CASE args'[k] # i
      <4>1. k \in 1..Len(args) /\ args'[k] = args[k] /\ args[k] < i
        BY <1>1, <1>2, <1>4, <3>2 DEF IInv, ArgsInv
      <4>2. \A j \in Places : j < args[k] => use[j] # {"end"}
        <5>1. args[k] \in Nat
          BY <1>1, <4>1, ElementOfSeq DEF WellTyped
        <5> QED
          BY <1>1, <4>1, <5>1 DEF IInv, UseInv
      <4> QED
        BY <1>11, <4>1, <4>2 DEF IInv, CommandInv
    <3> QED
      BY <3>1, <3>2
  <2>5. \A u, k : Named(u, k)' = Named(u, k)
    BY <1>1 DEF Named
  <2> QED
    BY <1>1, <2>1, <2>2, <2>3, <2>4, <2>5 DEF CommandInv, Named
<1>13. ClusterInv'
  BY <1>1 DEF ClusterInv
<1> QED
  BY <1>5, <1>6, <1>7, <1>10, <1>12, <1>13 DEF IInv

LEMMA NamesInv ==
  ASSUME IInv, Ready, Names, Proper(use[i] \cup {"command"})
  PROVE  IInv'
<1>1. /\ WellTyped /\ pc = "loop" /\ i < argc /\ i \in Places /\ i \in Nat
      /\ parser' = parser /\ argv' = argv /\ args' = args /\ slot' = slot /\ pc' = pc
      /\ i' = i + 1 /\ op' = 0 /\ Places' = Places /\ argc' = argc
      /\ cmd = None /\ cmd' \in parser.commands
      /\ \A k \in Places : k \in Nat
  BY Places0 DEF IInv, Ready, Names, OnTo, callVars, Places, argc
<1>2. cmd' # None
  BY <1>1, ParserAssumption, Zenon DEF WellTyped
<1>3. /\ use' \in [Places -> SUBSET Uses] /\ use'[i] = use[i] \cup {"command"}
      /\ \A k \in Places : k # i => use'[k] = use[k]
  BY <1>1 DEF Names, Taken, WellTyped, Uses
<1>4. \A k \in 1..Len(args) : args[k] \in Nat /\ args[k] < i /\ args[k] \in Places
  BY <1>1, ElementOfSeq DEF IInv, ArgsInv, WellTyped
<1>5. WellTyped'
  <2>1. i + 1 \in 1..argc /\ 0 \in Nat
    BY <1>1, Places0
  <2> QED
    BY <1>1, <1>3, <2>1 DEF WellTyped
<1>6. UseInv'
  <2>1. ASSUME NEW k \in Places, k < i + 1 PROVE Proper(use'[k]) /\ use'[k] # {"end"}
    <3>1. CASE k = i
      BY <1>3, <3>1
    <3>2. CASE k # i
      <4>1. k < i /\ use'[k] = use[k]
        BY <1>1, <1>3, <2>1, <3>2
      <4> QED
        BY <1>1, <4>1 DEF IInv, UseInv
    <3> QED
      BY <3>1, <3>2
  <2>2. ASSUME NEW k \in Places, k >= i + 1 PROVE use'[k] = {}
    BY <1>1, <1>3, <2>2 DEF IInv, UseInv
  <2>3. \A u : Proper(u)' = Proper(u)
    BY <1>1 DEF Proper
  <2> QED
    BY <1>1, <2>1, <2>2, <2>3 DEF UseInv
<1>7. \A k \in Places : /\ "positional" \in use'[k] <=> "positional" \in use[k]
                        /\ "value" \in use'[k] <=> "value" \in use[k]
  BY <1>3
<1>8. ArgsInv'
  BY <1>1, <1>4, <1>7 DEF IInv, ArgsInv
<1>9. \A q \in parser.options : \A k \in 1..Len(slot[q]) : slot[q][k].at \in Places
  BY <1>1, SlotTypes
<1>10. ValueInv'
  <2>1. ASSUME NEW q \in parser.options, NEW k \in 1..Len(slot[q])
        PROVE  /\ slot[q][k].in = "next" <=> "value" \in use'[slot[q][k].at]
               /\ slot[q][k].at < i + 1
    <3>1. slot[q][k].at \in Places
      BY <1>9
    <3>2. /\ slot[q][k].in = "next" <=> "value" \in use[slot[q][k].at]
          /\ slot[q][k].at < i \/ slot[q][k].at = i
      BY <1>1 DEF IInv, ValueInv
    <3> DEFINE at == slot[q][k].at
    <3>3. at \in Places /\ (slot[q][k].in = "next" <=> "value" \in use[at]) /\ (at < i \/ at = i)
      BY <3>1, <3>2
    <3> HIDE DEF at
    <3>4. (slot[q][k].in = "next" <=> "value" \in use'[at]) /\ at < i + 1
      BY <1>1, <1>7, <3>3
    <3> QED
      BY <3>4 DEF at
  <2> QED
    BY <1>1, <2>1 DEF ValueInv
<1>11. CommandInv'
  <2>1. Named(use', i + 1)
    BY <1>1, <1>3 DEF Named
  <2>2. parser.commands # {} /\ args = <<>>
    BY <1>1 DEF IInv, CommandInv
  <2>3. \A q \in parser.options : q.cmd # None => \A k \in 1..Len(slot[q]) : FALSE
    BY <1>1 DEF IInv, CommandInv
  <2>4. \A k \in 1..Len(args) : FALSE
    BY <2>2
  <2>5. \A u, k : Named(u, k)' = Named(u, k)
    BY <1>1 DEF Named
  <2> QED
    BY <1>1, <2>1, <2>3, <2>4, <2>5 DEF CommandInv, Named
<1>12. ClusterInv'
  BY <1>1 DEF ClusterInv
<1> QED
  BY <1>5, <1>6, <1>8, <1>10, <1>11, <1>12 DEF IInv

(* An option's value in this argument, or none.                            *)
LEMMA FillsInv ==
  ASSUME IInv, Ready, Dashed(argv[i]), argv[i][2] # "-" \/ op = 0,
         NEW o, NEW in, Fills(o, in)
  PROVE  IInv'
<1>1. /\ WellTyped /\ pc = "loop" /\ i < argc /\ i \in Places /\ i \in Nat /\ op \in Nat
      /\ parser' = parser /\ argv' = argv /\ args' = args /\ cmd' = cmd
      /\ Places' = Places /\ argc' = argc
      /\ o \in parser.options /\ o.cmd \in {cmd, None} /\ in \in {"same", "none"}
      /\ \A k \in Places : k \in Nat
  BY Places0 DEF IInv, Ready, Fills, callVars, Places, argc, WellTyped
<1>2. /\ slot' \in [parser.options -> Seq([at : Places, in : {"same", "next", "none"}])]
      /\ \A q \in parser.options : \A k \in 1..Len(slot'[q]) :
           \/ q = o /\ slot'[q][k].at = i /\ slot'[q][k].in = in
           \/ k \in 1..Len(slot[q]) /\ slot'[q][k] = slot[q][k]
  <2>1. Fill(o, i, in) /\ in \in {"same", "next", "none"}
    BY <1>1 DEF Fills
  <2> QED
    BY <1>1, <2>1, FillFacts
<1>3. /\ use' \in [Places -> SUBSET Uses] /\ use'[i] = {"option"}
      /\ \A k \in Places : k # i => use'[k] = use[k]
  <2>1. use' = [use EXCEPT ![i] = use[i] \cup {"option"}] /\ use[i] \cup {"option"} = {"option"}
    BY DEF Fills, Taken, Ready
  <2> QED
    BY <1>1, <2>1 DEF WellTyped, Uses
<1>4. \/ pc' = "loop" /\ i' = i + 1 /\ op' = 0
      \/ pc' \in {"invalid", "failure", "success"} /\ i' = i /\ op' = op
      \/ pc' = "loop" /\ i' = i /\ op > 1 /\ op' = op + 1 /\ argv[i][op] = o.short
  BY <1>1 DEF Fills, OnTo, Ends
<1>5. WellTyped'
  <2>1. i' \in 1..argc /\ op' \in Nat
    BY <1>1, <1>4, Places0
  <2> QED
    BY <1>1, <1>2, <1>3, <1>4, <2>1 DEF WellTyped
<1>6. ClusterInv'
  <2> SUFFICES ASSUME pc' = "loop", op' # 0
               PROVE  /\ i < argc /\ Dashed(argv[i]) /\ argv[i][2] # "-" /\ op' > 1
                      /\ Len(args) < parser.max_posargs /\ use'[i] = {"option"} /\ op' > 2
                      /\ \E q \in parser.options : argv[i][op' - 1] = q.short
    BY <1>1, <1>4 DEF ClusterInv, Dashed
  <2>1. op > 1 /\ op' = op + 1 /\ argv[i][op] = o.short
    BY <1>1, <1>4
  <2>2. op' - 1 = op /\ op' > 2
    BY <1>1, <2>1
  <2> QED
    BY <1>1, <1>3, <2>1, <2>2 DEF Ready
<1>7. UseInv'
  <2>1. Proper({"option"}) /\ \A u : Proper(u)' = Proper(u)
    BY <1>1 DEF Proper, Uses
  <2>2. ASSUME NEW k \in Places, k < i PROVE Proper(use'[k]) /\ use'[k] # {"end"}
    BY <1>1, <1>3, <2>2 DEF IInv, UseInv
  <2>3. ASSUME NEW k \in Places, k > i PROVE use'[k] = {}
    BY <1>1, <1>3, <2>3 DEF IInv, UseInv
  <2>4. {"option"} # {"end"}
    OBVIOUS
  <2>5. \A k \in Places : k < i + 1 <=> k < i \/ k = i
    BY <1>1
  <2>6. \A k \in Places : k >= i + 1 <=> k > i
    BY <1>1
  <2> QED
    BY <1>1, <1>3, <1>4, <2>1, <2>2, <2>3, <2>4, <2>5, <2>6 DEF UseInv
<1>8. \A k \in Places : /\ "positional" \in use'[k] <=> "positional" \in use[k]
                        /\ "value" \in use'[k] <=> "value" \in use[k]
                        /\ "command" \in use'[k] <=> "command" \in use[k]
  BY <1>3 DEF Ready
<1>9. \A k \in 1..Len(args) : args[k] \in Nat /\ args[k] < i /\ args[k] \in Places
  BY <1>1, ElementOfSeq DEF IInv, ArgsInv, WellTyped
<1>10. ArgsInv'
  BY <1>1, <1>4, <1>8, <1>9 DEF IInv, ArgsInv
<1>11. ASSUME NEW q \in parser.options, NEW k \in 1..Len(slot'[q])
       PROVE  \/ q = o /\ slot'[q][k].at = i /\ slot'[q][k].in \in {"same", "none"}
              \/ /\ k \in 1..Len(slot[q]) /\ slot'[q][k] = slot[q][k] /\ slot[q][k].at \in Places
                 /\ slot[q][k].in = "next" <=> "value" \in use[slot[q][k].at]
                 /\ slot[q][k].at < i \/ (slot[q][k].at = i /\ op # 0)
                 /\ q.cmd # None => q.cmd = cmd /\ Named(use, slot[q][k].at)
  <2>1. CASE q = o /\ slot'[q][k].at = i /\ slot'[q][k].in = in
    BY <1>1, <2>1
  <2>2. CASE k \in 1..Len(slot[q]) /\ slot'[q][k] = slot[q][k]
    <3>1. slot[q][k].at \in Places
      BY <1>1, <2>2, SlotTypes
    <3>2. /\ slot[q][k].in = "next" <=> "value" \in use[slot[q][k].at]
          /\ slot[q][k].at < i \/ (slot[q][k].at = i /\ op # 0)
      BY <1>1, <2>2 DEF IInv, ValueInv
    <3>3. q.cmd # None => q.cmd = cmd /\ Named(use, slot[q][k].at)
      BY <1>1, <2>2 DEF IInv, CommandInv
    <3> QED
      BY <2>2, <3>1, <3>2, <3>3
  <2> QED
    BY <1>2, <2>1, <2>2
<1>12. ValueInv'
  <2>1. ASSUME NEW q \in parser.options, NEW k \in 1..Len(slot'[q])
        PROVE  /\ slot'[q][k].in = "next" <=> "value" \in use'[slot'[q][k].at]
               /\ pc' = "loop" => slot'[q][k].at < i' \/ (op' # 0 /\ slot'[q][k].at = i')
    <3>1. CASE slot'[q][k].at = i /\ slot'[q][k].in \in {"same", "none"}
      BY <1>1, <1>3, <1>4, <3>1
    <3>2. CASE /\ slot'[q][k] = slot[q][k] /\ slot[q][k].at \in Places
               /\ slot[q][k].in = "next" <=> "value" \in use[slot[q][k].at]
               /\ slot[q][k].at < i \/ (slot[q][k].at = i /\ op # 0)
      <4> DEFINE at == slot[q][k].at
      <4>1. /\ at \in Places /\ (slot[q][k].in = "next" <=> "value" \in use[at])
            /\ at < i \/ (at = i /\ op # 0)
        BY <3>2
      <4> HIDE DEF at
      <4>2. /\ slot[q][k].in = "next" <=> "value" \in use'[at]
            /\ pc' = "loop" => at < i' \/ (op' # 0 /\ at = i')
        BY <1>1, <1>4, <1>8, <4>1
      <4> QED
        BY <3>2, <4>2 DEF at
    <3> QED
      BY <1>11, <3>1, <3>2
  <2> QED
    BY <1>1, <2>1 DEF ValueInv
<1>13. CommandInv'
  <2>1. \A k : Named(use', k) <=> Named(use, k)
    BY <1>8 DEF Named
  <2>2. \A u, k : Named(u, k)' = Named(u, k)
    BY <1>1 DEF Named
  <2>3. Named(use, i) => Named(use, i')
    <3>1. i' = i \/ i' = i + 1
      BY <1>4
    <3> QED
      BY <1>1, <3>1 DEF Named
  <2>4. cmd # None => Named(use, i)
    BY <1>1 DEF IInv, CommandInv
  <2>5. ASSUME NEW q \in parser.options, q.cmd # None, NEW k \in 1..Len(slot'[q])
        PROVE  q.cmd = cmd /\ Named(use', slot'[q][k].at)
    <3>1. CASE q = o /\ slot'[q][k].at = i
      BY <1>1, <2>1, <2>4, <2>5, <3>1
    <3>2. CASE slot'[q][k] = slot[q][k] /\ q.cmd = cmd /\ Named(use, slot[q][k].at)
      BY <2>1, <3>2
    <3> QED
      BY <1>11, <2>5, <3>1, <3>2
  <2>6. parser.commands # {} /\ parser.max_posargs > 0 => \A k \in 1..Len(args) :
          cmd # None /\ Named(use', args[k])
    <3> SUFFICES ASSUME parser.commands # {}, parser.max_posargs > 0, NEW k \in 1..Len(args)
                 PROVE  cmd # None /\ Named(use, args[k])
      BY <2>1
    <3>1. \A j \in Places : j < args[k] => use[j] # {"end"}
      BY <1>1, <1>9 DEF IInv, UseInv
    <3> QED
      BY <3>1 DEF IInv, CommandInv
  <2> QED
    BY <1>1, <1>4, <2>1, <2>2, <2>3, <2>4, <2>5, <2>6 DEF IInv, CommandInv
<1> QED
  BY <1>5, <1>6, <1>7, <1>10, <1>12, <1>13 DEF IInv

(* An option's value in the next argument.                                 *)
LEMMA FillsNextInv ==
  ASSUME IInv, Ready, NEW o, FillsNext(o)
  PROVE  IInv'
<1>1. /\ WellTyped /\ pc = "loop" /\ i < argc /\ i \in Places /\ i + 1 \in Places /\ i \in Nat
      /\ parser' = parser /\ argv' = argv /\ args' = args /\ cmd' = cmd
      /\ Places' = Places /\ argc' = argc /\ pc' = pc /\ i' = i + 2 /\ op' = 0
      /\ o \in parser.options /\ o.cmd \in {cmd, None}
      /\ \A k \in Places : k \in Nat
  BY Places0 DEF IInv, Ready, FillsNext, OnTo, callVars, Places, argc
<1>2. /\ slot' \in [parser.options -> Seq([at : Places, in : {"same", "next", "none"}])]
      /\ \A q \in parser.options : \A k \in 1..Len(slot'[q]) :
           \/ q = o /\ slot'[q][k].at = i + 1 /\ slot'[q][k].in = "next"
           \/ k \in 1..Len(slot[q]) /\ slot'[q][k] = slot[q][k]
  <2>1. Fill(o, i + 1, "next")
    BY DEF FillsNext
  <2> QED
    BY <1>1, <2>1, FillFacts
<1>3. /\ use' \in [Places -> SUBSET Uses] /\ use'[i] = {"option"} /\ use'[i + 1] = {"value"}
      /\ \A k \in Places : k # i /\ k # i + 1 => use'[k] = use[k]
  <2>1. i # i + 1
    BY <1>1
  <2> QED
    BY <1>1, <2>1 DEF FillsNext, WellTyped, Uses
<1>4. use[i] \in {{}, {"option"}} /\ use[i + 1] = {}
  BY <1>1 DEF IInv, UseInv, Ready
<1>5. WellTyped'
  <2>1. i' \in 1..argc /\ op' \in Nat
    BY <1>1, Places0 DEF FillsNext
  <2> QED
    BY <1>1, <1>2, <1>3, <2>1 DEF WellTyped
<1>6. ClusterInv'
  BY <1>1 DEF ClusterInv
<1>7. UseInv'
  <2>1. Proper({"option"}) /\ Proper({"value"}) /\ \A u : Proper(u)' = Proper(u)
    BY <1>1 DEF Proper, Uses
  <2>2. ASSUME NEW k \in Places, k < i PROVE Proper(use'[k]) /\ use'[k] # {"end"}
    <3>1. k # i /\ k # i + 1
      BY <1>1, <2>2
    <3> QED
      BY <1>1, <1>3, <2>2, <3>1 DEF IInv, UseInv
  <2>3. ASSUME NEW k \in Places, k >= i + 2 PROVE use'[k] = {}
    BY <1>1, <1>3, <2>3 DEF IInv, UseInv
  <2>4. {"option"} # {"end"} /\ {"value"} # {"end"}
    OBVIOUS
  <2>5. \A k \in Places : k < i + 2 <=> k < i \/ k = i \/ k = i + 1
    BY <1>1
  <2>6. \A k \in Places : k > i + 2 \/ k = i + 2 <=> k >= i + 2
    BY <1>1
  <2> QED
    BY <1>1, <1>3, <2>1, <2>2, <2>3, <2>4, <2>5, <2>6 DEF UseInv
<1>8. \A k \in Places : /\ "positional" \in use'[k] <=> "positional" \in use[k]
                        /\ "command" \in use'[k] <=> "command" \in use[k]
  BY <1>3, <1>4
<1>9. \A k \in 1..Len(args) : args[k] \in Nat /\ args[k] < i /\ args[k] \in Places
  BY <1>1, ElementOfSeq DEF IInv, ArgsInv, WellTyped
<1>10. ArgsInv'
  <2>1. \A k \in 1..Len(args) : args[k] < i + 2
    BY <1>1, <1>9
  <2> QED
    BY <1>1, <1>8, <2>1 DEF IInv, ArgsInv
<1>11. ASSUME NEW q \in parser.options, NEW k \in 1..Len(slot'[q])
       PROVE  \/ q = o /\ slot'[q][k].at = i + 1 /\ slot'[q][k].in = "next"
              \/ /\ slot'[q][k] = slot[q][k] /\ slot[q][k].at \in Places
                 /\ slot[q][k].in = "next" <=> "value" \in use[slot[q][k].at]
                 /\ slot[q][k].at < i \/ slot[q][k].at = i
                 /\ q.cmd # None => q.cmd = cmd /\ Named(use, slot[q][k].at)
  <2>2. CASE k \in 1..Len(slot[q]) /\ slot'[q][k] = slot[q][k]
    <3>1. slot[q][k].at \in Places
      BY <1>1, <2>2, SlotTypes
    <3>2. /\ slot[q][k].in = "next" <=> "value" \in use[slot[q][k].at]
          /\ slot[q][k].at < i \/ slot[q][k].at = i
      BY <1>1, <2>2 DEF IInv, ValueInv
    <3>3. q.cmd # None => q.cmd = cmd /\ Named(use, slot[q][k].at)
      BY <1>1, <2>2 DEF IInv, CommandInv
    <3> QED
      BY <2>2, <3>1, <3>2, <3>3
  <2> QED
    BY <1>2, <2>2
<1>12. ValueInv'
  <2>1. ASSUME NEW q \in parser.options, NEW k \in 1..Len(slot'[q])
        PROVE  /\ slot'[q][k].in = "next" <=> "value" \in use'[slot'[q][k].at]
               /\ slot'[q][k].at < i'
    <3>1. CASE slot'[q][k].at = i + 1 /\ slot'[q][k].in = "next"
      BY <1>1, <1>3, <3>1
    <3>2. CASE /\ slot'[q][k] = slot[q][k] /\ slot[q][k].at \in Places
               /\ slot[q][k].in = "next" <=> "value" \in use[slot[q][k].at]
               /\ slot[q][k].at < i \/ slot[q][k].at = i
      <4> DEFINE at == slot[q][k].at
      <4>1. /\ at \in Places /\ (slot[q][k].in = "next" <=> "value" \in use[at])
            /\ at < i \/ at = i
        BY <3>2
      <4> HIDE DEF at
      <4>2. at # i + 1 /\ at < i + 2
        BY <1>1, <4>1
      <4>3. "value" \in use'[at] <=> "value" \in use[at]
        BY <1>3, <1>4, <4>1, <4>2
      <4> QED
        BY <1>1, <3>2, <4>1, <4>2, <4>3 DEF at
    <3> QED
      BY <1>11, <3>1, <3>2
  <2> QED
    BY <1>1, <2>1 DEF ValueInv
<1>13. CommandInv'
  <2>1. \A k : Named(use', k) <=> Named(use, k)
    BY <1>8 DEF Named
  <2>2. \A u, k : Named(u, k)' = Named(u, k)
    BY <1>1 DEF Named
  <2>3. Named(use, i) => Named(use, i + 1) /\ Named(use, i + 2)
    BY <1>1 DEF Named
  <2>4. cmd # None => Named(use, i)
    BY <1>1 DEF IInv, CommandInv
  <2>5. ASSUME NEW q \in parser.options, q.cmd # None, NEW k \in 1..Len(slot'[q])
        PROVE  q.cmd = cmd /\ Named(use', slot'[q][k].at)
    <3>1. CASE q = o /\ slot'[q][k].at = i + 1
      BY <1>1, <2>1, <2>3, <2>4, <2>5, <3>1
    <3>2. CASE slot'[q][k] = slot[q][k] /\ q.cmd = cmd /\ Named(use, slot[q][k].at)
      BY <2>1, <3>2
    <3> QED
      BY <1>11, <2>5, <3>1, <3>2
  <2>6. parser.commands # {} /\ parser.max_posargs > 0 => \A k \in 1..Len(args) :
          cmd # None /\ Named(use', args[k])
    <3> SUFFICES ASSUME parser.commands # {}, parser.max_posargs > 0, NEW k \in 1..Len(args)
                 PROVE  cmd # None /\ Named(use, args[k])
      BY <2>1
    <3>1. \A j \in Places : j < args[k] => use[j] # {"end"}
      BY <1>1, <1>9 DEF IInv, UseInv
    <3> QED
      BY <3>1 DEF IInv, CommandInv
  <2> QED
    BY <1>1, <2>1, <2>2, <2>3, <2>4, <2>5, <2>6 DEF IInv, CommandInv
<1> QED
  BY <1>5, <1>6, <1>7, <1>10, <1>12, <1>13 DEF IInv

(* The arguments that are left, from k on.                                 *)
LEMMA PileFacts ==
  ASSUME WellTyped, NEW k \in {i, i + 1}, k <= argc,
         args' = args \o [j \in 1..(argc - k) |-> k + j - 1]
  PROVE  /\ args' \in Seq(Places) /\ Len(args) \in Nat /\ Len(args') = Len(args) + (argc - k)
         /\ \A m \in 1..Len(args') : args'[m] = IF m <= Len(args) THEN args[m]
                                                ELSE k + (m - Len(args)) - 1
<1> DEFINE n == argc - k
           t == [j \in 1..n |-> k + j - 1]
<1>1. n \in Nat /\ k \in Nat /\ k > 0 /\ Len(argv) \in Nat /\ argc = Len(argv) + 1 /\ n = argc - k
  BY Places0
<1> HIDE DEF n
<1>2. \A j \in 1..n : k + j - 1 \in Places
  BY <1>1 DEF Places
<1>3. t \in [1..n -> Places] /\ t \in Seq(Places) /\ Len(t) = n /\ \A j \in 1..n : t[j] = k + j - 1
  <2>1. t \in [1..n -> Places] /\ \A j \in 1..n : t[j] = k + j - 1
    BY <1>2
  <2> HIDE DEF t
  <2> QED
    <3>1. t \in Seq(Places)
      BY <1>1, <2>1, SeqDef
    <3>2. Len(t) \in Nat /\ DOMAIN t = 1..Len(t)
      BY <3>1, LenProperties
    <3>3. 1..Len(t) = 1..n
      BY <2>1, <3>2
    <3> QED
      BY <1>1, <2>1, <3>1, <3>2, <3>3
<1>4. args' = args \o t /\ args \in Seq(Places)
  BY DEF WellTyped, n
<1> HIDE DEF t
<1>5. /\ args' \in Seq(Places) /\ Len(args) \in Nat /\ Len(args') = Len(args) + n
      /\ \A m \in 1..(Len(args) + n) : args'[m] = IF m <= Len(args) THEN args[m] ELSE t[m - Len(args)]
  <2>1. Len(args) \in Nat
    BY <1>4, LenProperties
  <2> QED
    <3>1. /\ args \o t \in Seq(Places) /\ Len(args \o t) = Len(args) + Len(t)
          /\ \A m \in 1..(Len(args) + Len(t)) :
               (args \o t)[m] = IF m <= Len(args) THEN args[m] ELSE t[m - Len(args)]
      BY <1>3, <1>4, ConcatProperties
    <3> QED
      BY <1>3, <1>4, <2>1, <3>1
<1>6. \A m \in 1..(Len(args) + n) : ~(m <= Len(args)) => m - Len(args) \in 1..n
  BY <1>1, <1>5
<1> QED
  BY <1>1, <1>3, <1>5, <1>6

LEMMA PileInv ==
  ASSUME IInv, pc = "loop", op = 0, NEW k \in {i, i + 1}, k <= argc, Pile(k),
         k = i => (i = argc \/ parser.max_posargs <= Len(args))
  PROVE  IInv'
<1>1. /\ WellTyped /\ i \in Nat /\ i > 0 /\ argc = Len(argv) + 1 /\ Len(argv) \in Nat /\ i <= argc
      /\ parser' = parser /\ argv' = argv /\ cmd' = cmd /\ slot' = slot
      /\ i' = i /\ op' = op /\ pc' = "returned" /\ Places' = Places /\ argc' = argc
      /\ \A j \in Places : j \in Nat /\ j > 0 /\ j < argc
  <2>1. WellTyped /\ i <= argc
    <3>1. i \in 1..argc /\ Len(argv) \in Nat
      BY DEF IInv, WellTyped
    <3> QED
      BY <3>1 DEF IInv, argc
  <2>2. parser' = parser /\ argv' = argv /\ cmd' = cmd /\ slot' = slot /\ i' = i /\ op' = op /\ pc' = "returned"
    BY DEF Pile, callVars
  <2> QED
    BY <2>1, <2>2, Places0 DEF Places, argc
<1>2. /\ args' \in Seq(Places) /\ Len(args) \in Nat /\ Len(args') = Len(args) + (argc - k)
      /\ \A m \in 1..Len(args') : args'[m] = IF m <= Len(args) THEN args[m]
                                             ELSE k + (m - Len(args)) - 1
  BY <1>1, PileFacts DEF Pile
<1>3. /\ use' \in [Places -> SUBSET Uses]
      /\ \A j \in Places : use'[j] = IF j >= k THEN {"positional"}
                                     ELSE IF j = i THEN {"end"} ELSE use[j]
  BY <1>1 DEF Pile, WellTyped, Uses
<1>4. k \in Nat /\ (k = i \/ k = i + 1)
  BY <1>1
<1>5. \A j \in Places : j < i => use'[j] = use[j]
  BY <1>1, <1>3, <1>4
<1>6. \A m \in 1..Len(args) : args[m] \in Places /\ args[m] < i
  BY <1>1, ElementOfSeq DEF IInv, ArgsInv, WellTyped
<1>7. \A m \in 1..Len(args') : \/ m \in 1..Len(args) /\ args'[m] = args[m]
                               \/ m > Len(args) /\ args'[m] = k + (m - Len(args)) - 1
  BY <1>2
<1>8. WellTyped'
  BY <1>1, <1>2, <1>3 DEF WellTyped
<1>9. UseInv'
  <2>1. Proper({"positional"}) /\ Proper({"end"}) /\ \A u : Proper(u)' = Proper(u)
    BY <1>1 DEF Proper, Uses
  <2>2. ASSUME NEW j \in Places PROVE Proper(use'[j])
    <3>1. CASE j < i
      BY <1>5, <3>1 DEF IInv, UseInv
    <3>2. CASE ~(j < i)
      <4>1. j >= k \/ j = i
        BY <1>1, <1>4, <3>2
      <4> QED
        BY <1>3, <2>1, <4>1
    <3> QED
      BY <3>1, <3>2
  <2> QED
    BY <1>1, <2>1, <2>2 DEF UseInv
<1>10. ArgsInv'
  <2>1. ASSUME NEW j \in 1..Len(args'), NEW m \in 1..Len(args'), j < m PROVE args'[j] < args'[m]
    <3>1. CASE m \in 1..Len(args)
      <4>1. j \in 1..Len(args) /\ args'[j] = args[j] /\ args'[m] = args[m]
        BY <1>2, <2>1, <3>1
      <4> QED
        BY <2>1, <3>1, <4>1 DEF IInv, ArgsInv
    <3>2. CASE m \notin 1..Len(args)
      <4>1. args'[m] = k + (m - Len(args)) - 1 /\ m > Len(args)
        BY <1>7, <3>2
      <4>2. CASE j \in 1..Len(args)
        <5>1. args'[j] = args[j] /\ args[j] < i /\ args[j] \in Nat
          <6>1. args'[j] = args[j]
            BY <1>2, <1>7, <4>2
          <6> QED
            BY <1>1, <1>6, <4>2, <6>1
        <5>2. /\ i \in Nat /\ k \in Nat /\ i <= k
              /\ m \in Nat /\ Len(args) \in Nat /\ m > Len(args)
          BY <1>1, <1>2, <1>4, <4>1
        <5>3. args'[m] \in Nat /\ i <= args'[m]
          BY <4>1, <5>2
        <5> QED
          BY <5>1, <5>2, <5>3
      <4>3. CASE j \notin 1..Len(args)
        <5>1. args'[j] = k + (j - Len(args)) - 1
          BY <1>7, <4>3
        <5> QED
          BY <1>2, <1>4, <2>1, <4>1, <5>1
      <4> QED
        BY <4>2, <4>3
    <3> QED
      BY <3>1, <3>2
  <2>2. ASSUME NEW j \in Places
        PROVE  "positional" \in use'[j] <=> \E m \in 1..Len(args') : args'[m] = j
    <3>1. CASE j < i
      <4>1. \A m \in 1..Len(args') : args'[m] = j <=> m \in 1..Len(args) /\ args[m] = j
        <5> SUFFICES ASSUME NEW m \in 1..Len(args'), m > Len(args), args'[m] = k + (m - Len(args)) - 1
                     PROVE  args'[m] # j /\ m \notin 1..Len(args)
          BY <1>7
        <5> QED
          BY SMTT(30), <1>1, <1>2, <1>4, <3>1
      <4>2. \A m \in 1..Len(args) : m \in 1..Len(args')
        BY <1>1, <1>2, <1>4
      <4> QED
        BY <1>5, <3>1, <4>1, <4>2 DEF IInv, ArgsInv
    <3>2. CASE j >= k
      <4> DEFINE m == Len(args) + (j - k) + 1
      <4>1. m \in 1..Len(args') /\ ~(m <= Len(args)) /\ k + (m - Len(args)) - 1 = j
        BY SMTT(30), <1>1, <1>2, <1>4, <3>2
      <4>2. args'[m] = j
        BY <1>2, <4>1
      <4> QED
        BY <1>3, <3>2, <4>1, <4>2
    <3>3. CASE ~(j < i) /\ ~(j >= k)
      <4>1. j = i /\ use'[j] = {"end"} /\ k = i + 1
        BY <1>1, <1>3, <1>4, <3>3
      <4>2. \A m \in 1..Len(args') : args'[m] # j
        <5> SUFFICES ASSUME NEW m \in 1..Len(args') PROVE args'[m] # j
          OBVIOUS
        <5>1. CASE m \in 1..Len(args) /\ args'[m] = args[m]
          BY <1>1, <1>6, <4>1, <5>1
        <5>2. CASE m > Len(args) /\ args'[m] = k + (m - Len(args)) - 1
          BY <1>1, <1>2, <4>1, <5>2
        <5> QED
          BY <1>7, <5>1, <5>2
      <4> QED
        BY <4>1, <4>2
    <3> QED
      BY <3>1, <3>2, <3>3
  <2> QED
    BY <1>1, <2>1, <2>2 DEF ArgsInv
<1>11. \A q \in parser.options : \A m \in 1..Len(slot[q]) : slot[q][m].at \in Places /\ slot[q][m].at < i
  BY <1>1, SlotTypes DEF IInv, ValueInv
<1>12. ValueInv'
  BY <1>1, <1>5, <1>11 DEF IInv, ValueInv
<1>13. CommandInv'
  <2>1. \A j \in Nat : Named(use, j) /\ j <= i => Named(use', j)
    BY <1>1, <1>5 DEF Named
  <2>2. \A u, j : Named(u, j)' = Named(u, j)
    BY <1>1 DEF Named
  <2>3. ASSUME NEW q \in parser.options, q.cmd # None, NEW m \in 1..Len(slot[q])
        PROVE  q.cmd = cmd /\ Named(use', slot[q][m].at)
    <3>1. slot[q][m].at \in Nat /\ slot[q][m].at <= i
      BY <1>1, <1>11
    <3> QED
      BY <2>1, <2>3, <3>1 DEF IInv, CommandInv
  <2>4. ASSUME parser.commands # {}, parser.max_posargs > 0, NEW m \in 1..Len(args')
        PROVE  \/ cmd # None /\ Named(use', args'[m])
               \/ \E j \in Places : j < args'[m] /\ use'[j] = {"end"}
    <3>1. CASE m \in 1..Len(args)
      <4>1. args'[m] = args[m] /\ args[m] \in Nat /\ args[m] < i /\ args[m] \in Places
        <5>1. args'[m] = args[m]
          BY <1>2, <1>7, <3>1
        <5> QED
          BY <1>1, <1>6, <3>1, <5>1
      <4>2. \A j \in Places : j < args[m] => use[j] # {"end"}
        BY <1>1, <4>1 DEF IInv, UseInv
      <4>3. cmd # None /\ Named(use, args[m])
        BY <2>4, <3>1, <4>2 DEF IInv, CommandInv
      <4> QED
        BY <1>1, <2>1, <4>1, <4>3
    <3>2. CASE m \notin 1..Len(args)
      <4>1. args'[m] = k + (m - Len(args)) - 1 /\ m > Len(args)
        BY <1>7, <3>2
      <4>2. args'[m] \in Nat /\ args'[m] >= k /\ k < argc
        BY SMTT(30), <1>1, <1>2, <1>4, <4>1
      <4>3. CASE k = i + 1
        <5>1. i \in Places /\ ~(i >= k) /\ i < args'[m]
          BY <1>1, <4>2, <4>3 DEF Places
        <5>2. use'[i] = {"end"}
          BY <1>3, <5>1
        <5> QED
          BY <5>1, <5>2
      <4>4. CASE k = i
        <5>1. parser.max_posargs <= Len(args)
          BY <1>1, <4>2, <4>4
        <5>2. args # <<>>
          <6>1. parser.max_posargs \in Nat
            BY <1>1, ParserAssumption, Zenon DEF WellTyped
          <6> QED
            BY <1>2, <2>4, <5>1, <6>1
        <5>3. cmd # None /\ Named(use, i)
          BY <2>4, <5>2 DEF IInv, CommandInv
        <5>4. Named(use', i)
          BY <1>1, <2>1, <5>3
        <5>5. Named(use', args'[m])
          BY <1>1, <4>2, <4>4, <5>4 DEF Named
        <5> QED
          BY <5>3, <5>5
      <4> QED
        BY <1>4, <4>3, <4>4
    <3> QED
      BY <3>1, <3>2
  <2> QED
    BY <1>1, <2>2, <2>3, <2>4 DEF CommandInv
<1>14. ClusterInv'
  BY <1>1 DEF ClusterInv
<1> QED
  BY <1>8, <1>9, <1>10, <1>12, <1>13, <1>14 DEF IInv

LEMMA ClusterStarts ==
  ASSUME IInv, Cluster
  PROVE  IInv'
<1>1. /\ WellTyped /\ pc = "loop" /\ op = 0 /\ i < argc /\ Dashed(argv[i]) /\ argv[i][2] # "-" /\ i \in Places
      /\ Len(args) < parser.max_posargs /\ op' = 2 /\ Places' = Places
      /\ parser' = parser /\ argv' = argv /\ cmd' = cmd /\ slot' = slot /\ args' = args
      /\ use' = use /\ i' = i /\ pc' = pc /\ argc' = argc
  BY Places0 DEF IInv, Cluster, Reading, callVars, Places, argc
<1>2. use[i] = {}
  BY <1>1 DEF IInv, UseInv
<1>3. WellTyped'
  BY <1>1 DEF WellTyped
<1>4. ClusterInv'
  BY <1>1, <1>2 DEF ClusterInv, Dashed
<1>5. UseInv'
  BY <1>1 DEF IInv, UseInv, Proper
<1>6. ArgsInv'
  BY <1>1 DEF IInv, ArgsInv
<1>7. ValueInv'
  BY <1>1 DEF IInv, ValueInv
<1>8. CommandInv'
  BY <1>1 DEF IInv, CommandInv, Named
<1> QED
  BY <1>3, <1>4, <1>5, <1>6, <1>7, <1>8 DEF IInv

-----------------------------------------------------------------------------
(* Every step does one of these.                                           *)

\* Looking like an option, argument k may yet be passed on.
MayPass(k) == Dashed(argv[k]) => \/ argv[k][2] \in Numeral
                                 \/ parser.allow_dash /\ argv[k][2] # "-"

\* What an action does but one that starts a cluster or takes all that is left.
Does == \/ Takes /\ Proper(use[i] \cup {"positional"}) /\ MayPass(i)
        \/ Names /\ Proper(use[i] \cup {"command"})
        \/ Dashed(argv[i]) /\ (argv[i][2] # "-" \/ op = 0)
             /\ \E o \in parser.options : (\E in \in {"same", "none"} : Fills(o, in)) \/ FillsNext(o)
        \/ Ends /\ UNCHANGED <<callVars, cmd, args, slot, use>>

LEMMA DoesInv == ASSUME IInv, Ready, Does PROVE IInv'
  BY TakesInv, NamesInv, FillsInv, FillsNextInv, EndsInv DEF Does

LEMMA TakeArgDoes ==
  ASSUME IInv, Ready, NEW k, TakeArg(k), use[i] = {} \/ parser.allow_dash, MayPass(i)
  PROVE  Does
<1>1. Proper(use[i] \cup {"positional"}) /\ Proper(use[i] \cup {"command"})
  BY DEF Ready, Proper, Uses
<1>2. CASE (cmd # None \/ parser.commands = {}) /\ args' = Append(args, i)
           /\ Taken(i, "positional") /\ Goto(i + 1) /\ UNCHANGED cmd
  BY <1>1, <1>2 DEF Does, Takes, TakeArg, Goto, OnTo
<1>3. CASE cmd = None /\ From(k) \in parser.commands /\ cmd' = From(k)
           /\ Taken(i, "command") /\ Goto(i + 1) /\ UNCHANGED args
  BY <1>1, <1>3 DEF Does, Names, TakeArg, Goto, OnTo
<1>4. CASE Stop("invalid") /\ UNCHANGED <<cmd, args, use>>
  BY <1>4 DEF Does, TakeArg, Stop, Ends
<1> QED
  BY <1>2, <1>3, <1>4 DEF TakeArg

LEMMA ValueDoes ==
  ASSUME IInv, Ready, Dashed(argv[i]), argv[i][2] # "-" \/ op = 0,
         NEW o \in parser.options, o.cmd \in {cmd, None}, NEW glued \in BOOLEAN, Value(o, glued),
         UNCHANGED <<callVars, cmd, args>>
  PROVE  Does
<1>1. CASE glued
  <2>1. Fill(o, i, "same") /\ Taken(i, "option") /\ Goto(i + 1)
    BY <1>1 DEF Value
  <2>2. Fills(o, "same")
    BY <2>1 DEF Fills, Goto, OnTo
  <2> QED
    BY <2>2 DEF Does
<1>2. CASE ~glued /\ o.type \in {"arg", "arg_mul"}
  <2>1. NextValue(o)
    BY <1>2 DEF Value
  <2>2. CASE i + 1 < argc
    <3>1. FillsNext(o)
      BY <2>1, <2>2 DEF NextValue, FillsNext, Goto, OnTo
    <3> QED
      BY <3>1 DEF Does
  <2>3. CASE ~(i + 1 < argc)
    BY <2>1, <2>3 DEF NextValue, Does, Stop, Ends
  <2> QED
    BY <2>2, <2>3
<1>3. CASE ~glued /\ o.type \notin {"arg", "arg_mul"}
  <2>1. Fill(o, i, "none") /\ Taken(i, "option") /\ Goto(i + 1)
    BY <1>3 DEF Value
  <2>2. Fills(o, "none")
    BY <2>1 DEF Fills, Goto, OnTo
  <2> QED
    BY <2>2 DEF Does
<1> QED
  BY <1>1, <1>2, <1>3

LEMMA WordDoes == ASSUME IInv, Word PROVE Ready /\ Does
<1>1. /\ pc = "loop" /\ op = 0 /\ i < argc /\ Len(args) < parser.max_posargs
      /\ ~Dashed(argv[i]) /\ \E k : TakeArg(k)
  BY DEF Word, Reading
<1>2. use[i] = {}
  BY <1>1, Places0 DEF IInv, UseInv
<1>3. Ready
  BY <1>1, <1>2 DEF Ready
<1> QED
  BY <1>1, <1>2, <1>3, TakeArgDoes DEF MayPass

\* All arguments from k on are taken.
Piles(k) == /\ pc = "loop" /\ op = 0 /\ k <= argc /\ Pile(k)
            /\ \/ k = i /\ (i = argc \/ parser.max_posargs <= Len(args))
               \/ k = i + 1 /\ i < argc /\ argv[i] = <<"-", "-">>

LEMMA PilesDoes == ASSUME IInv, Dashdash \/ Rest PROVE \E k \in {i, i + 1} : Piles(k)
<1>1. i \in Nat /\ argc \in Nat /\ i <= argc
  <2>1. i \in 1..argc /\ Len(argv) \in Nat
    BY DEF IInv, WellTyped
  <2> QED
    BY <2>1 DEF argc
<1>2. parser.max_posargs \in Nat /\ Len(args) \in Nat
  <2>1. parser.max_posargs \in Nat
    BY ParserAssumption, Zenon DEF IInv, WellTyped
  <2> QED
    BY <2>1, LenProperties DEF IInv, WellTyped
<1>3. CASE Dashdash
  <2>1. pc = "loop" /\ op = 0 /\ i < argc /\ Pile(i + 1) /\ argv[i] = <<"-", "-">>
    BY <1>3 DEF Dashdash, Reading
  <2>2. i + 1 <= argc
    BY <1>1, <2>1
  <2> QED
    BY <2>1, <2>2 DEF Piles
<1>4. CASE Rest
  <2>1. pc = "loop" /\ op = 0 /\ (i = argc \/ parser.max_posargs <= Len(args))
    BY <1>1, <1>2, <1>4 DEF Rest, Reading
  <2>2. CASE i < argc /\ argv[i] = <<"-", "-">>
    <3>1. Pile(i + 1) /\ i + 1 <= argc
      BY <1>1, <1>4, <2>2 DEF Rest
    <3> QED
      BY <2>1, <2>2, <3>1 DEF Piles
  <2>3. CASE ~(i < argc /\ argv[i] = <<"-", "-">>)
    <3>1. Pile(i)
      BY <1>4, <2>3 DEF Rest
    <3> QED
      BY <1>1, <2>1, <3>1 DEF Piles
  <2> QED
    BY <2>2, <2>3
<1> QED
  BY <1>3, <1>4

LEMMA LongDoes == ASSUME IInv, Long PROVE Ready /\ Does
<1>1. /\ pc = "loop" /\ op = 0 /\ i < argc /\ Len(args) < parser.max_posargs
      /\ Len(argv[i]) > 2 /\ argv[i][1] = "-"
      /\ UNCHANGED <<callVars, cmd, args>>
  BY DEF Long, Reading
<1>2. i \in Places /\ use[i] = {}
  BY <1>1, Places0 DEF IInv, UseInv
<1>3. Ready
  BY <1>1, <1>2 DEF Ready
<1>4. Dashed(argv[i])
  <2>1. Len(argv[i]) \in Nat
    BY <1>2, ArgumentAssumption DEF IInv, WellTyped
  <2> QED
    BY <1>1, <2>1 DEF Dashed
<1>5. \/ Stop("failure") /\ UNCHANGED <<slot, use>>
      \/ \E o \in parser.options, given \in BOOLEAN :
           /\ o.cmd \in {cmd, None}
           /\ \/ o.type = "flag" /\ Fill(o, i, "none") /\ Taken(i, "option")
                                 /\ IF given THEN Stop("failure") ELSE Goto(i + 1)
              \/ o.type = "auto" /\ AutoAction
              \/ o.type \notin {"flag", "auto"} /\ Value(o, given)
  <2> DEFINE eq    == {k \in 3..Len(argv[i]) : argv[i][k] = "="}
             given == eq # {}
             name  == IF given THEN SubSeq(argv[i], 3, (CHOOSE k \in eq : \A j \in eq : k <= j) - 1)
                      ELSE From(3)
             found == IF Own("long", name) # {} THEN Own("long", name) ELSE Umbrella("long", name)
  <2>1. \/ found = {} /\ Stop("failure") /\ UNCHANGED <<slot, use>>
        \/ \E o \in found :
             \/ o.type = "flag" /\ Fill(o, i, "none") /\ Taken(i, "option")
                                /\ IF given THEN Stop("failure") ELSE Goto(i + 1)
             \/ o.type = "auto" /\ AutoAction
             \/ o.type \notin {"flag", "auto"} /\ Value(o, given)
    BY DEF Long
  <2>2. \A o \in found : o \in parser.options /\ o.cmd \in {cmd, None}
    BY DEF Own, Umbrella, OptionsOf
  <2>3. given \in BOOLEAN
    OBVIOUS
  <2> HIDE DEF found, given
  <2> QED
    BY <2>1, <2>2, <2>3
<1>6. CASE Stop("failure") /\ UNCHANGED <<slot, use>>
  BY <1>1, <1>3, <1>6 DEF Does, Stop, Ends
<1>7. ASSUME NEW o \in parser.options, NEW given \in BOOLEAN, o.cmd \in {cmd, None},
             \/ o.type = "flag" /\ Fill(o, i, "none") /\ Taken(i, "option")
                                /\ IF given THEN Stop("failure") ELSE Goto(i + 1)
             \/ o.type = "auto" /\ AutoAction
             \/ o.type \notin {"flag", "auto"} /\ Value(o, given)
      PROVE  Does
  <2>1. CASE Fill(o, i, "none") /\ Taken(i, "option")
             /\ IF given THEN Stop("failure") ELSE Goto(i + 1)
    <3>1. Fills(o, "none")
      BY <1>1, <1>7, <2>1 DEF Fills, Stop, Ends, Goto, OnTo
    <3> QED
      BY <1>1, <1>4, <3>1 DEF Does
  <2>2. CASE AutoAction
    BY <1>1, <2>2 DEF AutoAction, Does, Stop, Ends
  <2>3. CASE Value(o, given)
    BY <1>1, <1>3, <1>4, <1>7, <2>3, ValueDoes
  <2> QED
    BY <1>7, <2>1, <2>2, <2>3
<1> QED
  BY <1>3, <1>5, <1>6, <1>7

(* An argument of a cluster.                                               *)
LEMMA InClusterReady ==
  ASSUME IInv, InCluster
  PROVE  /\ Ready /\ Dashed(argv[i]) /\ argv[i][2] # "-" /\ op > 1
         /\ Literal => op = 2 /\ use[i] = {}
<1>1. Ready /\ Dashed(argv[i]) /\ argv[i][2] # "-" /\ op > 1 /\ op \in Nat
  BY DEF InCluster, IInv, ClusterInv, Ready, WellTyped
<1>2. Literal => op = 2
  <2> SUFFICES ASSUME Literal, op > 2 PROVE FALSE
    BY <1>1
  <2>1. \E o \in parser.options : argv[i][op - 1] = o.short
    BY DEF InCluster, IInv, ClusterInv
  <2>2. \A o \in parser.options : o.short # "-"
    BY ParserAssumption, Zenon DEF IInv, WellTyped
  <2> QED
    BY <2>1, <2>2 DEF Literal
<1> QED
  BY <1>1, <1>2 DEF InCluster, IInv, ClusterInv

LEMMA UnknownDoes == ASSUME IInv, Unknown PROVE Ready /\ Does
<1>1. InCluster
  BY DEF Unknown
<1>2. CASE (Literal \/ parser.allow_dash) /\ TakeArg(op)
  <2>1. MayPass(i)
    BY <1>1, <1>2, InClusterReady DEF MayPass, Literal
  <2> QED
    BY <1>1, <1>2, <2>1, InClusterReady, TakeArgDoes
<1>3. CASE Stop("failure") /\ UNCHANGED <<callVars, cmd, args, slot, use>>
  BY <1>1, <1>3, InClusterReady DEF Does, Stop, Ends
<1> QED
  BY <1>2, <1>3 DEF Unknown

LEMMA FoundFacts ==
  ASSUME NEW o \in Found
  PROVE  o \in parser.options /\ o.cmd \in {cmd, None} /\ o.short = argv[i][op]
  BY DEF Found, OwnShort, Own, Umbrella, OptionsOf

LEMMA ShortDoes == ASSUME IInv, Short PROVE Ready /\ Does
<1>1. InCluster /\ UNCHANGED <<callVars, cmd, args>>
  BY DEF Short
<1>2. Ready /\ Dashed(argv[i]) /\ argv[i][2] # "-" /\ op > 1
  BY <1>1, InClusterReady
<1>3. PICK o \in Found :
       \/ /\ o.type = "flag"
          /\ Fill(o, i, "none") /\ Taken(i, "option")
          /\ IF Last THEN Goto(i + 1) ELSE op' = op + 1 /\ UNCHANGED <<i, pc>>
       \/ o.type = "auto" /\ AutoAction
       \/ o.type \notin {"flag", "auto"} /\ Value(o, ~Last)
  BY DEF Short
<1>4. o \in parser.options /\ o.cmd \in {cmd, None} /\ o.short = argv[i][op]
  BY FoundFacts
<1>5. CASE Fill(o, i, "none") /\ Taken(i, "option")
           /\ IF Last THEN Goto(i + 1) ELSE op' = op + 1 /\ UNCHANGED <<i, pc>>
  <2>1. Fills(o, "none")
    BY <1>1, <1>2, <1>4, <1>5 DEF Fills, Goto, OnTo
  <2> QED
    BY <1>2, <1>4, <2>1 DEF Does
<1>6. CASE AutoAction
  BY <1>1, <1>2, <1>6 DEF AutoAction, Does, Stop, Ends
<1>7. CASE Value(o, ~Last)
  <2>1. (~Last) \in BOOLEAN
    OBVIOUS
  <2> QED
    BY <1>1, <1>2, <1>4, <1>7, <2>1, ValueDoes
<1> QED
  BY <1>3, <1>5, <1>6, <1>7

LEMMA StepDoes == ASSUME IInv, Step
                  PROVE  \/ Ready /\ Does
                         \/ Cluster
                         \/ \E k \in {i, i + 1} : Piles(k)
  BY WordDoes, PilesDoes, LongDoes, UnknownDoes, ShortDoes DEF Step

(* The invariant holds.                                                    *)
LEMMA Inductive == Spec => []IInv
<1>1. IInv /\ [Next]_vars => IInv'
  <2> SUFFICES ASSUME IInv, [Next]_vars PROVE IInv'
    OBVIOUS
  <2>1. CASE Step
    <3>1. CASE \E k \in {i, i + 1} : Piles(k)
      <4>1. PICK k \in {i, i + 1} : Piles(k)
        BY <3>1
      <4>2. i \in Nat
        BY Places0 DEF IInv
      <4>3. pc = "loop" /\ op = 0 /\ k <= argc /\ Pile(k)
            /\ (k = i => (i = argc \/ parser.max_posargs <= Len(args)))
        BY <4>1, <4>2 DEF Piles
      <4> QED
        BY <4>3, PileInv
    <3> QED
      BY <2>1, <3>1, StepDoes, DoesInv, ClusterStarts
  <2>2. CASE UNCHANGED vars
    <3>1. /\ parser' = parser /\ argv' = argv /\ cmd' = cmd /\ slot' = slot /\ args' = args
          /\ use' = use /\ i' = i /\ op' = op /\ pc' = pc /\ Places' = Places /\ argc' = argc
      BY <2>2 DEF vars, callVars, Places, argc
    <3>2. WellTyped' /\ ClusterInv'
      BY <3>1 DEF IInv, WellTyped, ClusterInv
    <3>3. UseInv' /\ ArgsInv' /\ ValueInv'
      BY <3>1 DEF IInv, UseInv, Proper, ArgsInv, ValueInv
    <3>4. CommandInv'
      BY <3>1 DEF IInv, CommandInv, Named
    <3> QED
      BY <3>2, <3>3, <3>4 DEF IInv
  <2> QED
    BY <2>1, <2>2 DEF Next, Terminated
<1> QED
  BY InitInv, <1>1, PTL DEF Spec

-----------------------------------------------------------------------------
(* That a call ends, and stays in its arguments.                           *)

\* The character looked at is one of the argument.
Inside == pc = "loop" /\ op # 0 => op <= Len(argv[i])

\* An argument to take is left, and a cluster is looked at past its dash.
InBounds == /\ i \in 1..argc
            /\ pc = "loop" /\ op # 0 => i < argc /\ op \in 2..Len(argv[i])

\* The loop is left, goes on to a later argument or along the cluster.
GoesOn == \/ pc' # "loop"
          \/ i' > i /\ op' = 0
          \/ i' = i /\ op' > op

LEMMA StepGoesOn ==
  ASSUME IInv, Step
  PROVE  GoesOn
<1>1. i \in Nat /\ op \in Nat
  BY Places0 DEF IInv, WellTyped
<1>2. CASE Ready /\ Does
  BY <1>1, <1>2 DEF Does, Takes, Names, Fills, FillsNext, OnTo, Ends, GoesOn
<1>3. CASE Cluster
  BY <1>1, <1>3 DEF Cluster, Reading, GoesOn
<1>4. CASE \E k \in {i, i + 1} : Piles(k)
  BY <1>4 DEF Piles, Pile, GoesOn
<1> QED
  BY <1>2, <1>3, <1>4, StepDoes

LEMMA StaysInside ==
  ASSUME IInv, Inside, Step
  PROVE  Inside'
<1>1. i \in Nat /\ op \in Nat /\ argv' = argv
  BY Places0 DEF IInv, WellTyped, Step, Word, TakeArg, Dashdash, Rest, Pile, Long, Cluster, Unknown,
                 Short, callVars
<1>2. CASE pc' = "loop" /\ op' # 0
  <2>1. Cluster \/ Short
    BY <1>2 DEF Step, Word, TakeArg, Goto, Stop, Dashdash, Rest, Pile, Reading, Long, Value, NextValue,
                AutoAction, Unknown, InCluster
  <2>2. CASE Cluster
    <3>1. i < argc /\ Dashed(argv[i]) /\ i' = i /\ op' = 2
      BY <2>2 DEF Cluster, Reading
    <3>2. Len(argv[i]) \in Nat
      BY <3>1, Places0, ArgumentAssumption DEF IInv, WellTyped
    <3> QED
      BY <1>1, <3>1, <3>2 DEF Inside, Dashed
  <2>3. CASE Short
    <3>1. pc = "loop" /\ op # 0
      BY <2>3 DEF Short, InCluster
    <3>2. /\ ~Last /\ op' = op + 1 /\ i' = i
      BY <1>2, <2>3 DEF Short, Goto, AutoAction, Stop, Value, NextValue
    <3>3. i \in Places /\ Len(argv[i]) \in Nat
      BY <3>1, Places0, ArgumentAssumption DEF IInv, WellTyped, ClusterInv
    <3> QED
      BY <1>1, <3>1, <3>2, <3>3 DEF Inside, Last
  <2> QED
    BY <2>1, <2>2, <2>3
<1> QED
  BY <1>2 DEF Inside

(* Parsing ends for all calls and parsers: each step returns, exits, goes  *)
(* on to a later argument or to a later character of a cluster of short    *)
(* options, and neither goes behind its end.                               *)
THEOREM CallsEnd ==
  Spec => []InBounds /\ [][Step => GoesOn]_vars
<1>1. Init => Inside
  BY DEF Init, Inside
<1>2. IInv /\ Inside /\ [Next]_vars => Inside'
  <2>1. IInv /\ Inside /\ UNCHANGED vars => Inside'
    BY DEF Inside, vars, callVars
  <2> QED
    BY <2>1, StaysInside DEF Next, Terminated
<1>3. IInv /\ Inside => InBounds
  <2> SUFFICES ASSUME IInv, Inside, pc = "loop", op # 0
               PROVE  i < argc /\ op \in 2..Len(argv[i])
    BY DEF IInv, WellTyped, InBounds
  <2>1. i < argc /\ op > 1 /\ op \in Nat /\ op <= Len(argv[i])
    BY DEF IInv, WellTyped, ClusterInv, Inside
  <2>2. Len(argv[i]) \in Nat
    BY <2>1, Places0, ArgumentAssumption DEF IInv, WellTyped
  <2> QED
    BY <2>1, <2>2
<1>4. IInv /\ [Next]_vars => [Step => GoesOn]_vars
  BY StepGoesOn
<1> QED
  BY Inductive, <1>1, <1>2, <1>3, <1>4, PTL DEF Spec

-----------------------------------------------------------------------------
(* Options belong to the command of the call and come behind its name, and *)
(* so do the arguments passed on.                                          *)
THEOREM CommandsFirst == Spec => []CommandFirst
<1>1. IInv => CommandFirst
  <2> SUFFICES ASSUME IInv PROVE CommandFirst
    OBVIOUS
  <2>1. \A k \in Places : k \in Nat
    BY Places0 DEF IInv
  <2>2. \A k \in 1..Len(args) : args[k] \in Places
    BY ElementOfSeq DEF IInv, WellTyped
  <2>3. \A o \in parser.options : \A k \in 1..Len(slot[o]) : slot[o][k].at \in Places
    BY SlotTypes DEF IInv
  <2>4. ASSUME NEW k \in Places, Named(use, k) PROVE \E c \in 1..(k - 1) : "command" \in use[c]
    BY <2>1, <2>4 DEF Named, Places
  <2>5. ASSUME NEW o \in parser.options, o.cmd # None, NEW k \in 1..Len(slot[o])
        PROVE  /\ o.cmd = cmd /\ cmd # None
               /\ \E c \in 1..(slot[o][k].at - 1) : "command" \in use[c]
    BY <2>3, <2>4, <2>5 DEF IInv, CommandInv
  <2>6. ASSUME parser.commands # {}, parser.max_posargs > 0, NEW k \in 1..Len(args)
        PROVE  \/ cmd # None /\ \E c \in 1..(args[k] - 1) : "command" \in use[c]
               \/ \E j \in 1..(args[k] - 1) : use[j] = {"end"}
    <3>1. CASE cmd # None /\ Named(use, args[k])
      BY <2>2, <2>4, <3>1
    <3>2. CASE \E j \in Places : j < args[k] /\ use[j] = {"end"}
      BY <2>1, <2>2, <3>2 DEF Places
    <3> QED
      BY <2>6, <3>1, <3>2 DEF IInv, CommandInv
  <2> QED
    BY <2>5, <2>6 DEF CommandFirst
<1> QED
  BY Inductive, <1>1, PTL

(* Every argument is used, for one thing, and arguments keep their order.  *)
THEOREM UsedAndOnce == Spec => []UsedOnce
<1>1. IInv => UsedOnce
  <2> SUFFICES ASSUME IInv, op = 0, pc \in {"loop", "returned"}
               PROVE  /\ \A k \in 1..Len(argv) :
                           IF pc = "loop" /\ k >= i THEN use[k] = {}
                           ELSE \/ Cardinality(use[k]) = 1
                                \/ parser.allow_dash /\ use[k] \in {{"option", "positional"}, {"option", "command"}}
                      /\ \A j, k \in 1..Len(args) : j < k => args[j] < args[k]
                      /\ {args[k] : k \in 1..Len(args)} = {k \in 1..Len(argv) : "positional" \in use[k]}
                      /\ \A v \in Values : v.in = "next" <=> "value" \in use[v.at]
    BY DEF UsedOnce
  <2>1. i \in Nat /\ \A k \in Places : k \in Nat
    BY Places0 DEF IInv
  <2>2. ASSUME NEW k \in Places
        PROVE  IF pc = "loop" /\ k >= i THEN use[k] = {}
               ELSE \/ Cardinality(use[k]) = 1
                    \/ parser.allow_dash /\ use[k] \in {{"option", "positional"}, {"option", "command"}}
    <3>1. CASE pc = "loop" /\ k >= i
      BY <2>1, <3>1 DEF IInv, UseInv
    <3>2. CASE ~(pc = "loop" /\ k >= i)
      <4>1. Proper(use[k])
        BY <2>1, <3>2 DEF IInv, UseInv
      <4>2. \A x : Cardinality({x}) = 1
        BY FS_Singleton
      <4> QED
        BY <3>2, <4>1, <4>2 DEF Proper
    <3> QED
      BY <3>1, <3>2
  <2>3. {args[k] : k \in 1..Len(args)} = {k \in 1..Len(argv) : "positional" \in use[k]}
    <3>1. \A k \in 1..Len(args) : args[k] \in Places
      BY ElementOfSeq DEF IInv, WellTyped
    <3> QED
      BY <3>1 DEF IInv, ArgsInv, Places
  <2>4. ASSUME NEW v \in Values PROVE v.in = "next" <=> "value" \in use[v.at]
    <3>1. PICK o \in parser.options : \E k \in 1..Len(slot[o]) : v = slot[o][k]
      BY DEF Values
    <3> QED
      BY <3>1 DEF IInv, ValueInv
  <2> QED
    BY <2>2, <2>3, <2>4 DEF IInv, ArgsInv, Places
<1> QED
  BY Inductive, <1>1, PTL

-----------------------------------------------------------------------------
(* What looks like an option.                                              *)

SeenInv ==
  /\ \A m \in 1..Len(args) : \/ m > parser.max_posargs
                             \/ \E j \in Places : j < args[m] /\ use[j] = {"end"}
                             \/ MayPass(args[m])
  /\ \A k \in Places : use[k] \in {{"option"}, {"end"}} => Dashed(argv[k])
  \* Fewer than max_posargs positional arguments are in front of an option.
  /\ \A k \in Places : "option" \in use[k] =>
       0 < parser.max_posargs /\ \A m \in 1..Len(args) : args[m] < k => m < parser.max_posargs

LEMMA InitSeen == Init => SeenInv
<1> SUFFICES ASSUME Init PROVE SeenInv
  OBVIOUS
<1>1. \A k \in Places : use[k] = {}
  BY DEF Init, Places
<1>2. Len(args) = 0
  BY EmptySeq DEF Init
<1>3. \A m \in 1..Len(args) : FALSE
  BY <1>2
<1> QED
  BY <1>1, <1>3 DEF SeenInv

(* No dashdash has been read in front of an argument already passed.       *)
LEMMA NoEndYet ==
  ASSUME IInv, pc = "loop", NEW n \in Nat, n < i
  PROVE  \A j \in Places : j < n => use[j] # {"end"}
<1>1. i \in Nat /\ \A j \in Places : j \in Nat
  BY Places0 DEF IInv
<1>2. \A j \in Places : j < n => j < i
  BY <1>1
<1>3. UseInv
  BY DEF IInv
<1> QED
  BY <1>2, <1>3 DEF UseInv

LEMMA DoesSeen ==
  ASSUME IInv, Ready, SeenInv, Does
  PROVE  SeenInv'
<1>1. /\ WellTyped /\ pc = "loop" /\ i < argc /\ i \in Places /\ i \in Nat /\ Len(args) \in Nat
      /\ Len(args) < parser.max_posargs /\ parser.max_posargs \in Nat
      /\ (i + 1 < argc => i + 1 \in Places)
      /\ \A k \in Places : k \in Nat
  <2>1. parser.max_posargs \in Nat
    BY ParserAssumption, Zenon DEF IInv, WellTyped
  <2>2. Len(args) \in Nat
    BY LenProperties DEF IInv, WellTyped
  <2> QED
    BY <2>1, <2>2, Places0 DEF IInv, Ready
<1>2. parser' = parser /\ argv' = argv /\ Places' = Places /\ \A k : MayPass(k)' = MayPass(k)
  BY DEF Does, Takes, Names, Fills, FillsNext, callVars, Places, MayPass
<1>3. \A k \in Places : k > i => use[k] = {}
  BY <1>1 DEF IInv, UseInv
<1>4. \A m \in 1..Len(args) : args[m] \in Places /\ args[m] < i /\ m < parser.max_posargs
  BY <1>1, ElementOfSeq DEF IInv, ArgsInv, WellTyped
<1>5. use \in [Places -> SUBSET Uses]
  BY <1>1 DEF WellTyped
<1>6. ASSUME NEW m \in 1..Len(args) PROVE MayPass(args[m])
  <2>1. args[m] \in Nat /\ args[m] < i /\ ~(m > parser.max_posargs)
    <3>1. args[m] \in Places /\ args[m] < i /\ m < parser.max_posargs
      BY <1>4
    <3>2. m \in Nat /\ parser.max_posargs \in Nat
      BY <1>1
    <3>3. ~(m > parser.max_posargs)
      BY <3>1, <3>2
    <3>4. args[m] \in Nat
      BY <1>1, <3>1
    <3> QED
      BY <3>1, <3>3, <3>4
  <2>2. \A j \in Places : j < args[m] => use[j] # {"end"}
    BY <1>1, <2>1, NoEndYet
  <2> QED
    BY <2>1, <2>2 DEF SeenInv
<1>7. CASE Takes /\ MayPass(i)
  <2>1. /\ args' \in Seq(Places) /\ Len(args') = Len(args) + 1
        /\ args'[Len(args) + 1] = i
        /\ \A k \in 1..Len(args) : args'[k] = args[k]
    BY <1>1, <1>7, AppendArgs DEF Takes
  <2>2. /\ use'[i] = use[i] \cup {"positional"}
        /\ \A k \in Places : k # i => use'[k] = use[k]
    BY <1>1, <1>5, <1>7 DEF Takes, Taken
  <2>3. \A m \in 1..Len(args') : MayPass(args'[m])
    BY <1>1, <1>6, <1>7, <2>1
  <2>4. \A k \in Places : use'[k] \in {{"option"}, {"end"}} => Dashed(argv[k])
    BY <2>2 DEF SeenInv
  <2>5. ASSUME NEW k \in Places, "option" \in use'[k], NEW m \in 1..Len(args'), args'[m] < k
        PROVE  m < parser.max_posargs
    <3>1. k <= i
      BY <1>1, <1>3, <2>2, <2>5
    <3>2. m \in 1..Len(args)
      BY <1>1, <2>1, <2>5, <3>1
    <3> QED
      BY <1>4, <3>2
  <2> QED
    BY <1>1, <1>2, <2>3, <2>4, <2>5 DEF SeenInv
<1>8. CASE Names
  <2>1. /\ args' = args /\ use'[i] = use[i] \cup {"command"}
        /\ \A k \in Places : k # i => use'[k] = use[k]
    BY <1>1, <1>5, <1>8 DEF Names, Taken
  <2>2. \A k \in Places : use'[k] \in {{"option"}, {"end"}} => Dashed(argv[k])
    BY <2>1 DEF SeenInv
  <2> QED
    BY <1>1, <1>2, <1>4, <1>6, <2>1, <2>2 DEF SeenInv
<1>9. CASE Dashed(argv[i]) /\ \E o \in parser.options :
             (\E in \in {"same", "none"} : Fills(o, in)) \/ FillsNext(o)
  <2>1. args' = args
    BY <1>9 DEF Fills, FillsNext
  <2>2. ASSUME NEW k \in Places
        PROVE use'[k] = use[k] \/ (k = i /\ use'[k] = {"option"}) \/ use'[k] = {"value"}
    <3>1. CASE \E o \in parser.options, in \in {"same", "none"} : Fills(o, in)
      <4>1. use' = [use EXCEPT ![i] = use[i] \cup {"option"}] /\ use[i] \cup {"option"} = {"option"}
        BY <3>1 DEF Fills, Taken, Ready
      <4> QED
        BY <1>1, <1>5, <4>1
    <3>2. CASE \E o \in parser.options : FillsNext(o)
      <4>1. use' = [use EXCEPT ![i] = {"option"}, ![i + 1] = {"value"}]
        BY <3>2 DEF FillsNext
      <4> QED
        BY <1>1, <1>5, <4>1
    <3> QED
      BY <1>9, <3>1, <3>2
  <2>3. \A k \in Places : use'[k] \in {{"option"}, {"end"}} => Dashed(argv[k])
    <3>1. {"value"} # {"option"} /\ {"value"} # {"end"}
      OBVIOUS
    <3> QED
      BY <1>9, <2>2, <3>1 DEF SeenInv
  <2> QED
    BY <1>1, <1>2, <1>4, <1>6, <2>1, <2>3 DEF SeenInv
<1>10. CASE args' = args /\ use' = use
  BY <1>2, <1>10 DEF SeenInv
<1> QED
  BY <1>7, <1>8, <1>9, <1>10 DEF Does

LEMMA PilesSeen ==
  ASSUME IInv, SeenInv, NEW k \in {i, i + 1}, Piles(k)
  PROVE  SeenInv'
<1>1. /\ WellTyped /\ pc = "loop" /\ i \in Nat /\ i > 0 /\ k \in Nat /\ (k = i \/ k = i + 1)
      /\ parser.max_posargs \in Nat /\ Len(args) \in Nat
      /\ k <= argc /\ argc = Len(argv) + 1 /\ Len(argv) \in Nat
      /\ \A j \in Places : j \in Nat /\ j > 0 /\ j < argc
  <2>1. parser.max_posargs \in Nat
    BY ParserAssumption, Zenon DEF IInv, WellTyped
  <2>2. Len(args) \in Nat
    BY LenProperties DEF IInv, WellTyped
  <2> QED
    BY <2>1, <2>2, Places0 DEF IInv, Piles
<1>2. parser' = parser /\ argv' = argv /\ Places' = Places /\ \A j : MayPass(j)' = MayPass(j)
  BY DEF Piles, Pile, callVars, Places, MayPass
<1>3. /\ Len(args') = Len(args) + (argc - k)
      /\ \A m \in 1..Len(args') : args'[m] = IF m <= Len(args) THEN args[m]
                                             ELSE k + (m - Len(args)) - 1
  BY <1>1, PileFacts DEF Piles, Pile
<1>4. \A j \in Places : use'[j] = IF j >= k THEN {"positional"}
                                  ELSE IF j = i THEN {"end"} ELSE use[j]
  BY <1>1 DEF Piles, Pile, WellTyped
<1>5. \A m \in 1..Len(args') : \/ m \in 1..Len(args) /\ args'[m] = args[m]
                               \/ m > Len(args) /\ args'[m] = k + (m - Len(args)) - 1
  BY <1>1, <1>3
<1>6. \A m \in 1..Len(args) : args[m] \in Places /\ args[m] < i
  BY <1>1, ElementOfSeq DEF IInv, ArgsInv, WellTyped
<1>7. ASSUME NEW m \in 1..Len(args) PROVE m > parser.max_posargs \/ MayPass(args[m])
  <2>1. args[m] \in Nat /\ args[m] < i
    BY <1>1, <1>6
  <2>2. \A j \in Places : j < args[m] => use[j] # {"end"}
    BY <1>1, <2>1, NoEndYet
  <2> QED
    BY <2>2 DEF SeenInv
<1>8. \/ k = i /\ (i = argc \/ parser.max_posargs <= Len(args))
      \/ k = i + 1 /\ i < argc /\ Dashed(argv[i])
  <2>1. Len(<<"-", "-">>) > 1 /\ <<"-", "-">>[1] = "-"
    OBVIOUS
  <2> QED
    BY <2>1 DEF Piles, Dashed
<1>9. ASSUME NEW m \in 1..Len(args')
      PROVE  \/ m > parser.max_posargs
             \/ \E j \in Places : j < args'[m] /\ use'[j] = {"end"}
             \/ MayPass(args'[m])
  <2>1. CASE m \in 1..Len(args) /\ args'[m] = args[m]
    BY <1>7, <2>1
  <2>2. CASE m > Len(args) /\ args'[m] = k + (m - Len(args)) - 1
    <3>1. args'[m] \in Nat /\ args'[m] >= k /\ k < argc
      BY <1>1, <1>3, <2>2
    <3>2. CASE k = i /\ (i = argc \/ parser.max_posargs <= Len(args))
      BY <1>1, <2>2, <3>1, <3>2
    <3>3. CASE k = i + 1
      <4>1. i \in Places /\ ~(i >= k) /\ i < args'[m]
        BY <1>1, <3>1, <3>3 DEF Places
      <4>2. use'[i] = {"end"}
        BY <1>4, <4>1
      <4> QED
        BY <4>1, <4>2
    <3> QED
      BY <1>8, <3>2, <3>3
  <2> QED
    BY <1>5, <2>1, <2>2
<1>10. ASSUME NEW j \in Places, use'[j] \in {{"option"}, {"end"}} PROVE Dashed(argv[j])
  <2>1. ~(j >= k)
    BY <1>4, <1>10
  <2>2. CASE j = i
    BY <1>1, <1>8, <2>1, <2>2
  <2>3. CASE j # i
    BY <1>4, <1>10, <2>1, <2>3 DEF SeenInv
  <2> QED
    BY <2>2, <2>3
<1>11. ASSUME NEW j \in Places, "option" \in use'[j]
       PROVE  0 < parser.max_posargs /\ \A m \in 1..Len(args') : args'[m] < j => m < parser.max_posargs
  <2>1. j < i /\ use'[j] = use[j]
    BY <1>1, <1>4, <1>11
  <2>2. \A m \in 1..Len(args') : args'[m] < j => m \in 1..Len(args) /\ args'[m] = args[m]
    <3> SUFFICES ASSUME NEW m \in 1..Len(args'), m > Len(args), args'[m] = k + (m - Len(args)) - 1
                 PROVE  ~(args'[m] < j)
      BY <1>5
    <3> QED
      BY SMTT(30), <1>1, <1>3, <2>1
  <2> QED
    BY <1>11, <2>1, <2>2 DEF SeenInv
<1> QED
  BY <1>2, <1>9, <1>10, <1>11 DEF SeenInv

(* Positional arguments in front of an option are fewer than max_posargs.  *)
LEMMA InFront ==
  ASSUME IInv, SeenInv, NEW k \in Places, "option" \in use[k]
  PROVE  Cardinality({j \in 1..(k - 1) : "positional" \in use[j]}) < parser.max_posargs
<1> DEFINE front == {j \in 1..(k - 1) : "positional" \in use[j]}
           n == parser.max_posargs - 1
<1>1. parser.max_posargs \in Nat /\ Len(args) \in Nat /\ k \in Nat /\ n \in Nat /\ n + 1 = parser.max_posargs
  <2>1. parser.max_posargs \in Nat
    BY ParserAssumption, Zenon DEF IInv, WellTyped
  <2>2. Len(args) \in Nat
    BY LenProperties DEF IInv, WellTyped
  <2> QED
    BY <2>1, <2>2, Places0 DEF IInv, SeenInv
<1>2. \A j \in front : j \in Places /\ j < k /\ \E m \in 1..Len(args) : args[m] = j
  <2>1. \A j \in front : j \in Places /\ j < k /\ "positional" \in use[j]
    BY <1>1, Places0 DEF Places, IInv
  <2> QED
    BY <2>1 DEF IInv, ArgsInv
<1>3. \A j \in front : \E m \in 1..n : args[m] = j
  <2> SUFFICES ASSUME NEW j \in front PROVE \E m \in 1..n : args[m] = j
    OBVIOUS
  <2>1. PICK m \in 1..Len(args) : args[m] = j
    BY <1>2
  <2>2. m < parser.max_posargs
    BY <1>2, <2>1 DEF SeenInv
  <2>3. m \in 1..n
    BY <1>1, <2>2
  <2> QED
    BY <2>1, <2>3
<1> HIDE DEF front, n
<1>4. IsFiniteSet(1..n) /\ Cardinality(1..n) = n
  <2>1. n \in Int /\ 1 \in Int /\ (IF 1 > n THEN 0 ELSE n - 1 + 1) = n
    BY <1>1
  <2>2. IsFiniteSet(1..n) /\ Cardinality(1..n) = IF 1 > n THEN 0 ELSE n - 1 + 1
    BY <2>1, FS_Interval
  <2> QED
    BY <2>1, <2>2
<1> DEFINE image == {args[m] : m \in 1..n}
           f == [m \in 1..n |-> args[m]]
<1>5. IsFiniteSet(image) /\ Cardinality(image) <= Cardinality(1..n)
  <2>1. f \in Surjection(1..n, image)
    BY DEF Surjection
  <2> QED
    BY <1>4, <2>1, FS_Surjection
<1>6. front \subseteq image
  BY <1>3
<1> HIDE DEF image
<1>7. IsFiniteSet(front) /\ Cardinality(front) <= Cardinality(image)
  BY <1>5, <1>6, FS_Subset
<1>8. Cardinality(front) \in Nat /\ Cardinality(image) \in Nat
  BY <1>5, <1>7, FS_CardinalityType
<1>9. Cardinality(front) < parser.max_posargs
  BY <1>1, <1>4, <1>5, <1>7, <1>8
<1> QED
  BY <1>9 DEF front

(* What looks like an option is taken for one, but for numbers, unknown    *)
(* ones that are allowed, and what is behind the end of options.           *)
THEOREM AllOptionsSeen == Spec => []OptionsSeen
<1>1. IInv /\ SeenInv /\ [Next]_vars => SeenInv'
  <2> SUFFICES ASSUME IInv, SeenInv, [Next]_vars PROVE SeenInv'
    OBVIOUS
  <2>1. CASE Cluster \/ UNCHANGED vars
    <3>1. parser' = parser /\ argv' = argv /\ Places' = Places /\ args' = args /\ use' = use
      BY <2>1 DEF Cluster, vars, callVars, Places
    <3> QED
      BY <3>1 DEF SeenInv, MayPass
  <2> QED
    BY <2>1, StepDoes, DoesSeen, PilesSeen DEF Next, Terminated
<1>2. IInv /\ SeenInv => OptionsSeen
  <2> SUFFICES ASSUME IInv, SeenInv PROVE OptionsSeen
    OBVIOUS
  <2>1. \A k \in Places : k \in Nat
    BY Places0 DEF IInv
  <2>2. ASSUME NEW m \in 1..Len(args), Dashed(argv[args[m]])
        PROVE  \/ m > parser.max_posargs
               \/ \E j \in 1..(args[m] - 1) : use[j] = {"end"}
               \/ argv[args[m]][2] \in Numeral
               \/ parser.allow_dash /\ argv[args[m]][2] # "-"
    <3>1. args[m] \in Places
      BY ElementOfSeq DEF IInv, WellTyped
    <3>2. \A j \in Places : j < args[m] => j \in 1..(args[m] - 1)
      BY <2>1, <3>1 DEF Places
    <3> QED
      BY <2>2, <3>2 DEF SeenInv, MayPass
  <2>3. ASSUME NEW k \in Places
        PROVE  /\ use[k] \in {{"option"}, {"end"}} => Dashed(argv[k])
               /\ "option" \in use[k] =>
                    Cardinality({j \in 1..(k - 1) : "positional" \in use[j]}) < parser.max_posargs
    BY InFront DEF SeenInv
  <2> QED
    BY <2>2, <2>3 DEF OptionsSeen, Places
<1> QED
  BY Inductive, InitSeen, <1>1, <1>2, PTL DEF Spec
=============================================================================
