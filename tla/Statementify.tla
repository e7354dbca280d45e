---------------------------- MODULE Statementify ----------------------------
(***************************************************************************)
(* statementify.awk: makes Turtle statements of triples, one per line.     *)
(* What a line has in common with the one before is not repeated, and the  *)
(* separator in front of it says how much that is.  A line is printed when *)
(* the next one is known.                                                  *)
(***************************************************************************)
EXTENDS Naturals, Sequences

VARIABLES
  subj, pred, \* s and p: of the line before, NoTerm in front of the first
  held,       \* x: terms of the line to be printed, <<>> in front of the first
  printed,    \* [terms, sep] for each line printed
  read,       \* history: the triples read
  ended
statementVars == <<subj, pred, held, printed, read, ended>>

NoTerm == ""

StatementInit == /\ subj = NoTerm /\ pred = NoTerm
                 /\ held = <<>> /\ printed = <<>> /\ read = <<>>
                 /\ ended = FALSE

\* Variant of Same: subjects are compared only.
SameSubject(t) == t.s = subj
Same(t) == t.s = subj /\ t.p = pred

Separator(t) == IF Same(t) THEN "," ELSE IF t.s = subj THEN ";" ELSE "."
Terms(t) == CASE Separator(t) = "," -> <<t.o>>
              [] Separator(t) = ";" -> <<t.p, t.o>>
              [] OTHER -> <<t.s, t.p, t.o>>

\* Variant of PredOf: p is set with a new subject only.
PredOfSubject(t) == IF t.s = subj THEN pred ELSE t.p
PredOf(t) == t.p

Flushed(sep) == Append(printed, [terms |-> held, sep |-> sep])

Triple(t) == /\ ~ended
             /\ subj' = t.s /\ pred' = PredOf(t)
             /\ printed' = IF held = <<>> THEN printed ELSE Flushed(Separator(t))
             /\ held' = Terms(t)
             /\ read' = Append(read, t)
             /\ UNCHANGED ended

\* An END rule: nothing read gives a lone full stop.
End == /\ ~ended
       /\ ended' = TRUE
       /\ printed' = Flushed(".")
       /\ UNCHANGED <<subj, pred, held, read>>

-----------------------------------------------------------------------------
TermsOf(k) == IF k <= Len(printed) THEN printed[k].terms ELSE held

(* What a reader of Turtle makes of line k, given that it has understood   *)
(* the one before, is the triple read: after a full stop all of it is      *)
(* there, after a semicolon the subject and after a comma the predicate    *)
(* too are those of the line before.                                       *)
ReadsBack ==
  /\ Len(printed) + (IF ended THEN 0 ELSE 1) >= Len(read)
  /\ \A k \in 1..Len(read) :
       LET t == read[k]
           full == k = 1 \/ printed[k - 1].sep = "."
       IN  \/ full /\ TermsOf(k) = <<t.s, t.p, t.o>>
           \/ ~full /\ t.s = read[k - 1].s /\ printed[k - 1].sep = ";" /\ TermsOf(k) = <<t.p, t.o>>
           \/ ~full /\ t.s = read[k - 1].s /\ t.p = read[k - 1].p /\ printed[k - 1].sep = ","
                    /\ TermsOf(k) = <<t.o>>
  /\ ended /\ read # <<>> => printed[Len(read)].sep = "."

(* Of sorted input every subject is named once and has every predicate     *)
(* once.                                                                   *)
OneStatement ==
  ended =>
    \A j, k \in 1..Len(read) : j # k /\ read[j].s = read[k].s =>
      /\ Len(TermsOf(j)) < 3 \/ Len(TermsOf(k)) < 3
      /\ read[j].p = read[k].p => Len(TermsOf(j)) < 2 \/ Len(TermsOf(k)) < 2
=============================================================================
