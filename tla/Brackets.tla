------------------------------ MODULE Brackets ------------------------------
(***************************************************************************)
(* What a JSON tokenizer makes of the braces and brackets of a text: it    *)
(* keeps a stack of the objects and arrays that are open, each with a      *)
(* number greater than those below it.  A closing one must fit the top;    *)
(* jsmn overlooks it when the stack is empty, or refuses the text when     *)
(* nothing at all comes before it.                                         *)
(***************************************************************************)
EXTENDS Integers

VARIABLES
  stack,   \* what is open: pairs of a number and a type
  closer,  \* the type a closing brace is for, "none" between braces
  verdict  \* "none", "good", "PART", "INVAL", "NOMEM"

Type == {"object", "array"}
Top(x) == x \in stack /\ \A y \in stack : y[1] <= x[1]

Init == stack = {} /\ closer = "none" /\ verdict = "none"

Push == /\ verdict = "none" /\ closer = "none"
        /\ \E x \in stack' : /\ stack' = stack \cup {x}
                             /\ x[2] \in Type /\ \A y \in stack : y[1] < x[1]
        /\ UNCHANGED <<closer, verdict>>
Come == /\ verdict = "none" /\ closer = "none"
        /\ closer' \in Type
        /\ UNCHANGED <<stack, verdict>>
Pop  == /\ closer # "none"
        /\ \E x \in stack : Top(x) /\ x[2] = closer /\ stack' = stack \ {x}
        /\ closer' = "none"
        /\ UNCHANGED verdict
Overlook == /\ closer # "none" /\ stack = {}
            /\ closer' = "none"
            /\ UNCHANGED <<stack, verdict>>
Mismatch == /\ closer # "none" /\ \E x \in stack : Top(x) /\ x[2] # closer
            /\ verdict' = "INVAL" /\ closer' = "none"
            /\ UNCHANGED stack
Refuse == /\ verdict = "none" /\ closer = "none"
          /\ verdict' \in {"INVAL", "NOMEM", "PART"}
          /\ UNCHANGED <<stack, closer>>
Accept == /\ verdict = "none" /\ closer = "none" /\ stack = {}
          /\ verdict' = "good"
          /\ UNCHANGED <<stack, closer>>

Next == Push \/ Come \/ Pop \/ Overlook \/ Mismatch \/ Refuse \/ Accept
Spec == Init /\ [][Next]_<<stack, closer, verdict>>
=============================================================================
