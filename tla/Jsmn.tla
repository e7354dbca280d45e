-------------------------------- MODULE Jsmn --------------------------------
(***************************************************************************)
(* jsmn_parse, as the Makefile builds it: not strict, with parent links,   *)
(* and with an array of tokens.  Every action is one round of one of its   *)
(* loops.  Tokens count from 1, and 0 stands for the -1 of the code;       *)
(* positions count from 0 as there.                                        *)
(***************************************************************************)
EXTENDS Integers, Sequences, FiniteSets

CONSTANTS
  Texts,     \* the texts to be parsed, of any characters
  NumTokens  \* tokens there is room for, 2048 in print1

ASSUME TextAssumption == \A t \in Texts : Len(t) \in Nat
ASSUME RoomAssumption == NumTokens \in Nat \ {0}

VARIABLES
  js,        \* the text
  pc,        \* the loop: "next", "climb", "primitive", "string", "escape", "hex", "done"
  pos,
  start,     \* where the string or primitive starts
  digits,    \* of \uXXXX, read so far
  toks,      \* the tokens allocated; toknext is their number
  toksuper,
  at,        \* the token a closing brace is compared with
  count,
  ret        \* "none" until jsmn_parse returns
tokenVars == <<toks, toksuper, at, count>>
vars == <<js, pc, pos, start, digits, tokenVars, ret>>

Escapes == {"\"", "/", "\\", "b", "f", "r", "n", "t", "'"}
Hex     == {"0", "1", "9", "a", "b", "c", "d", "e", "f", "A", "F"}
Blanks  == {" ", "TAB", "CR", "LF"}
Stops   == Blanks \cup {":", ",", "]", "}"}
Control == {"DEL", "SOH"}

End   == "end"
AtEnd == pos >= Len(js)
Char  == IF AtEnd THEN End ELSE js[pos + 1]

\* tokens[i].end == -1 && tokens[i].start != -1
IsOpen(i) == toks[i].end = -1

Token(type, from, to) == [type |-> type, start |-> from, end |-> to, size |-> 0, parent |-> toksuper]

\* Variant of Counted: the token in front counts, whatever it is.
CountedInFront(ts) == IF Len(ts) < 2 THEN ts ELSE [ts EXCEPT ![Len(ts) - 1].size = @ + 1]
\* tokens[parser->toksuper].size++, behind the allocation: the first token is its own
\* child when a comma in front of it has made it toksuper.
Counted(ts) == IF toksuper = 0 THEN ts ELSE [ts EXCEPT ![toksuper].size = @ + 1]

Full == Len(toks) >= NumTokens

Return(r) == /\ pc' = "done" /\ ret' = r
             /\ UNCHANGED <<js, digits, start, tokenVars>>
\* A string or primitive fails: pos is set back to where it started.
Fail(r) == Return(r) /\ pos' = start

\* jsmn_alloc_token and what is filled in.
Alloc(tok) == toks' = Counted(Append(toks, tok)) /\ count' = count + 1

-----------------------------------------------------------------------------
Init == /\ js \in Texts
        /\ pc = "next" /\ pos = 0 /\ start = 0 /\ digits = 0
        /\ toks = <<>> /\ toksuper = 0 /\ at = 0
        /\ count = 0 /\ ret = "none"

Opening == /\ pc = "next" /\ Char \in {"{", "["}
           /\ IF Full THEN Return("NOMEM") /\ UNCHANGED pos
              ELSE /\ Alloc(Token(IF Char = "{" THEN "object" ELSE "array", pos, -1))
                   /\ toksuper' = Len(toks) + 1
                   /\ pos' = pos + 1
                   /\ UNCHANGED <<js, pc, start, digits, at, ret>>

Closing == /\ pc = "next" /\ Char \in {"}", "]"}
           /\ IF toks = <<>> THEN Return("INVAL") /\ UNCHANGED pos
              ELSE /\ at' = Len(toks)
                   /\ pc' = "climb"
                   /\ UNCHANGED <<js, pos, start, digits, toks, toksuper, count, ret>>

Fits(i) == toks[i].type = IF Char = "}" THEN "object" ELSE "array"

\* Variants of Above: no step is made; the token in front.
Stay(i) == i
InFront(i) == i - 1
Above(i) == toks[i].parent

\* One round of the loop that looks for the token to be closed.
Climb == /\ pc = "climb"
         /\ \/ /\ IsOpen(at) /\ ~Fits(at)
               /\ Return("INVAL") /\ UNCHANGED pos
            \/ /\ IsOpen(at) /\ Fits(at)
               /\ toks' = [toks EXCEPT ![at].end = pos + 1]
               /\ toksuper' = Above(at)
               /\ pc' = "next" /\ pos' = pos + 1
               /\ UNCHANGED <<js, start, digits, at, count, ret>>
            \/ /\ ~IsOpen(at) /\ Above(at) = 0
               /\ pc' = "next" /\ pos' = pos + 1
               /\ UNCHANGED <<js, start, digits, tokenVars, ret>>
            \/ /\ ~IsOpen(at) /\ Above(at) # 0
               /\ at' = Above(at)
               /\ UNCHANGED <<js, pc, pos, start, digits, toks, toksuper, count, ret>>

\* Strings and primitives begin.
Begin == /\ pc = "next"
         /\ \/ Char = "\"" /\ pc' = "string" /\ pos' = pos + 1
            \/ /\ Char \notin Stops \cup {"\"", "{", "[", End}
               /\ pc' = "primitive" /\ UNCHANGED pos
         /\ start' = pos
         /\ UNCHANGED <<js, digits, tokenVars, ret>>

Blank == /\ pc = "next" /\ Char \in Blanks
         /\ pos' = pos + 1
         /\ UNCHANGED <<js, pc, start, digits, tokenVars, ret>>

\* What follows a colon belongs to the token before it.
Colon == /\ pc = "next" /\ Char = ":"
         /\ toksuper' = Len(toks)
         /\ pos' = pos + 1
         /\ UNCHANGED <<js, pc, start, digits, toks, at, count, ret>>

\* A comma ends what belongs to a key.  On the top level tokens[-1] is read:
\* it lies in the buffer print_data left zero bytes in, a primitive of parent
\* 0, the first token; another build may find the type of an object there.
\* While there is no first token yet, a further comma reads what the parse before
\* left of it: it had no parent, or itself for one.
Comma == /\ pc = "next" /\ Char = ","
         /\ \/ (toksuper = 0 \/ toks = <<>>) /\ toksuper' \in {0, 1}
            \/ /\ toksuper # 0 /\ toks # <<>>
               /\ toksuper' = IF toks[toksuper].type \in {"object", "array"} THEN toksuper
                              ELSE toks[toksuper].parent
         /\ pos' = pos + 1
         /\ UNCHANGED <<js, pc, start, digits, toks, at, count, ret>>

\* A string or primitive of the given type has ended in front of pos.
Found(type, from, next) ==
  IF Full THEN Fail("NOMEM")
  ELSE /\ Alloc(Token(type, from, pos))
       /\ pc' = "next" /\ pos' = next
       /\ UNCHANGED <<js, start, digits, toksuper, at, ret>>

InPrimitive ==
  /\ pc = "primitive"
  /\ \/ Char \in Stops \cup {End} /\ Found("primitive", start, pos)
     \/ Char \in Control /\ Fail("INVAL")
     \/ /\ Char \notin Stops \cup Control \cup {End}
        /\ pos' = pos + 1
        /\ UNCHANGED <<js, pc, start, digits, tokenVars, ret>>

InString ==
  /\ pc = "string"
  /\ \/ AtEnd /\ Fail("PART")
     \/ Char = "\"" /\ Found("string", start + 1, pos + 1)
     \/ /\ Char \notin {"\"", End}
        /\ pc' = IF Char = "\\" /\ pos + 1 < Len(js) THEN "escape" ELSE "string"
        /\ pos' = pos + 1
        /\ UNCHANGED <<js, start, digits, tokenVars, ret>>

InEscape ==
  /\ pc = "escape"
  /\ \/ Char \in Escapes /\ pc' = "string" /\ pos' = pos + 1
        /\ UNCHANGED <<js, start, digits, tokenVars, ret>>
     \/ Char = "u" /\ pc' = "hex" /\ digits' = 0 /\ pos' = pos + 1
        /\ UNCHANGED <<js, start, tokenVars, ret>>
     \/ Char \notin Escapes \cup {"u"} /\ Fail("INVAL")

InHex ==
  /\ pc = "hex"
  /\ \/ digits < 4 /\ Char \in Hex
        /\ digits' = digits + 1 /\ pos' = pos + 1
        /\ UNCHANGED <<js, pc, start, tokenVars, ret>>
     \/ digits < 4 /\ Char \notin Hex \cup {End} /\ Fail("INVAL")
     \/ (digits = 4 \/ AtEnd) /\ pc' = "string"
        /\ UNCHANGED <<js, pos, start, digits, tokenVars, ret>>

\* Variant of Unclosed: the token last allocated decides.
UnclosedLast == toks # <<>> /\ IsOpen(Len(toks))
Unclosed == \E i \in 1..Len(toks) : IsOpen(i)

EndOfText == /\ pc = "next" /\ AtEnd
             /\ Return(IF Unclosed THEN "PART" ELSE "good")
             /\ UNCHANGED pos

Terminated == pc = "done" /\ UNCHANGED vars

Parse == \/ Opening \/ Closing \/ Climb \/ Begin \/ Blank \/ Colon \/ Comma
         \/ InPrimitive \/ InString \/ InEscape \/ InHex \/ EndOfText
Next == Parse \/ Terminated
Spec == Init /\ [][Next]_vars
FairSpec == Spec /\ WF_vars(Parse)

-----------------------------------------------------------------------------
TokenType == [type : {"object", "array", "string", "primitive"},
              start : 0..Len(js), end : -1..Len(js), size : Nat, parent : 0..NumTokens]

(* Whatever the text, the tokens stay in their array and "size" is the      *)
(* number of children: print1 steps over objects by it.  (The first token   *)
(* is one of its own when a comma stands in front of it.)                   *)
Children(i) == {j \in 1..Len(toks) : toks[j].parent = i}
SizesCount ==
  /\ Len(toks) <= NumTokens
  /\ \A i \in 1..Len(toks) : toks[i].size = Cardinality(Children(i))

\* The objects and arrays that are open, by the numbers of their tokens.
Opened == {i \in 1..Len(toks) : IsOpen(i)}
Stack  == {<<i, toks[i].type>> : i \in Opened}
Closer == IF pc # "climb" THEN "none" ELSE IF Char = "}" THEN "object" ELSE "array"
Matching == INSTANCE Brackets WITH stack <- Stack, closer <- Closer, verdict <- ret

(* Whatever the text, its colons and commas, and however the loop over     *)
(* parents goes, braces and brackets are matched as by a stack: only the   *)
(* last one that is open is closed, and a text with one left open fails.   *)
MatchesBrackets == Matching!Spec

\* A comma is the first the parser makes anything of.
StartsWithComma == \E k \in 1..Len(js) : /\ js[k] = ","
                                         /\ \A i \in 1..(k - 1) : js[i] \in Blanks \cup {":", ","}
\* The loop over parents is at the first token, its own parent, and will stay there.
GoesRound == pc = "climb" /\ at = 1 /\ ~IsOpen(1) /\ toks[1].parent = 1
Endless   == StartsWithComma /\ GoesRound

(* The loop over parents and the scans end: jsmn_parse returns.  The one   *)
(* text it does not return from starts with a comma, and has a closing     *)
(* brace with no counterpart: the loop goes round at the first token.      *)
Returns == <>(pc = "done" \/ Endless)
=============================================================================
