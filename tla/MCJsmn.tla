------------------------------- MODULE MCJsmn -------------------------------
(***************************************************************************)
(* Instances of Jsmn: all short texts over the characters the parser tells *)
(* apart, strings with escapes in them, and the buffers of Scrape written  *)
(* out, for which Print1 says what the parser should find.                 *)
(***************************************************************************)
EXTENDS Jsmn, SequencesExt

CONSTANTS Depth,     \* characters of a short text, behind a first brace or comma
          Symbols    \* symbols of a buffer

\* Is "size" in front of "data"?
P(sizeFirst) == INSTANCE Print1 WITH SizeFirst <- IF sizeFirst THEN {"i"} ELSE {},
                                     Total <- [t \in {"i"} |-> 3], Tricky <- {}, MaxTokens <- NumTokens

Strings(chars, n) == UNION {[1..m -> chars] : m \in 0..n}

Short   == {first \o s : first \in {<<>>, <<"{">>, <<",">>},
                        s \in Strings({"{", "}", "[", "]", ":", ",", "a", "\""}, Depth)}
Escaped == {<<"{", "\"", "\\">> \o s : s \in Strings({"\\", "u", "n", "0", "g", "\""}, Depth)
                                       \cup {<<"u", "0", "a", "9">> \o t : t \in Strings({"0", "g", "\""}, 2)}}
Odd     == {<<"{", x, y, "}">> : x \in {"a", "SOH", " "}, y \in {"SOH", "DEL", " ", "LF"}}

\* Buffers, written out: names are one character long, a number is one digit.
B == INSTANCE Body
Symbol   == {B!Open("i"), B!Row(1), B!Close("i"), B!Noise, B!Comma}
Buffers  == Strings(Symbol, Symbols)
SizePair == <<"\"", "s", "\"", ":", "3">>
Data     == <<"\"", "d", "\"", ":", "[">>
Written(b, k, sizeFirst) ==
  LET comma == IF k = 1 \/ b[k - 1] \in {B!Open("i"), B!Comma} THEN <<>> ELSE <<",">> IN
  CASE b[k][1] = "open"  -> comma \o <<"{">> \o (IF sizeFirst THEN SizePair \o <<",">> ELSE <<>>) \o Data
    [] b[k][1] = "row"   -> comma \o <<"{", "\"", "f", "\"", ":", "\"", "v", "\"", "}">>
    [] b[k][1] = "close" -> <<"]">> \o (IF sizeFirst THEN <<>> ELSE <<",">> \o SizePair) \o <<"}">>
    [] b[k][1] = "comma" -> <<",">>
    [] OTHER             -> <<"n", " ">>
Text(b, sizeFirst) == FlattenSeq([k \in 1..Len(b) |-> Written(b, k, sizeFirst)])

Pages  == {Text(b, f) : b \in Buffers, f \in BOOLEAN}
Source == [t \in Pages |-> CHOOSE x \in Buffers \X BOOLEAN : Text(x[1], x[2]) = t]
AllTexts == Short \cup Escaped \cup Odd \cup Pages

\* What print1 goes by: types, and the sizes of objects and arrays.
Shape(ts) == [i \in 1..Len(ts) |->
               <<ts[i].type, IF i > 1 /\ ts[i].type \in {"object", "array"} THEN ts[i].size ELSE 0>>]

(* A buffer is parsed if and only if its braces fit and there is room for  *)
(* its tokens, and those found are the ones Print1 goes by: every object   *)
(* and array with the number of its elements.  (The size of the first      *)
(* token is spoilt by a comma on the top level; no one looks at it.)  It   *)
(* does not return only where Print1 says so.                              *)
FindsTokens ==
  js \in DOMAIN Source =>
    LET b == Source[js][1]
        f == Source[js][2]
    IN  /\ ret = "good" => P(f)!Accepts(b) /\ Shape(toks) = Shape(P(f)!Tokens(b))
        /\ ret \in {"INVAL", "PART"} => ~P(f)!Accepts(b)
        /\ ret = "NOMEM" => Len(P(f)!Tokens(b)) > NumTokens
        /\ Endless => P(f)!Endless(b)
=============================================================================
