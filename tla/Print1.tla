------------------------------- MODULE Print1 -------------------------------
(***************************************************************************)
(* print1 of bsym-isin-scrape: what it makes of the buffer, by the tokens  *)
(* jsmn finds in it.  Jsmn is the tokenizer itself, and is checked against *)
(* Accepts and Tokens.                                                     *)
(***************************************************************************)
EXTENDS Body, Integers, Sequences, FiniteSets

CONSTANTS
  Total,      \* what the service knows: number of rows for every ISIN
  SizeFirst,  \* ISINs whose answers have "size" in front of "data"
  MaxTokens,  \* tokens there is room for, 2048 in the code
  Tricky      \* rows with ");" in one of their fields: Half, ");", Row

-----------------------------------------------------------------------------
\* The objects open behind k symbols of b, the innermost in front.  A closing
\* brace that has no counterpart is overlooked by jsmn, a wrong one is not, and
\* neither is one in front of all tokens.
Wrong == <<"wrong">>
Enter(s, open) ==
  CASE open = Wrong -> Wrong
    [] s[1] \in {"open", "half"} -> <<s[1]>> \o open
    [] s[1] = "close" -> IF open = <<>> THEN open
                         ELSE IF open[1] = "open" THEN Tail(open) ELSE Wrong
    [] s[1] = "row" /\ s[2] \in Tricky ->
                         IF open # <<>> /\ open[1] = "half" THEN Tail(open) ELSE Wrong
    [] OTHER -> open
Nesting(b) ==
  LET f[k \in 0..Len(b)] == IF k = 0 THEN <<>> ELSE Enter(b[k], f[k - 1])
  IN  f

\* The first symbol there are tokens of, Len(b) + 1 when there is none.
First(b) == CHOOSE k \in 1..(Len(b) + 1) : /\ \A m \in 1..(k - 1) : b[m] = Comma
                                           /\ k <= Len(b) => b[k] # Comma
StartsWith(b, what) == First(b) <= Len(b) /\ b[First(b)][1] = what

\* jsmn_parse does not fail for the braces.
Accepts(b) == Nesting(b)[Len(b)] = <<>> /\ ~StartsWith(b, "close")

\* The tokens of symbol s: what print1 looks at of them.  An array counts its
\* elements, n of them, an object its keys.
Token(type, size, what) == [type |-> type, size |-> size, what |-> what]
Name(what)  == Token("string", 1, what)
Text(what)  == Token("string", 0, what)
Word(what)  == Token("primitive", 0, what)
TokensOf(s, n) ==
  CASE s[1] = "open"  -> <<Token("object", 2, <<s[2], 0>>)>>
                           \o (IF s[2] \in SizeFirst THEN <<Name("size"), Word(Total[s[2]])>> ELSE <<>>)
                           \o <<Name("data"), Token("array", n, "rows")>>
    [] s[1] = "close" -> IF s[2] \in SizeFirst THEN <<>> ELSE <<Name("size"), Word(Total[s[2]])>>
    [] s[1] = "row"   -> IF s[2] \in Tricky THEN <<>>
                         ELSE <<Token("object", 1, s[2]), Name("field"), Text("value")>>
    [] s[1] = "half"  -> <<Token("object", 1, s[2]), Name("field"), Text("value")>>
    [] s[1] = "comma" -> <<>>
    [] OTHER          -> <<Word("noise")>>

\* The elements of the array that symbol k opens.
Elements(b, k) ==
  LET inside == Nesting(b)
      depth  == Len(inside[k])
  IN  Cardinality({m \in (k + 1)..Len(b) :
        /\ \A i \in k..(m - 1) : Len(inside[i]) >= depth
        /\ Len(inside[m - 1]) = depth
        /\ b[m][1] # "close" /\ TokensOf(b[m], 0) # <<>>})
Tokens(b) == Seqs!FlattenSeq([k \in 1..Len(b) |->
               TokensOf(b[k], IF b[k][1] = "open" THEN Elements(b, k) ELSE 0)])

\* jsmn_parse does not fail, and the first token is an object that starts like
\* an answer.
Valid(b) == StartsWith(b, "open") /\ Accepts(b) /\ Len(Tokens(b)) <= MaxTokens

\* There are no tokens, and print1 looks at those of the buffer before.
Blank(b) == First(b) > Len(b)

\* A comma in front of the first token can make that its own parent, and then
\* jsmn_parse comes to no end at a closing brace that has no counterpart.
Endless(b) ==
  /\ First(b) > 1
  /\ \E k \in First(b)..(Len(b) - 1) :
       /\ b[k + 1][1] = "close" /\ Nesting(b)[k] = <<>>
       /\ Len(Tokens(SubSeq(b, 1, k))) <= MaxTokens

-----------------------------------------------------------------------------
\* print1 looks at the second token.
StartsWithSize(ts) == ts[2].what = "size"
Array(ts) == IF StartsWithSize(ts) THEN 5 ELSE 3

\* The loop over the rows: print_data prints an object, and what it prints
\* for an answer inside of the answer is the row <<t, 0>> no one knows.
Past(ts, i) == IF i <= Len(ts) /\ ts[i].type = "object" THEN i + 1 + 2 * ts[i].size ELSE i
Rounds(ts) ==
  LET array == Array(ts)
      at[j \in 0..ts[array].size] == IF j = 0 THEN array + 1 ELSE Past(ts, at[j - 1])
  IN  at

\* The rows print1 prints.
Rows(b) ==
  LET ts == Tokens(b)
      at == Rounds(ts)
      n  == Cardinality({j \in (DOMAIN at) \ {0} : at[j] # at[j - 1]})
  IN  [j \in 1..n |-> ts[at[j - 1]].what]

\* nitem, which was n: "size" is read from every answer when it is in front of
\* "data"; behind it only as long as none is known.
Size(b, n) ==
  LET ts == Tokens(b)
      at == Rounds(ts)
      i  == at[ts[Array(ts)].size]
  IN  IF StartsWithSize(ts) THEN ts[3].what
      ELSE IF n = 0 /\ i <= Len(ts) /\ ts[i].what = "size" THEN ts[i + 1].what
      ELSE n
=============================================================================
