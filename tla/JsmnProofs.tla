----------------------------- MODULE JsmnProofs ------------------------------
(***************************************************************************)
(* The tokens of Jsmn, for every text and every number of tokens there is  *)
(* room for: they are well typed and stay in their array, "size" is the    *)
(* number of children, parents come before their children (but for a first *)
(* token behind a comma), so that the loop over parents goes down in each  *)
(* round and all rounds end unless it comes to such a token, braces and    *)
(* brackets are matched as by the stack of Brackets, and the extents of    *)
(* tokens are nested.                                                      *)
(***************************************************************************)
EXTENDS Jsmn, FiniteSetTheorems, SequenceTheorems, TLAPS

Pcs == {"next", "climb", "primitive", "string", "escape", "hex", "done"}
Verdicts == {"none", "good", "PART", "INVAL", "NOMEM"}

TypeOK ==
  /\ js \in Texts /\ pc \in Pcs
  /\ pos \in 0..Len(js) /\ start \in 0..Len(js) /\ digits \in 0..4
  /\ toks \in Seq(TokenType)
  /\ toksuper \in 0..Len(toks) \cup {1} /\ at \in 0..Len(toks)
  /\ count = Len(toks)
  /\ ret \in Verdicts

\* The first token may be its own parent.
ParentsBefore == \A i \in 1..Len(toks) : toks[i].parent < i \/ (i = 1 /\ toks[i].parent = 1)

\* Where the loops are: a closing brace is compared with a token, and a string has begun
\* in front of pos.
Loops ==
  /\ pc = "climb" => at # 0 /\ ~AtEnd
  /\ pc = "primitive" => start <= pos
  /\ pc \in {"string", "escape", "hex"} => start < pos

IInv == TypeOK /\ SizesCount /\ ParentsBefore /\ Loops

-----------------------------------------------------------------------------
LEMMA ElementType ==
  ASSUME NEW T, NEW s \in Seq(T), NEW i \in 1..Len(s)
  PROVE  s[i] \in T
  OBVIOUS

LEMMA Replaced ==
  ASSUME NEW T, NEW s \in Seq(T), NEW i \in 1..Len(s), NEW e \in T
  PROVE  /\ [s EXCEPT ![i] = e] \in Seq(T) /\ Len([s EXCEPT ![i] = e]) = Len(s)
         /\ \A j \in 1..Len(s) : [s EXCEPT ![i] = e][j] = IF j = i THEN e ELSE s[j]
  OBVIOUS

LEMMA Lengths ==
  ASSUME IInv
  PROVE  Len(js) \in Nat /\ Len(toks) \in Nat /\ toks \in Seq(TokenType)
<1>1. js \in Texts /\ toks \in Seq(TokenType)
  BY DEF IInv, TypeOK
<1> QED
  BY <1>1, TextAssumption, LenProperties

\* The parent gets one child more, and no token another parent.
LEMMA CountedTokens ==
  ASSUME NEW ts \in Seq(TokenType), toksuper \in 0..Len(ts)
  PROVE  /\ Counted(ts) \in Seq(TokenType) /\ Len(Counted(ts)) = Len(ts)
         /\ \A i \in 1..Len(ts) :
              /\ Counted(ts)[i].parent = ts[i].parent
              /\ Counted(ts)[i].end = ts[i].end /\ Counted(ts)[i].type = ts[i].type
              /\ Counted(ts)[i].start = ts[i].start
              /\ Counted(ts)[i].size = IF i = toksuper THEN ts[i].size + 1 ELSE ts[i].size
<1>1. CASE toksuper = 0
  BY <1>1 DEF Counted
<1>2. CASE toksuper # 0
  <2> DEFINE t == ts[toksuper]
             e == [t EXCEPT !.size = t.size + 1]
  <2>1. toksuper \in 1..Len(ts)
    BY <1>2
  <2>2. t \in TokenType
    BY <2>1, ElementType
  <2> HIDE DEF t
  <2>3. /\ e \in TokenType /\ e.parent = t.parent /\ e.size = t.size + 1 /\ e.end = t.end
        /\ e.type = t.type /\ e.start = t.start
    <3>1. t.size + 1 \in Nat
      BY <2>2 DEF TokenType
    <3> DEFINE n == t.size + 1
    <3> HIDE DEF n
    <3>2. n \in Nat /\ e = [t EXCEPT !.size = n]
      BY <3>1 DEF n
    <3> QED
      <4>1. e \in TokenType /\ e.size = n
        BY <2>2, <3>2 DEF TokenType
      <4>2. e.parent = t.parent /\ e.end = t.end /\ e.type = t.type /\ e.start = t.start
        BY <2>2, <3>2 DEF TokenType
      <4> QED
        BY <4>1, <4>2 DEF n
  <2>4. Counted(ts) = [ts EXCEPT ![toksuper] = e]
    BY <1>2 DEF Counted, t
  <2> HIDE DEF e
  <2> QED
    BY <2>1, <2>3, <2>4, Replaced DEF t
<1> QED
  BY <1>1, <1>2

\* A new token stands behind the others, of which it changes a size only.
LEMMA AllocatedBehind ==
  ASSUME TypeOK, NEW tok \in TokenType, Alloc(tok)
  PROVE  /\ toks' \in Seq(TokenType) /\ Len(toks') = Len(toks) + 1 /\ Len(toks) \in Nat
         /\ \A i \in 1..Len(toks) : /\ toks'[i].parent = toks[i].parent
                                    /\ toks'[i].end = toks[i].end /\ toks'[i].type = toks[i].type
                                    /\ toks'[i].start = toks[i].start
                                    /\ toks'[i].size = IF i = toksuper THEN toks[i].size + 1 ELSE toks[i].size
         /\ LET new == toks'[Len(toks) + 1] IN
              /\ new.parent = tok.parent /\ new.end = tok.end /\ new.type = tok.type /\ new.start = tok.start
              /\ new.size = IF toksuper = Len(toks) + 1 THEN tok.size + 1 ELSE tok.size
<1> DEFINE n == Len(toks)
           ts == Append(toks, tok)
           c == Counted(ts)
<1>1. n \in Nat /\ toksuper \in 0..(n + 1)
  BY LenProperties DEF TypeOK
<1>2. /\ ts \in Seq(TokenType) /\ Len(ts) = n + 1 /\ ts[n + 1] = tok
      /\ \A i \in 1..n : ts[i] = toks[i]
  BY <1>1, AppendProperties DEF TypeOK
<1>3. toks' = c
  BY DEF Alloc
<1> HIDE DEF ts
<1>4. /\ c \in Seq(TokenType) /\ Len(c) = n + 1
      /\ \A i \in 1..(n + 1) : /\ c[i].parent = ts[i].parent
                               /\ c[i].end = ts[i].end /\ c[i].type = ts[i].type
                               /\ c[i].start = ts[i].start
                               /\ c[i].size = IF i = toksuper THEN ts[i].size + 1 ELSE ts[i].size
  BY <1>1, <1>2, CountedTokens
<1> HIDE DEF c
<1> QED
  BY <1>1, <1>2, <1>3, <1>4

\* A token that is allocated leaves the sizes right.
LEMMA Allocated ==
  ASSUME TypeOK, SizesCount, ParentsBefore, ~Full, UNCHANGED js,
         NEW tok \in TokenType, tok.size = 0, tok.parent = toksuper, Alloc(tok)
  PROVE  /\ toks' \in Seq(TokenType)' /\ Len(toks') = Len(toks) + 1 /\ count' = Len(toks')
         /\ SizesCount' /\ ParentsBefore'
<1> DEFINE n == Len(toks)
<1>1. n \in Nat /\ n < NumTokens /\ NumTokens \in Nat /\ toksuper \in 0..(n + 1)
  BY RoomAssumption, LenProperties DEF TypeOK, Full
<1>2. /\ toks' \in Seq(TokenType) /\ Len(toks') = n + 1
      /\ \A i \in 1..n : /\ toks'[i].parent = toks[i].parent
                         /\ toks'[i].size = IF i = toksuper THEN toks[i].size + 1 ELSE toks[i].size
      /\ toks'[n + 1].parent = toksuper
      /\ toks'[n + 1].size = IF toksuper = n + 1 THEN 1 ELSE 0
  BY AllocatedBehind
<1>3. count' = count + 1
  BY DEF Alloc
<1> DEFINE K(i) == {j \in 1..(n + 1) : toks'[j].parent = i}
<1>5. ASSUME NEW i \in 1..n PROVE toks'[i].size = Cardinality(K(i))
  <2>1. Children(i) \subseteq 1..n
    BY DEF Children
  <2>2. IsFiniteSet(Children(i)) /\ n + 1 \notin Children(i)
    <3>1. IsFiniteSet(1..n)
      BY <1>1, FS_Interval
    <3> QED
      BY <1>1, <2>1, <3>1, FS_Subset
  <2>3. \A j \in 1..n : toks'[j].parent = toks[j].parent
    BY <1>2
  <2>4. toks'[n + 1].parent = toksuper
    BY <1>2
  <2>5. K(i) = IF i = toksuper THEN Children(i) \cup {n + 1} ELSE Children(i)
    BY <1>1, <2>1, <2>3, <2>4 DEF Children
  <2>6. toks[i].size = Cardinality(Children(i))
    BY DEF SizesCount
  <2>7. toks'[i].size = IF i = toksuper THEN toks[i].size + 1 ELSE toks[i].size
    BY <1>2
  <2> HIDE DEF K
  <2>8. CASE i = toksuper
    <3>1. Cardinality(Children(i) \cup {n + 1}) = Cardinality(Children(i)) + 1
      BY <2>2, FS_AddElement
    <3> QED
      BY <2>5, <2>6, <2>7, <2>8, <3>1
  <2>9. CASE i # toksuper
    BY <2>5, <2>6, <2>7, <2>9
  <2> QED
    BY <2>8, <2>9
<1>6. toks'[n + 1].size = Cardinality(K(n + 1))
  <2>1. \A j \in 1..n : toks'[j].parent < j \/ (j = 1 /\ toks'[j].parent = 1)
    BY <1>2 DEF ParentsBefore
  <2>2. \A j \in 1..n : toks'[j].parent # n + 1
    BY <1>1, <2>1
  <2>3. K(n + 1) = IF toksuper = n + 1 THEN {n + 1} ELSE {}
    BY <1>1, <1>2, <2>2
  <2> HIDE DEF K
  <2> QED
    BY <1>2, <2>3, FS_EmptySet, FS_Singleton
<1>7. \A i \in 1..(n + 1) : toks'[i].size = Cardinality(K(i))
  <2> SUFFICES ASSUME NEW i \in 1..(n + 1), i # n + 1 PROVE toks'[i].size = Cardinality(K(i))
    BY <1>6
  <2> QED
    BY <1>1, <1>5
<1>8. \A i : Children(i)' = K(i)
  BY <1>2 DEF Children
<1>9. SizesCount'
  <2>1. Len(toks') <= NumTokens
    BY <1>1, <1>2
  <2> HIDE DEF K
  <2> QED
    BY <1>2, <1>7, <1>8, <2>1 DEF SizesCount
<1>10. ParentsBefore'
  <2>1. \A j \in 1..n : toks'[j].parent < j \/ (j = 1 /\ toks'[j].parent = 1)
    BY <1>2 DEF ParentsBefore
  <2>2. toks'[n + 1].parent < n + 1 \/ (n + 1 = 1 /\ toks'[n + 1].parent = 1)
    BY <1>1, <1>2 DEF TypeOK
  <2> QED
    BY <1>1, <1>2, <2>1, <2>2 DEF ParentsBefore
<1> QED
  BY <1>1, <1>2, <1>3, <1>9, <1>10 DEF TypeOK, TokenType

\* While no token changes, neither do their sizes and parents.
LEMMA SameTokens ==
  ASSUME UNCHANGED <<js, toks>>, SizesCount, ParentsBefore
  PROVE  SizesCount' /\ ParentsBefore' /\ TokenType' = TokenType
<1>1. \A i : Children(i)' = Children(i)
  BY DEF Children
<1> QED
  BY <1>1 DEF SizesCount, ParentsBefore, TokenType

\* jsmn_parse returns, with pos where it was or back at the start.
LEMMA Returned ==
  ASSUME IInv, NEW r \in Verdicts, Return(r), pos' \in {pos, start}
  PROVE  IInv'
<1>1. SizesCount' /\ ParentsBefore' /\ TokenType' = TokenType
  BY SameTokens DEF IInv, Return, tokenVars
<1>2. TypeOK'
  BY <1>1 DEF IInv, TypeOK, Return, tokenVars, Pcs
<1>3. Loops'
  BY DEF Return, Loops, tokenVars
<1> QED
  BY <1>1, <1>2, <1>3 DEF IInv

\* A string or primitive that has ended becomes a token.
LEMMA FoundToken ==
  ASSUME IInv, NEW type \in {"string", "primitive"}, NEW from \in 0..Len(js), NEW next \in pos..Len(js),
         Found(type, from, next)
  PROVE  IInv'
<1>1. CASE Full
  BY <1>1, Returned DEF Found, Fail, Verdicts
<1>2. CASE ~Full
  <2> DEFINE tok == Token(type, from, pos)
  <2>1. /\ Alloc(tok) /\ pc' = "next" /\ pos' = next
        /\ UNCHANGED <<js, start, digits, toksuper, at, ret>>
    BY <1>2 DEF Found
  <2>2. tok \in TokenType /\ tok.size = 0 /\ tok.parent = toksuper
    BY <1>2, RoomAssumption DEF Token, TokenType, IInv, TypeOK, Full
  <2>3. /\ toks' \in Seq(TokenType)' /\ Len(toks') = Len(toks) + 1 /\ count' = Len(toks')
        /\ SizesCount' /\ ParentsBefore'
    BY <1>2, <2>1, <2>2, Allocated DEF IInv
  <2>4. Len(js) \in Nat /\ Len(toks) \in Nat
    BY Lengths
  <2>5. TypeOK'
    BY <2>1, <2>3, <2>4 DEF IInv, TypeOK, Pcs
  <2>6. Loops'
    BY <2>1, <2>3, <2>4 DEF Loops
  <2> QED
    BY <2>3, <2>5, <2>6 DEF IInv
<1> QED
  BY <1>1, <1>2

-----------------------------------------------------------------------------
LEMMA AtInit == Init => IInv
<1> SUFFICES ASSUME Init PROVE IInv
  OBVIOUS
<1>1. Len(js) \in Nat
  BY TextAssumption DEF Init
<1>2. TypeOK
  BY <1>1 DEF Init, TypeOK, Pcs, Verdicts
<1> QED
  BY <1>1, <1>2, RoomAssumption DEF Init, IInv, SizesCount, ParentsBefore, Loops

LEMMA Kept == IInv /\ [Next]_vars => IInv'
<1> SUFFICES ASSUME IInv, [Next]_vars PROVE IInv'
  OBVIOUS
<1>1. Len(js) \in Nat /\ Len(toks) \in Nat /\ NumTokens \in Nat /\ NumTokens # 0
  BY Lengths, RoomAssumption
<1>3. Char # End => ~AtEnd /\ pos + 1 \in 0..Len(js)
  BY <1>1 DEF Char, AtEnd, IInv, TypeOK
<1>4. ASSUME UNCHANGED <<js, toks, count, ret>>,
             pc' \in Pcs, pos' \in 0..Len(js), start' \in 0..Len(js), digits' \in 0..4,
             toksuper' \in 0..Len(toks) \cup {1}, at' \in 0..Len(toks), Loops'
      PROVE  IInv'
  <2>1. SizesCount' /\ ParentsBefore' /\ TokenType' = TokenType
    BY <1>4, SameTokens DEF IInv
  <2>2. TypeOK'
    BY <1>4, <2>1 DEF IInv, TypeOK
  <2> QED
    BY <1>4, <2>1, <2>2 DEF IInv
<1>5. CASE Opening
  <2>1. CASE Full
    BY <1>5, <2>1, Returned DEF Opening, Verdicts
  <2>2. CASE ~Full
    <3> DEFINE tok == Token(IF Char = "{" THEN "object" ELSE "array", pos, -1)
    <3>1. /\ Alloc(tok) /\ toksuper' = Len(toks) + 1 /\ pos' = pos + 1
          /\ UNCHANGED <<js, pc, start, digits, at, ret>> /\ pc = "next" /\ Char # End
      BY <1>5, <2>2 DEF Opening, End
    <3>2. tok \in TokenType /\ tok.size = 0 /\ tok.parent = toksuper
      BY <1>1, <2>2 DEF Token, TokenType, IInv, TypeOK, Full
    <3>3. /\ toks' \in Seq(TokenType)' /\ Len(toks') = Len(toks) + 1 /\ count' = Len(toks')
          /\ SizesCount' /\ ParentsBefore'
      BY <2>2, <3>1, <3>2, Allocated DEF IInv
    <3>4. TypeOK'
      <4>1. pos' \in 0..Len(js) /\ UNCHANGED <<js, pc, start, digits, at, ret>>
        BY <1>3, <3>1
      <4>2. toksuper' \in 0..Len(toks') \cup {1} /\ at \in 0..Len(toks')
        <5>1. toksuper' = Len(toks) + 1
          BY <3>1
        <5> QED
          BY <1>1, <3>3, <5>1 DEF IInv, TypeOK
      <4> QED
        BY <3>3, <4>1, <4>2 DEF IInv, TypeOK
    <3>5. Loops'
      <4>1. pc' = "next"
        BY <3>1
      <4>2. Len(toks') # 0
        BY <1>1, <3>3
      <4> QED
        BY <4>1, <4>2 DEF Loops
    <3> QED
      BY <3>3, <3>4, <3>5 DEF IInv
  <2> QED
    BY <2>1, <2>2
<1>6. CASE Closing
  <2>1. CASE toks = <<>>
    BY <1>6, <2>1, Returned DEF Closing, Verdicts
  <2>2. CASE toks # <<>>
    <3>1. /\ UNCHANGED <<js, pos, start, digits, toks, toksuper, count, ret>>
          /\ pc' = "climb" /\ at' = Len(toks) /\ ~AtEnd
      BY <1>6, <2>2, <1>3 DEF Closing, End
    <3>2. Len(toks) # 0
      BY <2>2, <1>1, EmptySeq DEF IInv, TypeOK
    <3>3. Loops'
      BY <1>1, <3>1, <3>2 DEF Loops, AtEnd
    <3> QED
      BY <1>1, <1>4, <3>1, <3>3 DEF IInv, TypeOK, Pcs
  <2> QED
    BY <2>1, <2>2
<1>7. CASE Climb
  <2>1. pc = "climb" /\ at \in 1..Len(toks) /\ pos + 1 \in 0..Len(js)
    BY <1>1, <1>7 DEF Climb, IInv, TypeOK, Loops, AtEnd
  <2>2. toks[at] \in TokenType /\ Above(at) \in 0..Len(toks) /\ Above(at) <= at
    <3>1. toks \in Seq(TokenType)
      BY DEF IInv, TypeOK
    <3>2. toks[at] \in TokenType
      BY <2>1, <3>1, ElementType
    <3>3. toks[at].parent <= at /\ toks[at].parent \in Nat
      <4>1. toks[at].parent \in Nat
        BY <1>1, <3>2 DEF TokenType
      <4>2. toks[at].parent < at \/ toks[at].parent = at
        BY <2>1 DEF IInv, ParentsBefore
      <4> QED
        BY <1>1, <2>1, <4>1, <4>2
    <3> QED
      BY <1>1, <2>1, <3>2, <3>3 DEF Above
  <2>3. CASE Return("INVAL") /\ UNCHANGED pos
    BY <2>1, <2>3, Returned DEF Verdicts
  <2>4. CASE /\ toks' = [toks EXCEPT ![at].end = pos + 1]
             /\ toksuper' = Above(at)
             /\ pc' = "next" /\ pos' = pos + 1
             /\ UNCHANGED <<js, start, digits, at, count, ret>>
    <3> DEFINE e == [toks[at] EXCEPT !.end = pos + 1]
    <3>1. e \in TokenType /\ e.size = toks[at].size /\ e.parent = toks[at].parent
      BY SMTT(30), <1>1, <2>1, <2>2 DEF TokenType
    <3>2. toks' = [toks EXCEPT ![at] = e]
      BY <2>4
    <3> HIDE DEF e
    <3>3. /\ toks' \in Seq(TokenType) /\ Len(toks') = Len(toks)
          /\ \A j \in 1..Len(toks) : toks'[j].size = toks[j].size /\ toks'[j].parent = toks[j].parent
      BY <2>1, <3>1, <3>2, Replaced DEF IInv, TypeOK
    <3>4. \A i : Children(i)' = Children(i)
      BY <3>3 DEF Children
    <3>5. SizesCount' /\ ParentsBefore'
      BY <3>3, <3>4 DEF IInv, SizesCount, ParentsBefore
    <3>6. TypeOK'
      BY <2>1, <2>2, <2>4, <3>3 DEF IInv, TypeOK, TokenType, Pcs
    <3>7. Loops'
      BY <1>1, <2>1, <2>4, <3>3 DEF Loops
    <3> QED
      BY <3>5, <3>6, <3>7 DEF IInv
  <2>5. CASE pc' = "next" /\ pos' = pos + 1 /\ UNCHANGED <<js, start, digits, tokenVars, ret>>
    <3>1. Loops'
      BY <2>1, <2>5 DEF Loops, tokenVars
    <3> QED
      BY <1>4, <2>1, <2>5, <3>1 DEF tokenVars, IInv, TypeOK, Pcs
  <2>6. CASE /\ Above(at) # 0 /\ at' = Above(at)
             /\ UNCHANGED <<js, pc, pos, start, digits, toks, toksuper, count, ret>>
    <3>1. Loops'
      BY <2>1, <2>6 DEF IInv, Loops, AtEnd
    <3> QED
      BY <1>4, <2>1, <2>2, <2>6, <3>1 DEF IInv, TypeOK
  <2> QED
    BY <1>7, <2>3, <2>4, <2>5, <2>6 DEF Climb
<1>8. CASE Begin
  <2>1. Char # End
    BY <1>8 DEF Begin, End
  <2>2. Loops'
    <3>0. pos \in Int
      BY <1>1 DEF IInv, TypeOK
    <3>1. start' = pos /\ UNCHANGED toks
      BY <1>8 DEF Begin, tokenVars
    <3>2. \/ pc' = "string" /\ pos' = pos + 1
          \/ pc' = "primitive" /\ pos' = pos
      BY <1>8 DEF Begin
    <3> QED
      BY <2>1, <3>0, <3>1, <3>2 DEF Loops
  <2> QED
    BY <1>3, <1>4, <1>8, <2>1, <2>2 DEF Begin, tokenVars, IInv, TypeOK, Pcs
<1>9. CASE Blank
  <2>1. Char # End
    BY <1>9 DEF Blank, Blanks, End
  <2>2. Loops'
    BY <2>1, <1>9 DEF Blank, Loops, tokenVars
  <2> QED
    BY <1>3, <1>4, <1>9, <2>1, <2>2 DEF Blank, tokenVars, IInv, TypeOK
<1>10. CASE Colon
  <2>1. Char # End
    BY <1>10 DEF Colon, End
  <2>2. Loops'
    BY <2>1, <1>10 DEF Colon, Loops
  <2> QED
    BY <1>1, <1>3, <1>4, <1>10, <2>1, <2>2 DEF Colon, IInv, TypeOK
<1>11. CASE Comma
  <2>1. Char # End
    BY <1>11 DEF Comma, End
  <2>2. Loops'
    BY <2>1, <1>11 DEF Comma, Loops
  <2>3. toksuper' \in 0..Len(toks) \cup {1}
    <3>1. CASE toksuper' \in {0, 1}
      BY <1>1, <3>1
    <3>2. CASE toksuper # 0 /\ toks # <<>> /\ toksuper' \in {toksuper, toks[toksuper].parent}
      <4>1. Len(toks) # 0
        BY <1>1, <3>2, EmptySeq DEF IInv, TypeOK
      <4>2. toksuper \in 1..Len(toks) /\ toks \in Seq(TokenType)
        BY <1>1, <3>2, <4>1 DEF IInv, TypeOK
      <4>3. toks[toksuper] \in TokenType
        BY <4>2, ElementType
      <4>4. toks[toksuper].parent \in Nat
        BY <1>1, <4>3 DEF TokenType
      <4>5. toks[toksuper].parent < toksuper \/ toks[toksuper].parent = toksuper
        BY <4>2 DEF IInv, ParentsBefore
      <4> QED
        BY <1>1, <3>2, <4>2, <4>4, <4>5
    <3> QED
      BY <1>11, <3>1, <3>2 DEF Comma
  <2> QED
    BY <1>3, <1>4, <1>11, <2>1, <2>2, <2>3 DEF Comma, IInv, TypeOK
<1>12. CASE InPrimitive
  <2>1. pc = "primitive" /\ start <= pos
    BY <1>12 DEF InPrimitive, IInv, Loops
  <2>2. CASE Found("primitive", start, pos)
    BY <1>1, <2>1, <2>2, FoundToken DEF IInv, TypeOK
  <2>3. CASE Fail("INVAL")
    BY <2>1, <2>3, Returned DEF Fail, Verdicts
  <2>4. CASE Char # End /\ pos' = pos + 1 /\ UNCHANGED <<js, pc, start, digits, tokenVars, ret>>
    <3>1. Loops'
      BY <1>1, <2>1, <2>4 DEF Loops, tokenVars, IInv, TypeOK
    <3> QED
      BY <1>3, <1>4, <2>1, <2>4, <3>1 DEF tokenVars, IInv, TypeOK
  <2> QED
    BY <1>12, <2>2, <2>3, <2>4 DEF InPrimitive
<1>13. CASE InString
  <2>1. pc = "string" /\ start < pos
    BY <1>13 DEF InString, IInv, Loops
  <2>2. CASE Fail("PART")
    BY <2>1, <2>2, Returned DEF Fail, Verdicts
  <2>3. CASE Char # End /\ Found("string", start + 1, pos + 1)
    BY <1>1, <1>3, <2>1, <2>3, FoundToken DEF IInv, TypeOK
  <2>4. CASE /\ Char # End /\ pc' \in {"escape", "string"} /\ pos' = pos + 1
             /\ UNCHANGED <<js, start, digits, tokenVars, ret>>
    <3>1. Loops'
      BY <1>1, <2>1, <2>4 DEF Loops, tokenVars, IInv, TypeOK
    <3> QED
      BY <1>3, <1>4, <2>1, <2>4, <3>1 DEF tokenVars, IInv, TypeOK, Pcs
  <2> QED
    BY <1>13, <2>2, <2>3, <2>4 DEF InString, End
<1>14. CASE InEscape
  <2>1. pc = "escape" /\ start < pos
    BY <1>14 DEF InEscape, IInv, Loops
  <2>2. CASE Fail("INVAL")
    BY <2>1, <2>2, Returned DEF Fail, Verdicts
  <2>3. CASE /\ Char # End /\ pc' \in {"hex", "string"} /\ pos' = pos + 1 /\ digits' \in {digits, 0}
             /\ UNCHANGED <<js, start, tokenVars, ret>>
    <3>1. Loops'
      BY <1>1, <2>1, <2>3 DEF Loops, tokenVars, IInv, TypeOK
    <3> QED
      BY <1>3, <1>4, <2>1, <2>3, <3>1 DEF tokenVars, IInv, TypeOK, Pcs
  <2> QED
    BY <1>14, <2>2, <2>3 DEF InEscape, Escapes, End
<1>15. CASE InHex
  <2>1. pc = "hex" /\ start < pos
    BY <1>15 DEF InHex, IInv, Loops
  <2>2. CASE Fail("INVAL")
    BY <2>1, <2>2, Returned DEF Fail, Verdicts
  <2>3. CASE /\ Char # End /\ digits < 4 /\ digits' = digits + 1 /\ pos' = pos + 1
             /\ UNCHANGED <<js, pc, start, tokenVars, ret>>
    <3>1. Loops'
      BY <1>1, <2>1, <2>3 DEF Loops, tokenVars, IInv, TypeOK
    <3> QED
      BY <1>3, <1>4, <2>1, <2>3, <3>1 DEF tokenVars, IInv, TypeOK
  <2>4. CASE pc' = "string" /\ UNCHANGED <<js, pos, start, digits, tokenVars, ret>>
    <3>1. Loops'
      BY <2>1, <2>4 DEF Loops, tokenVars
    <3> QED
      BY <1>4, <2>1, <2>4, <3>1 DEF tokenVars, IInv, TypeOK, Pcs
  <2> QED
    BY <1>15, <2>2, <2>3, <2>4 DEF InHex, Hex, End
<1>16. CASE EndOfText
  BY <1>16, Returned DEF EndOfText, Verdicts
<1>17. CASE UNCHANGED vars
  <2>1. SizesCount' /\ ParentsBefore' /\ TokenType' = TokenType
    BY <1>17, SameTokens DEF IInv, vars, tokenVars
  <2>2. TypeOK'
    BY <1>17, <2>1 DEF IInv, TypeOK, vars, tokenVars
  <2>3. Loops'
    BY <1>17 DEF IInv, Loops, AtEnd, vars, tokenVars
  <2> QED
    BY <2>1, <2>2, <2>3 DEF IInv
<1> QED
  BY <1>5, <1>6, <1>7, <1>8, <1>9, <1>10, <1>11, <1>12, <1>13, <1>14, <1>15, <1>16, <1>17
     DEF Next, Parse, Terminated

LEMMA Always == Spec => []IInv
  BY AtInit, Kept, PTL DEF Spec

(* Whatever the text, the tokens are well typed and refer to one another.  *)
THEOREM TokensTyped == Spec => []TypeOK
<1>1. IInv => TypeOK
  BY DEF IInv
<1> QED
  BY <1>1, Always, PTL

(* Whatever the text and the room for tokens, none is allocated behind the *)
(* array, and "size" is the number of children.                            *)
THEOREM SizesRight == Spec => []SizesCount
<1>1. IInv => SizesCount
  BY DEF IInv
<1> QED
  BY <1>1, Always, PTL

\* The text in front of it is made tokens of, or passed over.
Taken == IF pc \in {"primitive", "string", "escape", "hex"} THEN start ELSE pos

\* Only a comma in front of all tokens makes the first one its own parent.
Leading ==
  /\ toks = <<>> => \A i \in 1..Taken : js[i] \in Blanks \cup {":", ","}
  /\ toks = <<>> /\ toksuper # 0 => StartsWithComma
  /\ toks # <<>> /\ toks[1].parent = 1 => StartsWithComma

LEMMA LeadingKept ==
  ASSUME IInv, Leading, [Next]_vars
  PROVE  Leading'
<1>1. Len(js) \in Nat /\ pos \in 0..Len(js) /\ start \in 0..Len(js) /\ toks \in Seq(TokenType) /\ Len(toks) \in Nat
  BY Lengths DEF IInv, TypeOK
<1>2. ASSUME NEW tok \in TokenType, tok.parent = toksuper, Alloc(tok), UNCHANGED js
      PROVE  Leading'
  <2>1. /\ toks' \in Seq(TokenType) /\ Len(toks') = Len(toks) + 1
        /\ \A i \in 1..Len(toks) : toks'[i].parent = toks[i].parent
        /\ toks'[Len(toks) + 1].parent = toksuper
    BY <1>2, AllocatedBehind DEF IInv
  <2>2. toks' # <<>> /\ StartsWithComma' = StartsWithComma
    BY <1>1, <1>2, <2>1 DEF StartsWithComma
  <2>3. CASE toks = <<>>
    <3>1. Len(toks) + 1 = 1
      BY <2>3
    <3>2. toks'[1].parent = toksuper
      BY <2>1, <3>1
    <3>3. toksuper = 1 => StartsWithComma'
      <4>1. toksuper = 1 => toksuper # 0
        OBVIOUS
      <4>2. toksuper # 0 => StartsWithComma
        BY <2>3 DEF Leading
      <4> QED
        BY <2>2, <4>1, <4>2
    <3> QED
      BY <2>2, <3>2, <3>3 DEF Leading
  <2>4. CASE toks # <<>>
    <3>1. 1 \in 1..Len(toks)
      BY <1>1, <2>4, EmptySeq
    <3> QED
      BY <2>1, <2>2, <2>4, <3>1 DEF Leading
  <2> QED
    BY <2>3, <2>4
<1>3. ASSUME UNCHANGED <<js, toks, toksuper>>, Taken' = Taken
      PROVE  Leading'
  BY <1>3 DEF Leading, StartsWithComma
<1>4. ASSUME UNCHANGED <<js, toks>>, toks # <<>>
      PROVE  Leading'
  BY <1>4 DEF Leading, StartsWithComma
<1>5. ASSUME pc = "next", Char \in Blanks \cup {":", ","}, pc' = "next", pos' = pos + 1, toks = <<>>,
             UNCHANGED <<js, toks>>, toksuper' # 0 => toksuper # 0 \/ Char = ","
      PROVE  Leading'
  <2>1. Char = js[pos + 1] /\ pos + 1 \in 1..Len(js)
    <3>1. Char # End
      BY <1>5 DEF End, Blanks
    <3>2. ~AtEnd /\ Char = js[pos + 1]
      BY <3>1 DEF Char
    <3> QED
      BY <1>1, <3>2 DEF AtEnd
  <2>2. Taken = pos /\ Taken' = pos + 1
    BY <1>5 DEF Taken
  <2>3. \A i \in 1..pos : js[i] \in Blanks \cup {":", ","}
    BY <1>5, <2>2 DEF Leading
  <2>4. \A i \in 1..(pos + 1) : js[i] \in Blanks \cup {":", ","}
    <3>1. \A i \in 1..(pos + 1) : i \in 1..pos \/ i = pos + 1
      BY <1>1
    <3> QED
      BY <1>5, <2>1, <2>3, <3>1
  <2>5. Char = "," => StartsWithComma
    <3> DEFINE k == pos + 1
    <3>1. k \in 1..Len(js) /\ 1..(k - 1) = 1..pos
      BY <1>1, <2>1
    <3>2. Char = js[k]
      BY <2>1
    <3> HIDE DEF k
    <3> QED
      BY <2>3, <3>1, <3>2 DEF StartsWithComma
  <2>6. StartsWithComma' = StartsWithComma
    BY <1>5 DEF StartsWithComma
  <2> QED
    BY <1>5, <2>2, <2>4, <2>5, <2>6 DEF Leading
<1>6. ASSUME NEW r, Return(r), pos' = Taken PROVE Leading'
  BY <1>3, <1>6 DEF Return, tokenVars, Taken
<1>7. ASSUME NEW type \in {"string", "primitive"}, NEW from \in 0..Len(js), NEW next,
             Found(type, from, next), pc \in {"string", "primitive"}
      PROVE  Leading'
  <2>1. CASE Full
    BY <1>6, <1>7, <2>1 DEF Found, Fail, Taken
  <2>2. CASE ~Full
    <3>1. Token(type, from, pos) \in TokenType /\ Token(type, from, pos).parent = toksuper
      BY <1>1, <2>2, RoomAssumption DEF Token, TokenType, IInv, TypeOK, Full
    <3>2. Alloc(Token(type, from, pos)) /\ UNCHANGED js
      BY <1>7, <2>2 DEF Found
    <3> QED
      BY <1>2, <3>1, <3>2
  <2> QED
    BY <2>1, <2>2
<1>8. CASE Opening
  <2>1. CASE Full
    BY <1>6, <1>8, <2>1 DEF Opening, Taken
  <2>2. CASE ~Full
    <3> DEFINE tok == Token(IF Char = "{" THEN "object" ELSE "array", pos, -1)
    <3>1. tok \in TokenType /\ tok.parent = toksuper
      BY <1>1, <2>2, RoomAssumption DEF Token, TokenType, IInv, TypeOK, Full
    <3>2. Alloc(tok) /\ UNCHANGED js
      BY <1>8, <2>2 DEF Opening
    <3> QED
      BY <1>2, <3>1, <3>2
  <2> QED
    BY <2>1, <2>2
<1>9. CASE Closing
  <2>1. CASE toks = <<>>
    BY <1>6, <1>9, <2>1 DEF Closing, Taken
  <2>2. CASE toks # <<>>
    BY <1>4, <1>9, <2>2 DEF Closing
  <2> QED
    BY <2>1, <2>2
<1>10. CASE Climb
  <2>1. pc = "climb" /\ at \in 1..Len(toks) /\ toks # <<>>
    BY <1>1, <1>10 DEF Climb, IInv, TypeOK, Loops
  <2>2. CASE /\ toks' = [toks EXCEPT ![at].end = pos + 1] /\ UNCHANGED js
    <3>1. toks[at] \in TokenType
      BY <1>1, <2>1, ElementType
    <3> DEFINE e == [toks[at] EXCEPT !.end = pos + 1]
    <3>2. e.parent = toks[at].parent
      BY <3>1 DEF TokenType
    <3>3. toks' = [toks EXCEPT ![at] = e]
      BY <2>2
    <3> HIDE DEF e
    <3>4. toks' # <<>> /\ toks'[1].parent = toks[1].parent
      BY <1>1, <2>1, <3>2, <3>3
    <3>5. StartsWithComma' = StartsWithComma
      BY <2>2 DEF StartsWithComma
    <3> QED
      BY <2>1, <3>4, <3>5 DEF Leading
  <2>3. CASE UNCHANGED <<js, toks>>
    BY <1>4, <2>1, <2>3
  <2> QED
    BY <1>10, <2>2, <2>3 DEF Climb, Return, tokenVars
<1>11. CASE Begin
  <2>1. UNCHANGED <<js, toks, toksuper>> /\ Taken' = Taken
    BY <1>11 DEF Begin, Taken, tokenVars
  <2> QED
    BY <1>3, <2>1
<1>12. CASE Blank
  BY <1>4, <1>5, <1>12 DEF Blank, tokenVars
<1>13. CASE Colon
  <2>1. toks = <<>> => toksuper' = 0
    BY <1>13 DEF Colon
  <2> QED
    BY <1>4, <1>5, <1>13, <2>1 DEF Colon
<1>14. CASE Comma
  <2>1. pc = "next" /\ Char = "," /\ pc' = "next" /\ pos' = pos + 1 /\ UNCHANGED <<js, toks>>
    BY <1>14 DEF Comma
  <2> QED
    BY <1>4, <1>5, <2>1
<1>15. CASE InPrimitive
  <2>1. pc = "primitive" /\ Taken = start
    BY <1>15 DEF InPrimitive, Taken
  <2>2. CASE Found("primitive", start, pos)
    BY <1>1, <1>7, <2>1, <2>2
  <2>3. CASE Fail("INVAL")
    BY <1>6, <2>1, <2>3 DEF Fail
  <2>4. CASE UNCHANGED <<js, pc, start, digits, tokenVars, ret>>
    BY <1>3, <2>1, <2>4 DEF tokenVars, Taken
  <2> QED
    BY <1>15, <2>2, <2>3, <2>4 DEF InPrimitive
<1>16. CASE InString
  <2>1. pc = "string" /\ Taken = start
    BY <1>16 DEF InString, Taken
  <2>2. CASE Found("string", start + 1, pos + 1)
    <3>1. start + 1 \in 0..Len(js)
      BY <1>1, <2>1 DEF IInv, Loops
    <3> QED
      BY <1>7, <2>1, <2>2, <3>1
  <2>3. CASE Fail("PART")
    BY <1>6, <2>1, <2>3 DEF Fail
  <2>4. CASE pc' \in {"escape", "string"} /\ UNCHANGED <<js, start, digits, tokenVars, ret>>
    BY <1>3, <2>1, <2>4 DEF tokenVars, Taken
  <2> QED
    BY <1>16, <2>2, <2>3, <2>4 DEF InString
<1>17. CASE InEscape \/ InHex
  <2>1. pc \in {"escape", "hex"} /\ Taken = start
    BY <1>17 DEF InEscape, InHex, Taken
  <2>2. CASE Fail("INVAL")
    BY <1>6, <2>1, <2>2 DEF Fail
  <2>3. CASE pc' \in {"string", "hex"} /\ UNCHANGED <<js, start, tokenVars, ret>>
    BY <1>3, <2>1, <2>3 DEF tokenVars, Taken
  <2>4. InEscape => Fail("INVAL") \/ (pc' \in {"string", "hex"} /\ UNCHANGED <<js, start, tokenVars, ret>>)
    BY DEF InEscape
  <2>5. InHex => Fail("INVAL") \/ (pc' \in {"string", "hex"} /\ UNCHANGED <<js, start, tokenVars, ret>>)
    BY DEF InHex
  <2> QED
    BY <1>17, <2>2, <2>3, <2>4, <2>5
<1>18. CASE EndOfText
  <2>1. pos' = Taken
    BY <1>18 DEF EndOfText, Taken
  <2> QED
    BY <1>6, <1>18, <2>1 DEF EndOfText
<1>19. CASE UNCHANGED vars
  BY <1>3, <1>19 DEF vars, tokenVars, Taken
<1> QED
  BY <1>8, <1>9, <1>10, <1>11, <1>12, <1>13, <1>14, <1>15, <1>16, <1>17, <1>18, <1>19
     DEF Next, Parse, Terminated

LEMMA LeadingAlways == Spec => []Leading
<1>1. Init => Leading
  BY DEF Init, Leading, Taken
<1> QED
  BY <1>1, LeadingKept, Always, PTL DEF Spec

LEMMA Climbs ==
  ASSUME IInv, Leading, Climb
  PROVE  Endless \/ at' < at \/ pc' # "climb"
<1>1. at \in 1..Len(toks) /\ pc = "climb" /\ toks # <<>>
  BY DEF Climb, IInv, TypeOK, Loops
<1>2. Above(at) < at \/ (at = 1 /\ toks[1].parent = 1)
  BY <1>1 DEF IInv, ParentsBefore, Above
<1>3. CASE Above(at) < at
  BY <1>3 DEF Climb, Return
<1>4. CASE at = 1 /\ toks[1].parent = 1
  <2>1. StartsWithComma
    BY <1>1, <1>4 DEF Leading
  <2> QED
    BY <1>1, <1>4, <2>1 DEF Climb, Return, Endless, GoesRound
<1> QED
  BY <1>2, <1>3, <1>4

(* The loop over parents goes on to a token further in front, or ends: it  *)
(* takes no more rounds than there are tokens.  The exception is a text    *)
(* that starts with a comma, at its first token: there it goes round.      *)
THEOREM ClimbDescends == Spec => [][Climb /\ ~Endless => at' < at \/ pc' # "climb"]_vars
<1>1. IInv /\ Leading /\ [Next]_vars => [Climb /\ ~Endless => at' < at \/ pc' # "climb"]_vars
  BY Climbs
<1> QED
  BY <1>1, Always, LeadingAlways, PTL DEF Spec

-----------------------------------------------------------------------------
(* That jsmn_parse ends.                                                   *)

\* The most rounds there can be without another character being read: one begins or ends
\* a primitive, closes an escape, or climbs to a token further in front.
Rank == CASE pc = "next"      -> NumTokens + (IF Char \in Stops \cup {End} THEN 2 ELSE 4)
          [] pc = "primitive" -> NumTokens + 3
          [] pc = "climb"     -> at
          [] pc = "hex"       -> 1
          [] OTHER            -> 0
RoundsLeft == IF pc = "done" THEN 0 ELSE (Len(js) - pos) * (NumTokens + 5) + Rank + 1

LEMMA RankTypes == IInv => Rank \in 0..(NumTokens + 4)
<1> SUFFICES ASSUME IInv PROVE Rank \in 0..(NumTokens + 4)
  OBVIOUS
<1>1. pc = "climb" => at \in 0..NumTokens
  BY Lengths, RoomAssumption DEF IInv, TypeOK, SizesCount
<1>2. NumTokens \in Nat /\ pc \in Pcs
  BY RoomAssumption DEF IInv, TypeOK
<1> QED
  BY <1>1, <1>2 DEF Rank, Pcs

LEMMA Weighted ==
  ASSUME NEW a \in Nat, NEW b \in Nat, NEW k \in Nat, b < a
  PROVE  b * k \in Nat /\ a * k \in Nat /\ b * k + k <= a * k
<1>1. a * k = (a - b - 1) * k + (b * k + k)
  OBVIOUS
<1>2. (a - b - 1) * k >= 0
  OBVIOUS
<1> QED
  BY <1>1, <1>2

(* Every round ends the call, reads a character, or has a lower rank, but  *)
(* for those at a first token that is its own parent.                      *)
LEMMA RoundGoesOn ==
  ASSUME IInv, Leading, Parse, ~Endless
  PROVE  /\ pc # "done" /\ js' = js
         /\ \/ pc' = "done"
            \/ pos' = pos + 1 /\ ~AtEnd
            \/ pos' = pos /\ Rank' < Rank
<1> USE DEF Return, Fail
<1>0. NumTokens \in Nat /\ (Char # End => ~AtEnd)
  BY RoomAssumption DEF Char
<1>1. CASE Opening
  BY <1>0, <1>1 DEF Opening, End
<1>2. CASE Closing
  <2>0. CASE toks = <<>>
    BY <1>2, <2>0 DEF Closing
  <2> SUFFICES ASSUME toks # <<>> PROVE pos' = pos /\ Rank' < Rank /\ pc # "done" /\ js' = js
    BY <2>0
  <2>1. /\ pc = "next" /\ pc' = "climb" /\ pos' = pos /\ js' = js /\ at' = Len(toks)
    BY <1>2 DEF Closing
  <2>2. Rank' = Len(toks) /\ Rank >= NumTokens + 2
    BY <1>0, <2>1 DEF Rank
  <2>3. Len(toks) \in Nat /\ Len(toks) <= NumTokens
    BY Lengths DEF IInv, SizesCount
  <2>4. Rank \in Int
    BY <1>0, RankTypes
  <2> QED
    BY <1>0, <2>1, <2>2, <2>3, <2>4
<1>3. CASE Climb
  <2>1. pc = "climb" /\ ~AtEnd /\ at \in 1..Len(toks) /\ js' = js
    BY <1>3, Lengths DEF Climb, IInv, Loops, TypeOK
  <2>2. CASE pos' = pos /\ pc' = pc /\ at' = Above(at)
    <3>1. at' < at
      BY <1>3, <2>1, <2>2, Climbs
    <3> QED
      BY <2>1, <2>2, <3>1 DEF Rank
  <2> QED
    BY <1>3, <2>1, <2>2 DEF Climb
<1>4. CASE Begin
  <2>1. pc = "next" /\ js' = js /\ Char # End
    BY <1>4 DEF Begin, End
  <2>2. CASE pos' = pos /\ pc' = "primitive" /\ Char \notin Stops \cup {End}
    <3>1. Rank = NumTokens + 4 /\ Rank' = NumTokens + 3
      BY <2>1, <2>2 DEF Rank
    <3> QED
      BY <1>0, <2>1, <2>2, <3>1
  <2> QED
    BY <1>0, <1>4, <2>1, <2>2 DEF Begin
<1>5. CASE Blank \/ Colon \/ Comma
  BY <1>0, <1>5 DEF Blank, Colon, Comma, Blanks, End
<1>6. CASE InPrimitive
  <2>1. CASE Char \in Stops \cup {End} /\ Found("primitive", start, pos)
    <3>1. CASE Full
      BY <1>6, <2>1, <3>1 DEF InPrimitive, Found
    <3>2. CASE ~Full
      <4>1. pc = "primitive" /\ pc' = "next" /\ pos' = pos /\ js' = js
        BY <1>6, <2>1, <3>2 DEF InPrimitive, Found
      <4>2. Char' = Char
        BY <4>1 DEF Char, AtEnd
      <4>3. Rank = NumTokens + 3 /\ Rank' = NumTokens + 2
        BY <2>1, <4>1, <4>2 DEF Rank
      <4> QED
        BY <1>0, <4>1, <4>3
    <3> QED
      BY <3>1, <3>2
  <2> QED
    BY <1>0, <1>6, <2>1 DEF InPrimitive
<1>7. CASE InString
  BY <1>0, <1>7 DEF InString, Found, End
<1>8. CASE InEscape
  BY <1>0, <1>8 DEF InEscape, Escapes, End
<1>9. CASE InHex
  <2>1. CASE pc' = "string" /\ pos' = pos
    BY <1>9, <2>1 DEF InHex, Rank
  <2> QED
    BY <1>0, <1>9, <2>1 DEF InHex, Hex, End
<1>10. CASE EndOfText
  BY <1>10 DEF EndOfText
<1> QED
  BY <1>1, <1>2, <1>3, <1>4, <1>5, <1>6, <1>7, <1>8, <1>9, <1>10 DEF Parse

(* jsmn_parse returns: each round of its loops leaves fewer to go, and     *)
(* they are no more than the characters, and one, times the tokens there   *)
(* is room for, and five.  This is so for every text that does not start   *)
(* with a comma, and for those that do until the loop over parents comes   *)
(* to a first token that is closed and its own parent.                     *)
THEOREM RoundsEnd ==
  Spec => /\ [](RoundsLeft \in 0..((Len(js) + 1) * (NumTokens + 5)))
          /\ [][Parse /\ ~Endless => RoundsLeft' < RoundsLeft]_vars
<1> DEFINE K == NumTokens + 5
           Bounds == /\ Len(js) - pos \in Nat /\ (Len(js) - pos) * K \in Nat /\ K \in Nat
                     /\ RoundsLeft \in 0..((Len(js) + 1) * K)
                     /\ RoundsLeft <= (Len(js) - pos) * K + K
                     /\ pc # "done" => RoundsLeft > (Len(js) - pos) * K
<1>1. IInv => Bounds
  <2> SUFFICES ASSUME IInv PROVE Bounds
    OBVIOUS
  <2>1. Len(js) \in Nat /\ Len(js) - pos \in Nat /\ K \in Nat /\ Rank \in Nat /\ Rank + 1 <= K
    BY Lengths, RankTypes, RoomAssumption DEF IInv, TypeOK
  <2>2. Len(js) - pos < Len(js) + 1
    BY <2>1 DEF IInv, TypeOK
  <2> DEFINE m == (Len(js) - pos) * K
             n == (Len(js) + 1) * K
  <2>3. m \in Nat /\ n \in Nat /\ m + K <= n
    BY <2>1, <2>2, Weighted
  <2>4. RoundsLeft = IF pc = "done" THEN 0 ELSE m + Rank + 1
    BY DEF RoundsLeft
  <2> HIDE DEF K, m, n
  <2>5. RoundsLeft \in 0..n /\ RoundsLeft <= m + K /\ (pc # "done" => RoundsLeft > m)
    BY <2>1, <2>3, <2>4
  <2> QED
    BY <2>1, <2>3, <2>5 DEF m, n
<1>2. IInv' => Bounds' /\ (Rank \in 0..(NumTokens + 4))'
  BY <1>1, RankTypes, PTL
<1>3. ASSUME IInv, IInv', Leading, Parse, ~Endless
      PROVE  RoundsLeft' < RoundsLeft
  <2>1. /\ pc # "done" /\ js' = js
        /\ pc' = "done" \/ (pos' = pos + 1 /\ ~AtEnd) \/ (pos' = pos /\ Rank' < Rank)
    BY <1>3, RoundGoesOn
  <2>2. RoundsLeft \in Nat /\ RoundsLeft > (Len(js) - pos) * K /\ (Len(js) - pos) * K \in Nat
        /\ K \in Nat
    BY <1>1, <1>3, <2>1
  <2> HIDE DEF K
  <2>3. CASE pc' = "done"
    BY <2>2, <2>3 DEF RoundsLeft
  <2>4. CASE pos' = pos + 1 /\ ~AtEnd
    <3>1. Len(js) - pos \in Nat /\ Len(js) - (pos + 1) \in Nat /\ Len(js) - (pos + 1) < Len(js) - pos
      BY <1>3, <2>4, Lengths DEF IInv, TypeOK, AtEnd
    <3>2. (Len(js) - (pos + 1)) * K + K <= (Len(js) - pos) * K
      BY <2>2, <3>1, Weighted
    <3>3. RoundsLeft' <= (Len(js) - (pos + 1)) * K + K /\ RoundsLeft' \in Nat
      <4>1. RoundsLeft' <= (Len(js') - pos') * K + K /\ RoundsLeft' \in 0..((Len(js') + 1) * K)
        BY <1>3, <1>2 DEF K
      <4> QED
        BY <2>1, <2>4, <4>1
    <3>4. (Len(js) - (pos + 1)) * K \in Nat
      BY <2>2, <3>1
    <3> QED
      BY <2>2, <3>2, <3>3, <3>4
  <2>5. CASE pos' = pos /\ Rank' < Rank
    <3>1. Rank \in Nat /\ Rank' \in Nat
      BY <1>3, <1>2, RankTypes, RoomAssumption
    <3>2. CASE pc' # "done"
      <4>1. RoundsLeft = (Len(js) - pos) * K + Rank + 1 /\ RoundsLeft' = (Len(js) - pos) * K + Rank' + 1
        BY <2>1, <2>5, <3>2 DEF RoundsLeft, K
      <4> QED
        BY <2>2, <2>5, <3>1, <4>1
    <3> QED
      BY <2>3, <3>2
  <2> QED
    BY <2>1, <2>3, <2>4, <2>5
<1>4. IInv => RoundsLeft \in 0..((Len(js) + 1) * (NumTokens + 5))
  BY <1>1
<1>5. IInv /\ IInv' /\ Leading /\ [Next]_vars => [Parse /\ ~Endless => RoundsLeft' < RoundsLeft]_vars
  BY <1>3
<1> QED
  BY Always, LeadingAlways, <1>4, <1>5, PTL DEF Spec

-----------------------------------------------------------------------------
(* Braces and brackets.                                                    *)

\* No open token lies between a token and its parent, or behind toksuper and the
\* token a closing brace is compared with; strings and primitives are not open.
Nested ==
  /\ \A k \in 1..Len(toks) : \A i \in Opened : i < k => i <= toks[k].parent
  /\ \A i \in Opened : i <= toksuper /\ (pc = "climb" => i <= at)
  /\ \A i \in Opened : toks[i].type \in {"object", "array"}
  /\ pc # "done" => ret = "none"

LEMMA NestedNew ==
  ASSUME IInv, Nested, NEW tok \in TokenType, Alloc(tok), tok.parent = toksuper, pc' # "climb", UNCHANGED ret,
         ret = "none",
         \/ tok.end = -1 /\ toksuper' = Len(toks) + 1 /\ tok.type \in {"object", "array"}
         \/ tok.end # -1 /\ UNCHANGED toksuper
  PROVE  /\ Nested'
         /\ Opened' = IF tok.end = -1 THEN Opened \cup {Len(toks) + 1} ELSE Opened
         /\ \A i \in Opened : toks'[i].type = toks[i].type
<1> DEFINE n == Len(toks)
<1>1. /\ Len(toks') = n + 1 /\ n \in Nat
      /\ toks'[n + 1].parent = tok.parent /\ toks'[n + 1].end = tok.end /\ toks'[n + 1].type = tok.type
      /\ \A i \in 1..n : /\ toks'[i].parent = toks[i].parent
                         /\ toks'[i].end = toks[i].end /\ toks'[i].type = toks[i].type
  BY AllocatedBehind DEF IInv
<1>2. Opened \subseteq 1..n /\ toksuper \in 0..n \cup {1}
  BY DEF Opened, IInv, TypeOK
<1>3. Opened' = IF tok.end = -1 THEN Opened \cup {n + 1} ELSE Opened
  BY <1>1 DEF Opened, IsOpen
<1>4. ASSUME NEW k \in 1..(n + 1), NEW i \in Opened', i < k PROVE i <= toks'[k].parent
  <2>1. i \in Opened
    BY <1>1, <1>2, <1>3, <1>4
  <2>2. CASE k = n + 1
    BY <1>1, <2>1, <2>2 DEF Nested
  <2>3. CASE k \in 1..n
    BY <1>1, <1>4, <2>1, <2>3 DEF Nested
  <2> QED
    BY <1>1, <2>2, <2>3
<1>5. \A i \in Opened' : i <= toksuper'
  BY <1>1, <1>2, <1>3 DEF Nested
<1>6. \A i \in Opened' : toks'[i].type \in {"object", "array"}
  BY <1>1, <1>2, <1>3 DEF Nested
<1>7. \A k \in 1..Len(toks') : \A i \in Opened' : i < k => i <= toks'[k].parent
  BY <1>1, <1>4
<1>8. Nested'
  BY <1>5, <1>6, <1>7 DEF Nested
<1> QED
  BY <1>1, <1>3, <1>8, <1>2

\* Steps that leave the tokens alone.
LEMMA NestedSame ==
  ASSUME Nested, UNCHANGED toks,
         \A i \in Opened : i <= toksuper' /\ (pc' = "climb" => i <= at'),
         pc' # "done" => ret' = "none"
  PROVE  Nested' /\ Opened' = Opened
<1>1. Opened' = Opened
  BY DEF Opened, IsOpen
<1> QED
  BY <1>1 DEF Nested

-----------------------------------------------------------------------------
\* The stack of Brackets is left alone, or a verdict is given between braces.
Quiet == UNCHANGED <<Stack, Closer, ret>>
Step  == Nested' /\ (Matching!Next \/ Quiet)

LEMMA QuietStep ==
  ASSUME Nested, UNCHANGED <<toks, ret>>, pc # "climb", pc' # "climb", pc # "done",
         \A i \in Opened : i <= toksuper'
  PROVE  Step
<1>1. Nested' /\ Opened' = Opened
  BY NestedSame DEF Nested
<1>2. Stack' = Stack /\ Closer = "none" /\ Closer' = "none"
  BY <1>1 DEF Stack, Closer
<1> QED
  BY <1>1, <1>2 DEF Step, Quiet

LEMMA RefuseStep ==
  ASSUME Nested, NEW r \in {"INVAL", "NOMEM", "PART"}, Return(r), pc # "climb", pc # "done"
  PROVE  Step
<1>1. UNCHANGED <<toks, toksuper, at>> /\ pc' = "done" /\ ret' = r /\ ret = "none"
  BY DEF Return, tokenVars, Nested
<1>2. Nested' /\ Opened' = Opened
  BY <1>1, NestedSame DEF Nested
<1>3. Stack' = Stack /\ Closer = "none" /\ Closer' = "none"
  BY <1>1, <1>2 DEF Stack, Closer
<1>4. Matching!Refuse
  BY <1>1, <1>3 DEF Matching!Refuse
<1> QED
  BY <1>2, <1>4 DEF Step, Matching!Next

LEMMA FoundStep ==
  ASSUME IInv, Nested, NEW type \in {"string", "primitive"}, NEW from \in 0..Len(js), NEW next,
         Found(type, from, next), pc # "climb", pc # "done"
  PROVE  Step
<1>1. CASE Full
  BY <1>1, RefuseStep DEF Found, Fail
<1>2. CASE ~Full
  <2> DEFINE tok == Token(type, from, pos)
  <2>1. Alloc(tok) /\ pc' = "next" /\ UNCHANGED <<toksuper, ret>> /\ ret = "none"
    BY <1>2 DEF Found, Nested
  <2>2. tok \in TokenType /\ tok.parent = toksuper /\ tok.end # -1
    BY <1>2, RoomAssumption DEF Token, TokenType, IInv, TypeOK, Full
  <2> HIDE DEF tok
  <2>3. Nested' /\ Opened' = Opened /\ \A i \in Opened : toks'[i].type = toks[i].type
    BY <2>1, <2>2, NestedNew
  <2>4. Stack' = Stack
    BY <2>3 DEF Stack
  <2>5. Closer = "none" /\ Closer' = "none"
    BY <2>1 DEF Closer
  <2> QED
    BY <2>1, <2>3, <2>4, <2>5 DEF Step, Quiet
<1> QED
  BY <1>1, <1>2

LEMMA OpeningStep ==
  ASSUME IInv, Nested, Opening
  PROVE  Step
<1>0. pc = "next" /\ Char # End
  BY DEF Opening, End
<1>1. CASE Full
  BY <1>0, <1>1, RefuseStep DEF Opening
<1>2. CASE ~Full
  <2> DEFINE type == IF Char = "{" THEN "object" ELSE "array"
             tok  == Token(type, pos, -1)
             n    == Len(toks)
  <2>1. Alloc(tok) /\ toksuper' = n + 1 /\ UNCHANGED <<pc, ret>> /\ ret = "none"
    BY <1>0, <1>2 DEF Opening, Nested
  <2>2. tok \in TokenType /\ tok.parent = toksuper /\ tok.end = -1 /\ tok.type = type
    <3>1. pos \in 0..Len(js) /\ toksuper \in 0..NumTokens
      BY <1>2, RoomAssumption DEF IInv, TypeOK, Full
    <3> QED
      BY <3>1 DEF Token, TokenType, IInv, TypeOK
  <2>3. type \in {"object", "array"} /\ n \in Nat
    BY LenProperties DEF IInv, TypeOK
  <2> HIDE DEF tok, type
  <2>4. /\ Nested' /\ Opened' = Opened \cup {n + 1}
        /\ \A i \in Opened : toks'[i].type = toks[i].type
    BY <1>0, <2>1, <2>2, <2>3, NestedNew
  <2>5. toks'[n + 1].type = tok.type
    BY <2>1, <2>2, AllocatedBehind DEF IInv
  <2>6. Stack' = Stack \cup {<<n + 1, type>>}
    BY <2>2, <2>4, <2>5 DEF Stack
  <2>7. \A y \in Stack : y[1] < n + 1
    BY <2>3 DEF Stack, Opened
  <2>8. Matching!Push
    <3> DEFINE x == <<n + 1, type>>
    <3>1. x \in Stack' /\ Stack' = Stack \cup {x} /\ x[2] \in Matching!Type /\ \A y \in Stack : y[1] < x[1]
      BY <2>3, <2>6, <2>7 DEF Matching!Type
    <3>2. Closer = "none" /\ Closer' = "none"
      BY <1>0, <2>1 DEF Closer
    <3> HIDE DEF x
    <3> QED
      BY <2>1, <3>1, <3>2 DEF Matching!Push
  <2> QED
    BY <2>4, <2>8 DEF Step, Matching!Next
<1> QED
  BY <1>1, <1>2

LEMMA ClosingStep ==
  ASSUME IInv, Nested, Closing
  PROVE  Step
<1>0. CASE toks = <<>>
  BY <1>0, RefuseStep DEF Closing
<1> SUFFICES ASSUME toks # <<>> PROVE Step
  BY <1>0
<1>1. /\ pc = "next" /\ pc' = "climb" /\ at' = Len(toks) /\ ret = "none"
      /\ UNCHANGED <<js, pos, toks, toksuper, ret>>
  BY DEF Closing, Nested
<1>2. Nested' /\ Opened' = Opened
  BY <1>1, NestedSame DEF Nested, Opened
<1>3. Stack' = Stack /\ Closer = "none" /\ Closer' \in {"object", "array"}
  BY <1>1, <1>2 DEF Stack, Closer
<1>4. Matching!Come
  BY <1>1, <1>3 DEF Matching!Come, Matching!Type
<1> QED
  BY <1>2, <1>4 DEF Step, Matching!Next

\* The token found is the last one open.
LEMMA ClimbStep ==
  ASSUME IInv, Nested, Climb
  PROVE  Step
<1> DEFINE x == <<at, toks[at].type>>
<1>1. pc = "climb" /\ at \in 1..Len(toks) /\ Len(toks) \in Nat /\ ret = "none" /\ Closer \in {"object", "array"}
  BY LenProperties DEF Climb, IInv, TypeOK, Loops, Nested, Closer
<1>2. \A i \in Opened : i <= at
  BY <1>1 DEF Nested
<1>3. IsOpen(at) => at \in Opened /\ x \in Stack /\ Matching!Top(x)
  <2> SUFFICES ASSUME IsOpen(at) PROVE at \in Opened /\ x \in Stack /\ Matching!Top(x)
    OBVIOUS
  <2>1. at \in Opened
    BY <1>1 DEF Opened
  <2>2. x \in Stack
    BY <2>1 DEF Stack
  <2>3. \A y \in Stack : y[1] <= at
    BY <1>2 DEF Stack
  <2> QED
    BY <2>1, <2>2, <2>3 DEF Matching!Top
<1>4. Fits(at) <=> toks[at].type = Closer
  BY <1>1 DEF Fits, Closer
<1>5. CASE IsOpen(at) /\ ~Fits(at)
  <2>1. Return("INVAL")
    BY <1>5 DEF Climb
  <2>2. UNCHANGED <<toks, toksuper, at>> /\ pc' = "done" /\ ret' = "INVAL"
    BY <2>1 DEF Return, tokenVars
  <2>3. Nested' /\ Opened' = Opened
    BY <2>2, NestedSame DEF Nested
  <2>4. Stack' = Stack /\ Closer' = "none"
    BY <2>2, <2>3 DEF Stack, Closer
  <2>5. x \in Stack /\ Matching!Top(x) /\ x[2] # Closer
    BY <1>3, <1>4, <1>5
  <2> HIDE DEF x
  <2>6. Matching!Mismatch
    BY <1>1, <2>2, <2>4, <2>5 DEF Matching!Mismatch
  <2> QED
    BY <2>3, <2>6 DEF Step, Matching!Next
<1>6. CASE IsOpen(at) /\ Fits(at)
  <2>1. /\ toks' = [toks EXCEPT ![at].end = pos + 1] /\ toksuper' = toks[at].parent
        /\ pc' = "next" /\ ret' = ret
    BY <1>6 DEF Climb, Above
  <2>2. toks \in Seq(TokenType) /\ toks[at] \in TokenType /\ pos \in Nat
    BY <1>1, ElementType DEF IInv, TypeOK
  <2>3. /\ Len(toks') = Len(toks)
        /\ \A i \in 1..Len(toks) : /\ toks'[i].parent = toks[i].parent /\ toks'[i].type = toks[i].type
                                   /\ toks'[i].end = IF i = at THEN pos + 1 ELSE toks[i].end
    <3> DEFINE e == [toks[at] EXCEPT !.end = pos + 1]
    <3>1. e.parent = toks[at].parent /\ e.type = toks[at].type /\ e.end = pos + 1
      BY <2>2 DEF TokenType
    <3>2. toks' = [toks EXCEPT ![at] = e]
      BY <2>1
    <3> HIDE DEF e
    <3> QED
      BY <1>1, <2>2, <3>1, <3>2
  <2>4. Opened' = Opened \ {at}
    BY <1>1, <2>2, <2>3 DEF Opened, IsOpen
  <2>5. Stack' = Stack \ {x}
    BY <2>3, <2>4 DEF Stack, Opened
  <2>6. Nested'
    <3>1. \A i \in Opened' : i \in Opened /\ i < at
      BY <1>1, <1>2, <2>4 DEF Opened
    <3>2. \A i \in Opened' : i <= toksuper'
      BY <1>1, <2>1, <3>1 DEF Nested
    <3>3. \A k \in 1..Len(toks') : \A i \in Opened' : i < k => i <= toks'[k].parent
      BY <2>3, <3>1 DEF Nested
    <3>4. \A i \in Opened' : toks'[i].type \in {"object", "array"}
      BY <2>3, <3>1 DEF Nested, Opened
    <3> QED
      BY <1>1, <2>1, <3>2, <3>3, <3>4 DEF Nested
  <2>7. x \in Stack /\ Matching!Top(x) /\ x[2] = Closer
    BY <1>3, <1>4, <1>6
  <2>8. Closer' = "none"
    BY <2>1 DEF Closer
  <2> HIDE DEF x
  <2>9. Matching!Pop
    BY <1>1, <2>1, <2>5, <2>7, <2>8 DEF Matching!Pop
  <2> QED
    BY <2>6, <2>9 DEF Step, Matching!Next
<1>7. ASSUME ~IsOpen(at) PROVE \A i \in Opened : i <= toks[at].parent
  <2>1. \A i \in Opened : i # at
    BY <1>7 DEF Opened
  <2> QED
    BY <1>1, <1>2, <2>1 DEF Nested, Opened
<1>8. CASE ~IsOpen(at) /\ Above(at) = 0
  <2>1. Stack = {}
    <3>1. \A i \in Opened : i <= 0 /\ i \in 1..Len(toks)
      BY <1>7, <1>8 DEF Above, Opened
    <3> QED
      BY <3>1 DEF Stack
  <2>2. pc' = "next" /\ UNCHANGED <<toks, toksuper, at, ret>>
    BY <1>8 DEF Climb, tokenVars
  <2>3. Nested' /\ Opened' = Opened
    BY <1>1, <2>2, NestedSame DEF Nested
  <2>4. Stack' = Stack /\ Closer' = "none"
    BY <2>2, <2>3 DEF Stack, Closer
  <2>5. Matching!Overlook
    BY <1>1, <2>1, <2>2, <2>4 DEF Matching!Overlook
  <2> QED
    BY <2>3, <2>5 DEF Step, Matching!Next
<1>9. CASE ~IsOpen(at) /\ Above(at) # 0
  <2>1. at' = toks[at].parent /\ UNCHANGED <<js, pc, pos, toks, toksuper, ret>>
    BY <1>9 DEF Climb, Above
  <2>2. Nested' /\ Opened' = Opened
    BY <1>1, <1>7, <1>9, <2>1, NestedSame DEF Nested
  <2>3. Stack' = Stack /\ Closer' = Closer
    <3>1. Char' = Char
      BY <2>1 DEF Char, AtEnd
    <3> QED
      BY <2>1, <2>2, <3>1 DEF Stack, Closer
  <2> QED
    BY <2>1, <2>2, <2>3 DEF Step, Quiet
<1> QED
  BY <1>5, <1>6, <1>8, <1>9

\* After a comma the tokens that are open are still among toksuper and those in front.
LEMMA CommaStep ==
  ASSUME IInv, Nested, Comma
  PROVE  Step
<1>1. pc = "next" /\ UNCHANGED <<toks, pc, ret>>
  BY DEF Comma
<1>2. CASE toksuper = 0 \/ toks = <<>>
  <2>1. Opened = {}
    <3>1. \A i \in Opened : i <= toksuper /\ i \in 1..Len(toks)
      BY DEF Nested, Opened
    <3>2. toks = <<>> => Len(toks) = 0
      OBVIOUS
    <3> QED
      BY <1>2, <3>1, <3>2
  <2> QED
    BY <1>1, <2>1, QuietStep
<1>3. CASE toksuper # 0 /\ toks # <<>>
  <2>1. toksuper \in 1..Len(toks) /\ \A i \in Opened : i <= toksuper /\ i \in 1..Len(toks)
    <3>1. Len(toks) \in Nat /\ Len(toks) # 0
      BY <1>3, Lengths, EmptySeq
    <3> QED
      BY <1>3, <3>1 DEF IInv, TypeOK, Nested, Opened
  <2>2. CASE toks[toksuper].type \in {"object", "array"}
    BY <1>1, <1>3, <2>1, <2>2, QuietStep DEF Comma
  <2>3. CASE toks[toksuper].type \notin {"object", "array"}
    <3>1. toksuper \notin Opened
      BY <2>3 DEF Nested
    <3>2. \A i \in Opened : i <= toks[toksuper].parent
      BY <2>1, <3>1 DEF Nested
    <3>3. toksuper' = toks[toksuper].parent
      BY <1>3, <2>3 DEF Comma
    <3> QED
      BY <1>1, <3>2, <3>3, QuietStep
  <2> QED
    BY <2>2, <2>3
<1> QED
  BY <1>2, <1>3

LEMMA EndStep ==
  ASSUME IInv, Nested, EndOfText
  PROVE  Step
<1>1. pc = "next" /\ ret = "none"
  BY DEF EndOfText, Nested
<1>2. CASE Unclosed
  BY <1>1, <1>2, RefuseStep DEF EndOfText
<1>3. CASE ~Unclosed
  <2>1. Opened = {}
    BY <1>3 DEF Unclosed, Opened
  <2>2. UNCHANGED <<toks, toksuper, at>> /\ pc' = "done" /\ ret' = "good"
    BY <1>3 DEF EndOfText, Return, tokenVars
  <2>3. Nested' /\ Opened' = Opened
    BY <2>1, <2>2, NestedSame DEF Nested
  <2>4. Stack = {} /\ Stack' = {} /\ Closer = "none" /\ Closer' = "none"
    BY <1>1, <2>1, <2>2, <2>3 DEF Stack, Closer
  <2>5. Matching!Accept
    BY <1>1, <2>2, <2>4 DEF Matching!Accept
  <2> QED
    BY <2>3, <2>5 DEF Step, Matching!Next
<1> QED
  BY <1>2, <1>3

LEMMA Steps ==
  ASSUME IInv, Nested, [Next]_vars
  PROVE  Step
<1>0. \A i \in Opened : i <= toksuper /\ i <= Len(toks)
  BY DEF Nested, Opened
<1>1. CASE Begin
  BY <1>0, <1>1, QuietStep DEF Begin, tokenVars
<1>2. CASE Blank
  BY <1>0, <1>2, QuietStep DEF Blank, tokenVars
<1>3. CASE Colon
  BY <1>0, <1>3, QuietStep DEF Colon
<1>4. CASE InPrimitive
  <2>1. CASE Found("primitive", start, pos)
    BY <1>4, <2>1, FoundStep DEF InPrimitive, IInv, TypeOK
  <2>2. CASE Fail("INVAL")
    BY <1>4, <2>2, RefuseStep DEF InPrimitive, Fail
  <2>3. CASE UNCHANGED <<js, pc, start, digits, tokenVars, ret>>
    BY <1>0, <1>4, <2>3, QuietStep DEF InPrimitive, tokenVars
  <2> QED
    BY <1>4, <2>1, <2>2, <2>3 DEF InPrimitive
<1>5. CASE InString
  <2>1. CASE ~AtEnd /\ Found("string", start + 1, pos + 1)
    <3>1. start + 1 \in 0..Len(js)
      <4>1. start < pos
        BY <1>5 DEF InString, IInv, Loops
      <4>2. start \in 0..Len(js) /\ pos \in 0..Len(js) /\ Len(js) \in Nat
        BY Lengths DEF IInv, TypeOK
      <4> QED
        BY <4>1, <4>2
    <3> QED
      BY <1>5, <2>1, <3>1, FoundStep DEF InString
  <2>2. CASE Fail("PART")
    BY <1>5, <2>2, RefuseStep DEF InString, Fail
  <2>3. CASE pc' \in {"escape", "string"} /\ UNCHANGED <<js, start, digits, tokenVars, ret>>
    BY <1>0, <1>5, <2>3, QuietStep DEF InString, tokenVars
  <2> QED
    BY <1>5, <2>1, <2>2, <2>3 DEF InString, Char, End
<1>6. CASE InEscape
  <2>1. CASE Fail("INVAL")
    BY <1>6, <2>1, RefuseStep DEF InEscape, Fail
  <2>2. CASE pc' \in {"string", "hex"} /\ UNCHANGED <<js, start, tokenVars, ret>>
    BY <1>0, <1>6, <2>2, QuietStep DEF InEscape, tokenVars
  <2> QED
    BY <1>6, <2>1, <2>2 DEF InEscape
<1>7. CASE InHex
  <2>1. CASE Fail("INVAL")
    BY <1>7, <2>1, RefuseStep DEF InHex, Fail
  <2>2. CASE pc' \in {"string", "hex"} /\ UNCHANGED <<js, start, tokenVars, ret>>
    BY <1>0, <1>7, <2>2, QuietStep DEF InHex, tokenVars
  <2> QED
    BY <1>7, <2>1, <2>2 DEF InHex
<1>8. CASE UNCHANGED vars
  <2>1. UNCHANGED <<js, pc, pos, toks, toksuper, at, ret>>
    BY <1>8 DEF vars, tokenVars
  <2>2. Nested' /\ Opened' = Opened
    BY <2>1, NestedSame DEF Nested
  <2>3. Char' = Char
    BY <2>1 DEF Char, AtEnd
  <2>4. Quiet
    BY <2>1, <2>2, <2>3 DEF Quiet, Stack, Closer
  <2> QED
    BY <2>2, <2>4 DEF Step
<1> QED
  BY <1>1, <1>2, <1>3, <1>4, <1>5, <1>6, <1>7, <1>8,
     OpeningStep, ClosingStep, ClimbStep, CommaStep, EndStep DEF Next, Parse, Terminated

(* For every text and number of tokens there is room for, jsmn_parse with  *)
(* its parent links does what a stack of brackets would: a closing one is  *)
(* compared with the last one open, overlooked when there is none, and no  *)
(* text passes with one left open.                                         *)
THEOREM MatchesAsStack == Spec => MatchesBrackets
<1>1. Init => Nested /\ Matching!Init
  BY DEF Init, Nested, Matching!Init, Stack, Opened, Closer
<1>2. IInv /\ Nested /\ [Next]_vars => Nested' /\ [Matching!Next]_<<Stack, Closer, ret>>
  BY Steps DEF Step, Quiet
<1> QED
  BY <1>1, <1>2, Always, PTL DEF Spec, MatchesBrackets, Matching!Spec

-----------------------------------------------------------------------------
(* The extents of the tokens.                                              *)

InText == \A i \in 1..Len(toks) :
            /\ toks[i].start < Taken
            /\ ~IsOpen(i) => toks[i].start <= toks[i].end /\ toks[i].end <= Taken
Apart  == \A j \in 1..Len(toks) : \A i \in 1..(j - 1) :
            /\ toks[i].start < toks[j].start
            /\ \/ IsOpen(i)
               \/ toks[i].end <= toks[j].start
               \/ ~IsOpen(j) /\ toks[j].end <= toks[i].end
\* A primitive has a first character, and all tokens are closed in the end.
Begun  == pc = "primitive" /\ pos = start => Char \notin Stops \cup {End}
Ended  == ret = "good" => Opened = {}
Extents == InText /\ Apart /\ Begun /\ Ended

LEMMA TokenPlaces ==
  ASSUME IInv
  PROVE  /\ Len(toks) \in Nat /\ Len(js) \in Nat /\ pos \in Nat /\ start \in Nat /\ Taken \in Nat
         /\ \A i \in 1..Len(toks) : toks[i].start \in Nat /\ toks[i].end \in Int
<1>1. Len(toks) \in Nat /\ Len(js) \in Nat /\ toks \in Seq(TokenType)
  BY Lengths
<1>2. pos \in Nat /\ start \in Nat
  BY <1>1 DEF IInv, TypeOK
<1>3. ASSUME NEW i \in 1..Len(toks) PROVE toks[i].start \in Nat /\ toks[i].end \in Int
  <2>1. toks[i] \in TokenType
    BY <1>1, ElementType
  <2> QED
    BY SMTT(30), <1>1, <2>1 DEF TokenType
<1> QED
  BY <1>1, <1>2, <1>3 DEF Taken

\* A step that leaves the tokens alone and goes back behind none.
LEMMA ExtentsSame ==
  ASSUME IInv, Extents, UNCHANGED toks, Taken' \in Nat, Taken <= Taken', Begun', Ended'
  PROVE  Extents'
<1>1. \A i \in 1..Len(toks) : IsOpen(i)' <=> IsOpen(i)
  BY DEF IsOpen
<1>2. InText'
  BY <1>1, TokenPlaces DEF Extents, InText
<1>3. Apart'
  BY <1>1 DEF Extents, Apart
<1> QED
  BY <1>2, <1>3 DEF Extents

\* A new token stands behind what has been taken.
LEMMA ExtentsNew ==
  ASSUME IInv, Extents, NEW tok \in TokenType, Alloc(tok), tok.start \in Nat, tok.end \in Int,
         Taken' \in Nat, Taken <= tok.start, tok.start < Taken',
         tok.end = -1 \/ (tok.start <= tok.end /\ tok.end <= Taken'),
         Begun', Ended'
  PROVE  Extents'
<1> DEFINE n == Len(toks)
<1>1. /\ Len(toks') = n + 1 /\ n \in Nat /\ toks'[n + 1].start = tok.start /\ toks'[n + 1].end = tok.end
      /\ \A i \in 1..n : toks'[i].start = toks[i].start /\ toks'[i].end = toks[i].end
  BY AllocatedBehind DEF IInv
<1>2. Taken \in Nat /\ \A i \in 1..n : toks[i].start \in Nat /\ toks[i].end \in Int
  BY TokenPlaces
<1>3. InText'
  <2>1. ASSUME NEW i \in 1..n
        PROVE  /\ toks'[i].start < Taken'
               /\ toks'[i].end # -1 => toks'[i].start <= toks'[i].end /\ toks'[i].end <= Taken'
    <3>1. /\ toks[i].start < Taken
          /\ toks[i].end # -1 => toks[i].start <= toks[i].end /\ toks[i].end <= Taken
      BY <1>1 DEF Extents, InText, IsOpen
    <3>2. toks'[i].start = toks[i].start /\ toks'[i].end = toks[i].end
      BY <1>1
    <3> HIDE DEF n
    <3> QED
      BY <1>2, <3>1, <3>2
  <2>2. /\ tok.start < Taken'
        /\ tok.end # -1 => tok.start <= tok.end /\ tok.end <= Taken'
    OBVIOUS
  <2>3. \A i \in 1..(n + 1) : i \in 1..n \/ i = n + 1
    BY <1>1
  <2> QED
    BY <1>1, <2>1, <2>2, <2>3 DEF InText, IsOpen
<1>4. Apart'
  <2>1. ASSUME NEW j \in 1..n, NEW i \in 1..(j - 1)
        PROVE  /\ toks'[i].start < toks'[j].start
               /\ \/ toks'[i].end = -1
                  \/ toks'[i].end <= toks'[j].start
                  \/ toks'[j].end # -1 /\ toks'[j].end <= toks'[i].end
    <3>1. i \in 1..n
      BY <1>1
    <3> QED
      BY <1>1, <3>1 DEF Extents, Apart, IsOpen
  <2>2. ASSUME NEW i \in 1..n
        PROVE  toks'[i].start < tok.start /\ (toks'[i].end = -1 \/ toks'[i].end <= tok.start)
    <3>1. toks[i].start < Taken /\ (toks[i].end = -1 \/ toks[i].end <= Taken)
      BY <1>1 DEF Extents, InText, IsOpen
    <3>2. toks'[i].start = toks[i].start /\ toks'[i].end = toks[i].end
      BY <1>1
    <3> HIDE DEF n
    <3> QED
      BY <1>2, <3>1, <3>2
  <2>3. \A j \in 1..(n + 1) : j \in 1..n \/ (j = n + 1 /\ 1..(j - 1) = 1..n)
    BY <1>1
  <2> QED
    BY <1>1, <2>1, <2>2, <2>3 DEF Apart, IsOpen
<1> QED
  BY <1>3, <1>4 DEF Extents

\* Found a string or a primitive.
LEMMA ExtentsFound ==
  ASSUME IInv, Nested, Extents, NEW type \in {"string", "primitive"}, NEW from \in 0..Len(js), NEW next \in Nat,
         Found(type, from, next), pc \in {"primitive", "string"},
         start <= from, from <= pos, from < next, pos <= next
  PROVE  Extents'
<1>0. TypeOK /\ pos \in Nat /\ start \in Nat /\ Taken = start /\ from \in Nat /\ ret = "none"
  BY TokenPlaces DEF IInv, Taken, Nested
<1>1. CASE Full
  <2>1. UNCHANGED toks /\ pc' = "done" /\ ret' = "NOMEM" /\ pos' = start
    BY <1>1 DEF Found, Fail, Return, tokenVars
  <2>2. Taken' = start /\ Begun' /\ Ended'
    BY <2>1 DEF Taken, Begun, Ended
  <2> QED
    BY <1>0, <2>1, <2>2, ExtentsSame
<1>2. CASE ~Full
  <2> DEFINE tok == Token(type, from, pos)
  <2>1. Alloc(tok) /\ pc' = "next" /\ pos' = next /\ UNCHANGED ret
    BY <1>2 DEF Found
  <2>2. tok \in TokenType /\ tok.start = from /\ tok.end = pos
    BY <1>2, RoomAssumption DEF Token, TokenType, IInv, TypeOK, Full
  <2> HIDE DEF tok
  <2>3. Taken' = next /\ Begun' /\ Ended'
    BY <1>0, <2>1 DEF Taken, Begun, Ended
  <2> QED
    BY <1>0, <2>1, <2>2, <2>3, ExtentsNew
<1> QED
  BY <1>1, <1>2

LEMMA ExtentsOpening ==
  ASSUME IInv, Nested, Extents, Opening
  PROVE  Extents'
<1>0. TypeOK /\ pos \in Nat /\ pc = "next" /\ Taken = pos /\ ret = "none"
  BY TokenPlaces DEF IInv, Opening, Taken, Nested
<1>1. CASE Full
  <2>1. UNCHANGED <<toks, pos>> /\ pc' = "done" /\ ret' = "NOMEM"
    BY <1>1 DEF Opening, Return, tokenVars
  <2>2. Taken' = pos /\ Begun' /\ Ended'
    BY <2>1 DEF Taken, Begun, Ended
  <2> QED
    BY <1>0, <2>1, <2>2, ExtentsSame
<1>2. CASE ~Full
  <2> DEFINE type == IF Char = "{" THEN "object" ELSE "array"
             tok  == Token(type, pos, -1)
  <2>1. Alloc(tok) /\ UNCHANGED <<pc, ret>> /\ pos' = pos + 1
    BY <1>2 DEF Opening
  <2>2. tok \in TokenType /\ tok.start = pos /\ tok.end = -1
    <3>1. pos \in 0..Len(js) /\ toksuper \in 0..NumTokens
      BY <1>2, RoomAssumption DEF IInv, TypeOK, Full
    <3> QED
      BY <3>1 DEF Token, TokenType, IInv, TypeOK
  <2> HIDE DEF tok, type
  <2>3. Taken' = pos + 1 /\ Begun' /\ Ended'
    BY <1>0, <2>1 DEF Taken, Begun, Ended
  <2> QED
    BY <1>0, <2>1, <2>2, <2>3, ExtentsNew
<1> QED
  BY <1>1, <1>2

\* The tokens behind the one that is closed are closed already.
LEMMA ExtentsClosed ==
  ASSUME IInv, Nested, Extents, Climb, IsOpen(at), Fits(at)
  PROVE  Extents'
<1>1. /\ pc = "climb" /\ at \in 1..Len(toks) /\ ret = "none"
      /\ toks' = [toks EXCEPT ![at].end = pos + 1] /\ pc' = "next" /\ pos' = pos + 1 /\ ret' = ret
  BY LenProperties DEF Climb, IInv, TypeOK, Loops, Nested
<1>2. /\ Len(toks) \in Nat /\ pos \in Nat /\ Taken = pos /\ Taken' = pos + 1
      /\ \A i \in 1..Len(toks) : toks[i].start \in Nat /\ toks[i].end \in Int
  BY <1>1, TokenPlaces DEF Taken
<1>3. /\ Len(toks') = Len(toks)
      /\ \A i \in 1..Len(toks) : /\ toks'[i].start = toks[i].start
                                 /\ toks'[i].end = IF i = at THEN pos + 1 ELSE toks[i].end
  <2>1. toks \in Seq(TokenType) /\ toks[at] \in TokenType
    BY <1>1, ElementType DEF IInv, TypeOK
  <2> DEFINE e == [toks[at] EXCEPT !.end = pos + 1]
  <2>2. e.start = toks[at].start /\ e.end = pos + 1
    BY <2>1 DEF TokenType
  <2>3. toks' = [toks EXCEPT ![at] = e]
    BY <1>1
  <2> HIDE DEF e
  <2> QED
    BY <1>1, <2>1, <2>2, <2>3
<1>4. \A i \in 1..Len(toks) : i > at => toks[i].end # -1
  <2>1. \A i \in Opened : i <= at
    BY <1>1 DEF Nested
  <2> QED
    BY <1>1, <1>2, <2>1 DEF Opened, IsOpen
<1>5. InText'
  BY <1>2, <1>3 DEF Extents, InText, IsOpen
<1>6. Apart'
  <2> SUFFICES ASSUME NEW j \in 1..Len(toks), NEW i \in 1..(j - 1)
               PROVE  /\ toks'[i].start < toks'[j].start
                      /\ \/ toks'[i].end = -1
                         \/ toks'[i].end <= toks'[j].start
                         \/ toks'[j].end # -1 /\ toks'[j].end <= toks'[i].end
    BY <1>3 DEF Apart, IsOpen
  <2>1. i \in 1..Len(toks) /\ i # j /\ i < j
    BY <1>2
  <2>2. /\ toks[i].start < toks[j].start
        /\ \/ toks[i].end = -1
           \/ toks[i].end <= toks[j].start
           \/ toks[j].end # -1 /\ toks[j].end <= toks[i].end
    BY DEF Extents, Apart, IsOpen
  <2>3. CASE i = at
    <3>1. toks[j].end # -1 /\ toks[j].end <= pos
      BY <1>2, <1>4, <2>1, <2>3 DEF Extents, InText, IsOpen
    <3> QED
      BY <1>2, <1>3, <2>1, <2>2, <2>3, <3>1
  <2>4. CASE j = at
    <3>1. toks[j].end = -1
      BY <2>4 DEF IsOpen
    <3> QED
      BY <1>2, <1>3, <2>1, <2>2, <2>4, <3>1
  <2>5. CASE i # at /\ j # at
    BY <1>3, <2>1, <2>2, <2>5
  <2> QED
    BY <2>3, <2>4, <2>5
<1>7. Begun' /\ Ended'
  BY <1>1 DEF Begun, Ended
<1> QED
  BY <1>5, <1>6, <1>7 DEF Extents

LEMMA ExtentsStep ==
  ASSUME IInv, Nested, Extents, [Next]_vars
  PROVE  Extents'
<1>0. TypeOK /\ pos \in Nat /\ start \in Nat /\ Len(js) \in Nat
  BY TokenPlaces DEF IInv
<1>1. ASSUME pc \notin {"primitive", "string", "escape", "hex"}, UNCHANGED <<toks, ret>>,
             pc' \in {"next", "climb"}, pos' \in {pos, pos + 1}
      PROVE  Extents'
  <2>1. Taken = pos /\ Taken' = pos' /\ Begun'
    BY <1>1 DEF Taken, Begun
  <2>2. Ended'
    BY <1>1 DEF Extents, Ended, Opened, IsOpen
  <2> QED
    BY <1>0, <1>1, <2>1, <2>2, ExtentsSame
<1>2. ASSUME NEW r \in {"INVAL", "PART", "NOMEM"}, Return(r), pos' = Taken
      PROVE  Extents'
  <2>1. UNCHANGED toks /\ pc' = "done" /\ ret' = r
    BY <1>2 DEF Return, tokenVars
  <2>2. Taken' = Taken /\ Begun' /\ Ended'
    BY <1>2, <2>1 DEF Taken, Begun, Ended
  <2> QED
    BY <2>1, <2>2, TokenPlaces, ExtentsSame
<1>3. ASSUME pc \in {"primitive", "string", "escape", "hex"}, UNCHANGED <<toks, ret, start>>,
             pc' \in {"primitive", "string", "escape", "hex"}, Begun'
      PROVE  Extents'
  <2>1. Taken = start /\ Taken' = start
    BY <1>3 DEF Taken
  <2>2. Ended'
    BY <1>3 DEF Extents, Ended, Opened, IsOpen
  <2> QED
    BY <1>0, <1>3, <2>1, <2>2, ExtentsSame
<1>4. CASE Opening
  BY <1>4, ExtentsOpening
<1>5. CASE Closing \/ Blank \/ Colon \/ Comma
  <2>0. CASE Closing /\ toks = <<>>
    BY <1>2, <2>0 DEF Closing, Taken
  <2>1. Closing => toks = <<>> \/ (pc = "next" /\ UNCHANGED <<toks, ret>> /\ pc' = "climb" /\ pos' = pos)
    BY DEF Closing
  <2>2. Blank => pc = "next" /\ UNCHANGED <<toks, ret>> /\ pc' = pc /\ pos' = pos + 1
    BY DEF Blank, tokenVars
  <2>3. Colon => pc = "next" /\ UNCHANGED <<toks, ret>> /\ pc' = pc /\ pos' = pos + 1
    BY DEF Colon
  <2>4. Comma => pc = "next" /\ UNCHANGED <<toks, ret>> /\ pc' = pc /\ pos' = pos + 1
    BY DEF Comma
  <2> QED
    BY <1>1, <1>5, <2>0, <2>1, <2>2, <2>3, <2>4
<1>6. CASE Climb
  <2>1. pc = "climb" /\ Taken = pos
    BY <1>6 DEF Climb, Taken
  <2>2. CASE IsOpen(at) /\ ~Fits(at)
    BY <1>2, <1>6, <2>1, <2>2 DEF Climb
  <2>3. CASE IsOpen(at) /\ Fits(at)
    BY <1>6, <2>3, ExtentsClosed
  <2>4. CASE ~IsOpen(at)
    BY <1>1, <1>6, <2>1, <2>4 DEF Climb, tokenVars
  <2> QED
    BY <2>2, <2>3, <2>4
<1>7. CASE Begin
  <2>1. /\ pc = "next" /\ pc' \in {"string", "primitive"} /\ start' = pos /\ UNCHANGED <<js, toks, ret>>
        /\ pc' = "primitive" => pos' = pos /\ Char \notin Stops \cup {End}
    BY <1>7 DEF Begin, tokenVars
  <2>2. Taken = pos /\ Taken' = pos
    BY <2>1 DEF Taken
  <2>3. Begun'
    BY <2>1 DEF Begun, Char, AtEnd
  <2>4. Ended'
    BY <2>1 DEF Extents, Ended, Opened, IsOpen
  <2> QED
    BY <1>0, <2>1, <2>2, <2>3, <2>4, ExtentsSame
<1>8. CASE InPrimitive
  <2>1. pc = "primitive" /\ Taken = start /\ start <= pos
    BY <1>8 DEF InPrimitive, Taken, IInv, Loops
  <2>2. CASE Char \in Stops \cup {End} /\ Found("primitive", start, pos)
    <3>1. start # pos /\ start \in 0..Len(js)
      BY <2>1, <2>2 DEF Extents, Begun, TypeOK, IInv
    <3>2. start < pos /\ pos <= pos /\ start <= start
      BY <1>0, <2>1, <3>1
    <3> QED
      BY <1>0, <2>1, <2>2, <3>1, <3>2, ExtentsFound
  <2>3. CASE Fail("INVAL")
    BY <1>2, <2>1, <2>3 DEF Fail
  <2>4. CASE pos' = pos + 1 /\ UNCHANGED <<js, pc, start, digits, tokenVars, ret>>
    <3>1. start' # pos' /\ UNCHANGED <<toks, ret, start, pc>>
      BY <1>0, <2>1, <2>4 DEF tokenVars
    <3>2. Begun'
      BY <3>1 DEF Begun
    <3> QED
      BY <1>3, <2>1, <3>1, <3>2
  <2> QED
    BY <1>8, <2>2, <2>3, <2>4 DEF InPrimitive
<1>9. CASE InString
  <2>1. pc = "string" /\ Taken = start /\ start < pos
    BY <1>9 DEF InString, Taken, IInv, Loops
  <2>2. CASE Found("string", start + 1, pos + 1)
    <3>1. start + 1 \in 0..Len(js) /\ pos + 1 \in Nat
      BY <1>0, <2>1 DEF TypeOK
    <3>2. start <= start + 1 /\ start + 1 <= pos /\ start + 1 < pos + 1 /\ pos <= pos + 1
      BY <1>0, <2>1
    <3> QED
      BY <2>1, <2>2, <3>1, <3>2, ExtentsFound
  <2>3. CASE Fail("PART")
    BY <1>2, <2>1, <2>3 DEF Fail
  <2>4. CASE pc' \in {"escape", "string"} /\ UNCHANGED <<js, start, digits, tokenVars, ret>>
    BY <1>3, <2>1, <2>4 DEF tokenVars, Begun
  <2> QED
    BY <1>9, <2>2, <2>3, <2>4 DEF InString
<1>10. CASE InEscape \/ InHex
  <2>1. pc \in {"escape", "hex"} /\ Taken = start
    BY <1>10 DEF InEscape, InHex, Taken
  <2>2. CASE Fail("INVAL")
    BY <1>2, <2>1, <2>2 DEF Fail
  <2>3. CASE pc' \in {"string", "hex"} /\ UNCHANGED <<js, start, tokenVars, ret>>
    BY <1>3, <2>1, <2>3 DEF tokenVars, Begun
  <2>4. InEscape => Fail("INVAL") \/ (pc' \in {"string", "hex"} /\ UNCHANGED <<js, start, tokenVars, ret>>)
    BY DEF InEscape
  <2>5. InHex => Fail("INVAL") \/ (pc' \in {"string", "hex"} /\ UNCHANGED <<js, start, tokenVars, ret>>)
    BY DEF InHex
  <2> QED
    BY <1>10, <2>2, <2>3, <2>4, <2>5
<1>11. CASE EndOfText
  <2>1. pc = "next" /\ pos' = pos /\ Taken = pos
    BY <1>11 DEF EndOfText, Taken
  <2>2. CASE Unclosed
    BY <1>2, <1>11, <2>1, <2>2 DEF EndOfText
  <2>3. CASE ~Unclosed
    <3>1. UNCHANGED toks /\ pc' = "done" /\ ret' = "good"
      BY <1>11, <2>3 DEF EndOfText, Return, tokenVars
    <3>2. Opened' = {}
      BY <2>3, <3>1 DEF Unclosed, Opened, IsOpen
    <3>3. Taken' = pos /\ Begun' /\ Ended'
      BY <2>1, <3>1, <3>2 DEF Taken, Begun, Ended
    <3> QED
      BY <1>0, <2>1, <3>1, <3>3, ExtentsSame
  <2> QED
    BY <2>2, <2>3
<1>12. CASE UNCHANGED vars
  BY <1>12 DEF vars, tokenVars, Extents, InText, Apart, Begun, Ended, Taken, Opened, IsOpen, Char, AtEnd
<1> QED
  BY <1>4, <1>5, <1>6, <1>7, <1>8, <1>9, <1>10, <1>11, <1>12 DEF Next, Parse, Terminated

\* What print1 and print_data take from the buffer by its tokens.
Nests ==
  /\ \A i \in 1..Len(toks) :
       ~IsOpen(i) => /\ toks[i].start <= toks[i].end
                     /\ toks[i].end <= Len(js)
  /\ \A j \in 1..Len(toks) : \A i \in 1..(j - 1) :
       /\ toks[i].start < toks[j].start
       /\ ~IsOpen(i) => \/ toks[i].end <= toks[j].start
                        \/ ~IsOpen(j) /\ toks[j].end <= toks[i].end
  /\ ret = "good" => \A i \in 1..Len(toks) : ~IsOpen(i)

(* For every text and number of tokens there is room for, the extents of   *)
(* the tokens lie in the text, and of two of them the second starts behind *)
(* the first and either ends in it or begins behind its end.  A text that  *)
(* passes has them all closed: no byte is printed from outside of the      *)
(* text, and no field runs into the next one.                              *)
THEOREM TokensNest == Spec => []Nests
<1>1. Init => Nested /\ Extents
  BY DEF Init, Nested, Opened, Extents, InText, Apart, Begun, Ended
<1>2. IInv /\ Nested /\ Extents /\ [Next]_vars => Nested' /\ Extents'
  BY Steps, ExtentsStep DEF Step
<1>3. IInv /\ Extents => Nests
  <2> SUFFICES ASSUME IInv, Extents PROVE Nests
    OBVIOUS
  <2>1. Taken \in Nat /\ Taken <= Len(js) /\ Len(js) \in Nat
    BY TokenPlaces DEF Taken, IInv, TypeOK
  <2>2. \A i \in 1..Len(toks) :
          ~IsOpen(i) => toks[i].start <= toks[i].end /\ toks[i].end <= Len(js)
    BY <2>1, TokenPlaces DEF Extents, InText
  <2>3. \A j \in 1..Len(toks) : \A i \in 1..(j - 1) :
          /\ toks[i].start < toks[j].start
          /\ ~IsOpen(i) => \/ toks[i].end <= toks[j].start
                           \/ ~IsOpen(j) /\ toks[j].end <= toks[i].end
    BY DEF Extents, Apart
  <2>4. ret = "good" => \A i \in 1..Len(toks) : ~IsOpen(i)
    BY DEF Extents, Ended, Opened
  <2> QED
    BY <2>2, <2>3, <2>4 DEF Nests
<1> QED
  BY <1>1, <1>2, <1>3, Always, PTL DEF Spec
=============================================================================
