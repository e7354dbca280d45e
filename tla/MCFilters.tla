------------------------------ MODULE MCFilters ------------------------------
(***************************************************************************)
(* The programs that read lines and print lines, on small inputs: meld-cfi *)
(* and the makefile's pipeline for GICS, which make class hierarchies, and *)
(* the line reader of yuck.  One of them runs.                             *)
(***************************************************************************)
EXTENDS MeldCfi, Gics, YuckReader, SequencesExt

VARIABLES program
vars == <<program, meldVars, gicsVars, yuckVars>>

\* Classes of three letters, the first of which is the category.
Cfis == {<<"E", "X", "X">>, <<"E", "V", "X">>, <<"E", "X", "R">>, <<"D", "X", "V">>}
Text(cs) == FlattenSeq([k \in 1..Len(cs) |-> cs[k] \o <<IF k = Len(cs) THEN "NL" ELSE "TAB">>])
Lines == {Text(<<c>>) : c \in Cfis} \cup {Text(<<c, d>>) : c, d \in Cfis}
         \cup {Text(<<c, <<"E", "V", "X">>, d>>) : c, d \in {<<"E", "X", "X">>, <<"E", "X", "R">>}}
         \cup {<<"NL">>, <<"E", "NL">>, <<"E", "V", "X">>,
               <<"E", "V", "TAB", "E", "X", "R", "NL">>, <<"E", "V", "X", "X", "TAB", "E", "X", "R", "NL">>}
Letters3 == {"E", "D", "X", "V", "R"}
Bytes == Letters3 \cup {"TAB", "NL", "NUL"}

\* Two sectors; above a code in a chain of codes is the one it begins with.
Chain(k) == <<<<"10", "1010", "101010", "10101010">>, <<"10", "1010", "101010", "10101020">>,
              <<"10", "1010", "101020", "10102010">>, <<"15", "1510", "151010", "15101010">>>>[k]
GicsCodes == {Chain(k)[l] : k \in 1..4, l \in 1..4}
Prefix == [c \in GicsCodes |-> IF \E k \in 1..4 : Chain(k)[1] = c THEN ""
                               ELSE CHOOSE d \in GicsCodes : \E k \in 1..4, l \in 1..3 :
                                      Chain(k)[l] = d /\ Chain(k)[l + 1] = c]
Ranked == <<"10", "1010", "101010", "10101010", "10101020", "101020", "10102010",
            "15", "1510", "151010", "15101010",
            "a", "definition", "label", "name", "subClassOf", "symbolOf", "", "en", "fr">>
RankOf == [x \in {Ranked[i] : i \in DOMAIN Ranked} |-> CHOOSE i \in DOMAIN Ranked : Ranked[i] = x]

\* The row that lists the levels ls of a chain, where those in ms have no name.
RowOf(k, ls, ms) == [code |-> [l \in 1..4 |-> IF l \in ls THEN Chain(k)[l] ELSE ""],
                     name |-> [l \in 1..4 |-> IF l \in ls \ ms THEN "n" ELSE ""]]
Defined == [code |-> <<"", "", "", "">>, name |-> <<"", "", "", "d">>]
Rows(ms) == {<<RowOf(1, 1..4, {}), Defined, RowOf(2, {4}, ms)>>,
             <<RowOf(1, 1..4, {}), RowOf(3, {3, 4}, ms), Defined>>,
             <<RowOf(1, 1..4, {}), Defined, RowOf(4, 1..4, ms), Defined>>,
             <<RowOf(4, {1}, {}), RowOf(4, {2}, {}), RowOf(4, {3, 4}, ms), RowOf(3, 1..4, {})>>,
             <<Defined>>, <<>>}
GicsTables == {<<[lang |-> "en", rows |-> en], [lang |-> "fr", rows |-> fr]>> :
                 en \in Rows({}), fr \in Rows({}) \cup Rows({3}) \cup Rows({4})}

Init == /\ program \in {"meld-cfi", "gics", "yuck"} /\ MeldInit /\ GicsInit /\ YuckInit
        /\ program # "gics" => tables = CHOOSE ts \in Tables : TRUE
Next == \/ program = "meld-cfi" /\ Meld /\ UNCHANGED <<program, gicsVars, yuckVars>>
        \/ program = "gics" /\ GicsNext /\ UNCHANGED <<program, meldVars, yuckVars>>
        \/ program = "yuck" /\ YuckNext /\ UNCHANGED <<program, meldVars, gicsVars>>
Spec == Init /\ [][Next]_vars
=============================================================================
