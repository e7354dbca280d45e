----------------------------- MODULE MCNameScan -----------------------------
(***************************************************************************)
(* Instance of NameScan: lines put together from the terms of quads.  The  *)
(* objects are an IRI, a literal with brackets in it and a typed literal;  *)
(* the graph labels have slashes, underscores, no colon, nothing behind    *)
(* it, more bytes than a row, or are blank nodes or missing.               *)
(***************************************************************************)
EXTENDS NameScan

Subject   == <<"<", "s", ">", " ">>
Predicate == <<"<", "p", ">", " ">>
Objects   == { <<"<", ":", "o", ">", " ">>,
               <<"#", "<", "x", ">", "#", " ">>,
               <<"#", "x", "#", "^", "<", "t", ">", " ">>,
               <<"#", "x", "#", " ">> }
Graphs    == { <<"<", ":", "a", ">">>,
               <<"<", "u", ":", "a", "/", "b", ">">>,
               <<"<", ":", "/", "/", "a", "_", ">">>,
               <<"<", "a", ">">>,
               <<"<", ":", ">">>,
               <<"<", ":", "_", "/", ">">>,
               <<"<", ":", "a", ":", "b", ":", "c", ">">>,
               <<"<", ":", "a", "_", "_", "b", "_", "_", "c", ">">>,
               <<"_", ":", "g">>,
               <<>> }

Text(s, p, o, gr) == s \o p \o o \o gr \o <<" ", ".", "LF">>

\* Quads, quads without their first two terms, and lines that are no quads.
AllQuads == { [text |-> Text(Subject, Predicate, o, gr), graph |-> gr] : o \in Objects, gr \in Graphs }
            \cup { [text |-> Text(<<>>, <<>>, o, gr), graph |-> gr] : o \in Objects, gr \in Graphs }
            \cup { [text |-> t, graph |-> <<>>] : t \in { <<"LF">>, <<">", "LF">>, <<"<", "LF">>, <<">", "<", "LF">> } }
=============================================================================
