------------------------------ MODULE MCScrape ------------------------------
(***************************************************************************)
(* Instances of Scrape: "i" has three rows, two pages; "j" has one; "n"    *)
(* has none.                                                               *)
(***************************************************************************)
EXTENDS Scrape

Known   == [t \in {"i", "j", "n"} |-> CASE t = "i" -> 3 [] t = "j" -> 1 [] t = "n" -> 0]
InJin   == <<"i", "n", "j">>
TwoSids == <<"i", "j">>

Unwell   == {"page", "error"}
OnlyGood == {"page"}
AnyReply == {"page", "refused", "cut", "error"}
None     == {}
Semicolon == {<<"i", 1>>}
=============================================================================
