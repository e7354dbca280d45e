-------------------------------- MODULE Body --------------------------------
(***************************************************************************)
(* What the service sends to bsym-isin-scrape, as a sequence of symbols.   *)
(* The beacons are two symbols each, so that a chunk boundary can go       *)
(* through them.                                                           *)
(***************************************************************************)
Seqs == INSTANCE SequencesExt

Bo1   == <<"bo1">>              \* handle
Bo2   == <<"bo2">>              \*       Callback(
Eo1   == <<"eo1">>              \* )
Eo2   == <<"eo2">>              \*  ;
Noise == <<"noise">>            \* a word without beacons, braces and quotes
Comma == <<"comma">>            \* ,  in front of the answer
Open(t)   == <<"open", t>>      \* { "data": [     of an answer about t
Half(r)   == <<"half", r>>      \* the beginning of row r, { but no }
Row(r)    == <<"row", r>>       \* row r, or its end, } at the end of it
Close(t)  == <<"close", t>>     \* ] }             of an answer about t

EndsInBrace(s) == s[1] \in {"row", "close"}
HasBrace(s)    == s[1] \in {"open", "half", "row"}
=============================================================================
