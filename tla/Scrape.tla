------------------------------- MODULE Scrape -------------------------------
(***************************************************************************)
(* bsym-isin-scrape: main asks the service for one ISIN after the other,   *)
(* repl pages through the answer, fetch1 sends a request whose answer      *)
(* recv_cb collects, print1 prints the rows found in the buffer.           *)
(***************************************************************************)
EXTENDS RecvCb, Print1

CONSTANTS
  Sids,       \* the ISINs asked for, in order; a sequence
  LIMIT,      \* rows in an answer, 100 in the code
  Replies,    \* what may become of a request: a subset of
              \*   "page"     the answer arrives
              \*   "refused"  curl fails before anything arrives
              \*   "cut"      curl fails somewhere in the answer
              \*   "error"    a body without beacons arrives, an error page
  MaxChunk,   \* bound: symbols in a chunk
  AnyCut,     \* may chunks be cut in or behind a beacon?
  MaxBad,     \* bound: replies that are not "page"
  MaxRequests \* bound: requests sent

ASSUME SidAssumption == /\ Len(Sids) \in Nat
                        /\ \A k \in 1..Len(Sids) : Total[Sids[k]] \in Nat
ASSUME PageAssumption == /\ LIMIT \in Nat \ {0} /\ MaxBad \in Nat /\ MaxRequests \in Nat
                         /\ MaxChunk \in Nat \ {0}
                         /\ AnyCut \in BOOLEAN
                         /\ Replies \subseteq {"page", "refused", "cut", "error"}

VARIABLES
  pc,     \* "repl", "fetch", "recv", "print", "parsing" for ever, "done"
  raw,    \* --raw
  cur,    \* the argument repl is at, an index of Sids
  iitem,  \* rows printed for it
  nitem,  \* rows there are for it
  rest,   \* what has not been received of the answer
  curl,   \* does the transfer end well?
  bid,    \* requests sent
  bad,    \* replies so far that were not "page"
  calm,   \* history: has no reply been cut or an error page, and no chunk ended
          \* in a beacon or between the opening one and the brace?
  fresh,  \* history: did recv_cb wait for a beacon when the request was sent,
          \* and has no chunk of the answer ended there up to here?
  out,    \* history: what has been printed, <<index of Sids, row>>
  rcs     \* history: what repl returned for the arguments
callVars == <<raw, cur, calm>>
vars == <<pc, callVars, iitem, nitem, rest, curl, bid, bad, fresh, out, rcs, recvVars>>

sid == Sids[cur]

-----------------------------------------------------------------------------
\* The service.  Rows of t from number k on, each <<t, number>>.
Upto(t, k)  == IF k + LIMIT < Total[t] THEN k + LIMIT ELSE Total[t]
Symbols(r)  == IF r \in Tricky THEN <<Half(r), Eo1, Eo2, Row(r)>> ELSE <<Row(r)>>
Answer(t, k) ==
  <<Bo1, Bo2, Noise, Comma, Open(t)>>
    \o Seqs!FlattenSeq([j \in 1..(Upto(t, k) - k) |-> Symbols(<<t, k + j>>)])
    \o <<Close(t), Eo1, Eo2, Noise>>
ErrorPage == <<Noise, Noise>>

-----------------------------------------------------------------------------
Init == /\ RecvInit
        /\ pc = "repl" /\ raw \in BOOLEAN /\ cur = 0 /\ calm = TRUE
        /\ iitem = 0 /\ nitem = 0
        /\ rest = <<>> /\ curl = TRUE /\ bid = 0 /\ bad = 0 /\ fresh = FALSE
        /\ out = <<>> /\ rcs = <<>>

\* Variant of NextSid: the counters of the last argument go on.
NextSidCountsOn == /\ pc = "repl" /\ cur < Len(Sids)
                   /\ cur' = cur + 1
                   /\ pc' = "fetch"
                   /\ UNCHANGED <<raw, calm, iitem, nitem, rest, curl, bid, bad, fresh, out, rcs, recvVars>>
\* main calls repl for the next argument, or ends.
NextSid == /\ pc = "repl" /\ cur < Len(Sids)
           /\ cur' = cur + 1 /\ iitem' = 0 /\ nitem' = 0
           /\ pc' = "fetch"
           /\ UNCHANGED <<raw, calm, rest, curl, bid, bad, fresh, out, rcs, recvVars>>

Exit == /\ pc = "repl" /\ cur = Len(Sids)
        /\ pc' = "done"
        /\ UNCHANGED <<callVars, iitem, nitem, rest, curl, bid, bad, fresh, out, rcs, recvVars>>

\* fetch1: the request asks for the rows of sid behind iitem.
Reply(how, body, ok) == /\ how \in Replies
                        /\ rest' = body /\ curl' = ok
                        /\ calm' = (calm /\ how \in {"page", "refused"})
                        /\ fresh' = (st = "UNK" /\ how = "page")
                        /\ IF how = "page" THEN UNCHANGED bad
                                           ELSE bad < MaxBad /\ bad' = bad + 1
Fetch == /\ pc = "fetch" /\ bid < MaxRequests /\ bid' = bid + 1
         /\ LET answer == Answer(sid, iitem) IN
            \/ Reply("page", answer, TRUE)
            \/ Reply("refused", <<>>, FALSE)
            \/ Reply("error", ErrorPage, TRUE)
            \/ \E n \in 1..(Len(answer) - 1) : Reply("cut", SubSeq(answer, 1, n), FALSE)
         /\ pc' = "recv"
         /\ UNCHANGED <<raw, cur, iitem, nitem, out, rcs, recvVars>>

\* The chunk of k symbols does not end in a beacon or between the opening one and
\* the brace (in front of the brace it may end).
CleanCut(k) == k = Len(rest) \/ rest[k] \notin {Bo1, Bo2, Noise, Eo1}

\* libcurl delivers a chunk.  With --raw it goes to the standard output.
Chunk == /\ pc = "recv" /\ rest # <<>> /\ ~aborted
         /\ \E k \in 1..(IF Len(rest) < MaxChunk THEN Len(rest) ELSE MaxChunk) :
              /\ AnyCut \/ CleanCut(k)
              /\ fresh' = (fresh /\ CleanCut(k))
              /\ calm' = (calm /\ CleanCut(k))
              /\ IF raw THEN UNCHANGED recvVars ELSE recv_cb(SubSeq(rest, 1, k))
              /\ rest' = SubSeq(rest, k + 1, Len(rest))
         /\ UNCHANGED <<pc, raw, cur, iitem, nitem, curl, bid, bad, out, rcs>>

\* repl returns to main.
Return(rc) == pc' = "repl" /\ rcs' = Append(rcs, rc)

TransferFails == /\ pc = "recv" /\ rest = <<>> /\ ~curl /\ ~aborted
                 /\ Return(1)
                 /\ UNCHANGED <<callVars, iitem, nitem, rest, curl, bid, bad, fresh, out, recvVars>>

TransferEnds == /\ pc = "recv" /\ rest = <<>> /\ curl /\ ~aborted
                /\ pc' = "print"
                /\ UNCHANGED <<callVars, iitem, nitem, rest, curl, bid, bad, fresh, out, rcs, recvVars>>

\* With --raw there is nothing to print, and no second page is asked for.
PrintRaw == /\ pc = "print" /\ raw
            /\ Return(0)
            /\ UNCHANGED <<callVars, iitem, nitem, rest, curl, bid, bad, fresh, out, recvVars>>

\* "invalid json data"
PrintInvalid == /\ pc = "print" /\ ~raw /\ ~Valid(buf)
                /\ Return(1)
                /\ UNCHANGED <<callVars, iitem, nitem, rest, curl, bid, bad, fresh, out, recvVars>>

\* Variant of More: one page too many.
MoreOrEqual == iitem' <= nitem'
More == iitem' < nitem'

\* print1 prints the rows of the buffer under sid; repl asks for the next page
\* while there is one.
PrintPage ==
  /\ pc = "print" /\ ~raw /\ Valid(buf)
  /\ LET rows == Rows(buf) IN
     /\ out'   = out \o [k \in 1..Len(rows) |-> <<cur, rows[k]>>]
     /\ iitem' = iitem + Len(rows)
  /\ nitem' = Size(buf, nitem)
  /\ IF More THEN pc' = "fetch" /\ UNCHANGED rcs ELSE Return(0)
  /\ UNCHANGED <<callVars, rest, curl, bid, bad, fresh, recvVars>>

\* There are no tokens: those print1 looks at were left there by the parse before,
\* like the text they are of, and "size" may be read from it.
PrintNothing ==
  /\ pc = "print" /\ ~raw /\ Blank(buf)
  /\ nitem' \in {nitem} \cup {Total[Sids[k]] : k \in {c \in 1..cur : Sids[c] \in SizeFirst}}
  /\ iitem' = iitem
  /\ IF More THEN pc' = "fetch" /\ UNCHANGED rcs ELSE Return(0)
  /\ UNCHANGED <<callVars, rest, curl, bid, bad, fresh, out, recvVars>>

\* jsmn_parse does not return.
PrintNever == /\ pc = "print" /\ ~raw /\ Endless(buf)
              /\ pc' = "parsing"
              /\ UNCHANGED <<callVars, iitem, nitem, rest, curl, bid, bad, fresh, out, rcs, recvVars>>

Stopped    == pc \in {"done", "parsing"} \/ aborted \/ (pc = "fetch" /\ bid = MaxRequests)
Terminated == Stopped /\ UNCHANGED vars

Step == \/ NextSid \/ Exit \/ Fetch \/ Chunk \/ TransferFails \/ TransferEnds
        \/ PrintRaw \/ PrintInvalid \/ PrintPage \/ PrintNothing \/ PrintNever
Next == Step \/ Terminated
Spec == Init /\ [][Next]_vars

\* A request is answered or fails in the end, and the program goes on: the weak
\* fairness of Step, which is enabled unless Stopped and is no stuttering.
FairSpec == Spec /\ ([]<>Stopped \/ []<><<TRUE>>_vars)

-----------------------------------------------------------------------------
\* What has been printed for argument c.
RowsOf(c) ==
  LET of[k \in 0..Len(out)] == IF k = 0 THEN <<>>
                               ELSE IF out[k][1] = c THEN Append(of[k - 1], out[k][2])
                               ELSE of[k - 1]
  IN  of[Len(out)]
WholeAnswer(t) == [k \in 1..Total[t] |-> <<t, k>>]

(* "the first element is a isin": a row is printed behind the ISIN it is a *)
(* row of, however many answers the one buffer and the one st have been    *)
(* used for before.                                                        *)
RightSid == \A k \in 1..Len(out) : out[k][2][1] = Sids[out[k][1]]

(* As long as beacons arrive, and no chunk ends in one or in front of the  *)
(* first brace, the rows printed for an argument are the beginning of its  *)
(* answer: each once, none skipped, in the order of the service, whatever  *)
(* the other chunks and the requests that were refused.                    *)
InOrderOnce ==
  calm => \A c \in 1..Len(Sids) : Seqs!IsPrefix(RowsOf(c), WholeAnswer(Sids[c]))

(* And when repl reports success, all pages have been asked for and        *)
(* printed.                                                                *)
Complete ==
  calm => \A c \in 1..Len(rcs) : ~raw /\ rcs[c] = 0 => RowsOf(c) = WholeAnswer(Sids[c])

(* What earlier answers, errors and failures have left in the buffer does  *)
(* not matter: once recv_cb waits for a beacon, and no chunk of the next   *)
(* answer ends in a beacon or between the opening one and the brace, that  *)
(* answer and nothing else is in the buffer, and recv_cb waits again.      *)
Assembled ==
  (pc = "print" /\ ~raw /\ fresh) =>
    /\ st = "UNK"
    /\ buf = SubSeq(Answer(sid, iitem), 5, Len(Answer(sid, iitem)) - 3)

(* Then the rows printed next are those that were asked for.               *)
PrintsAnswer ==
  [][(pc = "print" /\ out' # out /\ fresh) =>
       out' = out \o [k \in 1..(Upto(sid, iitem) - iitem) |-> <<cur, <<sid, iitem + k>>>>]]_vars

(* assert(ep >= sp)                                                        *)
EndBehindStart == ~aborted

(* "resize?": the buffer has room for what is copied to it.  It is made    *)
(* twice as long once per chunk, and libcurl's are up to four times as     *)
(* long as the buffer is at first.                                         *)
Fits == Len(buf) <= bsz

(* Pages end: the program comes to the end of its arguments, unless an     *)
(* answer was cut off or without beacons, or a chunk ended in one or in    *)
(* front of the first brace.                                               *)
Terminates == <>(pc = "done" \/ ~calm)
=============================================================================
