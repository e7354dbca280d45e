------------------------------- MODULE RecvCb -------------------------------
(***************************************************************************)
(* recv_cb of bsym-isin-scrape: libcurl hands it the body of a response in *)
(* chunks, cut where the network cut it, and it collects what lies between *)
(* "handleCallback(" and ");" in a buffer.  Its state outlives a response. *)
(***************************************************************************)
EXTENDS Body, Integers, Sequences

CONSTANT InitialSize  \* of the buffer, 4096 bytes in the code

ASSUME SizeAssumption == InitialSize \in Nat \ {0}

VARIABLES
  st,      \* "UNK" or "TRX", static in recv_cb
  buf,     \* ctx->buf up to ctx->bix
  bsz,     \* ctx->bsz
  aborted  \* the assertion failed
recvVars == <<st, buf, bsz, aborted>>

RecvInit == st = "UNK" /\ buf = <<>> /\ bsz = InitialSize /\ aborted = FALSE

-----------------------------------------------------------------------------
\* memmem of a beacon of two symbols: where it starts and 0 if it does not.
Memmem(data, a, b) ==
  LET at == {k \in 1..(Len(data) - 1) : data[k] = a /\ data[k + 1] = b}
  IN  IF at = {} THEN 0 ELSE CHOOSE k \in at : \A m \in at : k <= m

\* From the beacon at sp to the first brace, or else to the end of the chunk.
FastForward(data, sp) ==
  LET at == {k \in sp..Len(data) : HasBrace(data[k])}
  IN  IF at = {} THEN Len(data) + 1 ELSE CHOOSE k \in at : \A m \in at : k <= m

\* From the beacon at ep back behind the last closing brace, or to the start.
Rewind(data, ep) ==
  LET at == {k \in 1..(ep - 1) : EndsInBrace(data[k])}
  IN  IF at = {} THEN 1 ELSE 1 + CHOOSE k \in at : \A m \in at : k >= m

\* "resize?": twice the size when n symbols are too many for it.
Grown(n) == IF n > bsz THEN bsz * 2 ELSE bsz

\* check_ep and what follows: copy from sp, to ep or to the end, behind b.
Take(data, sp, b) ==
  LET found == Memmem(data, Eo1, Eo2)
      whole == found < sp                 \* includes found = 0, the NULL
      ep    == IF whole THEN Len(data) + 1 ELSE Rewind(data, found)
      new   == b \o SubSeq(data, sp, ep - 1)
  IN  /\ st' = IF whole THEN "TRX" ELSE "UNK"
      /\ aborted' = (ep < sp)
      /\ IF ep < sp
           THEN UNCHANGED <<buf, bsz>>
           ELSE /\ buf' = new
                /\ bsz' = Grown(Len(new))

\* Outside of a transaction only the opening beacon matters.
Waiting(data) == /\ st = "UNK" /\ Memmem(data, Bo1, Bo2) = 0
                 /\ UNCHANGED recvVars
\* Variant of Begin: the buffer index is not reset.
BeginBehind(data) == /\ st = "UNK" /\ Memmem(data, Bo1, Bo2) # 0
                     /\ Take(data, FastForward(data, Memmem(data, Bo1, Bo2)), buf)
Begin(data) ==   /\ st = "UNK" /\ Memmem(data, Bo1, Bo2) # 0
                 /\ Take(data, FastForward(data, Memmem(data, Bo1, Bo2)), <<>>)
\* "huh?  another one in the middle?"
Another(data) == /\ st = "TRX" /\ Memmem(data, Bo1, Bo2) # 0
                 /\ UNCHANGED recvVars
\* Variant of Continue: a chunk replaces what came before.
ContinueAnew(data) == /\ st = "TRX" /\ Memmem(data, Bo1, Bo2) = 0
                      /\ Take(data, 1, <<>>)
Continue(data) == /\ st = "TRX" /\ Memmem(data, Bo1, Bo2) = 0
                  /\ Take(data, 1, buf)

recv_cb(data) == Waiting(data) \/ Begin(data) \/ Another(data) \/ Continue(data)
=============================================================================
