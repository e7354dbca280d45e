--------------------------- MODULE ExplodePromise ---------------------------
(***************************************************************************)
(* NquadsExplode as an implementation of ExplodeSpec: what the files are   *)
(* when everything on its way to them has arrived.                         *)
(***************************************************************************)
EXTENDS NquadsExplode

\* The file of stem s with the prefix of the command line.
Prefixed(s) == <<TRUE, s>>
\* What the streams open on it hold back, one at most.
HeldFor(f, b, s) == LET open == {w \in Slot : f[w] = Prefixed(s)}
                    IN  IF open = {} THEN <<>> ELSE b[CHOOSE w \in open : TRUE]
\* The lines in the files d and on their way, per stem.
FileIn(f, d, b, s) == d[Prefixed(s)] \o HeldFor(f, b, s)
File == [s \in Stem |-> FileIn(fp, disk, buf, s)]

Promise == INSTANCE ExplodeSpec WITH file <- File, ok <- (fails = 0)

(* As long as every fopen succeeds and no two names make one file name,    *)
(* the cache, its evictions and the buffers of the streams cannot be told  *)
(* from appending each line to its file.                                   *)
ImplementsPromise == Promise!Spec
=============================================================================
