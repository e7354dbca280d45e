---------------------------- MODULE YuckGenProofs ----------------------------
(***************************************************************************)
(* Proofs about YuckGen, for all calls, texts and sizes of pipe and reads, *)
(* whatever fails and whenever m4 stops: what is left behind, what the     *)
(* exit status says, and that yuck and m4 come to an end but for two ways  *)
(* to hang.                                                                *)
(***************************************************************************)
EXTENDS YuckGen, SequenceTheorems, TLAPS

-----------------------------------------------------------------------------
(* Temporary files.                                                        *)

Early == {"begin", "inputs"}
Late  == {"close", "fork", "parent", "open", "copy", "wait", "remove"}
Over  == {"exit", "gone"}

\* The temporary files of includes made so far.
Made == {Temp[k] : k \in {j \in DOMAIN incs : incs[j] = Temp[j]}}

\* Whose includes have been dealt with, the others are still the user's.
IncludeInv ==
  /\ argi \in Calls /\ DOMAIN incs = DOMAIN argi.includes
  /\ pc \in Early \cup {"includes"} \cup Late \cup Over
  /\ pc \in Early => incs = argi.includes
  /\ pc = "includes" => /\ next \in Nat \ {0}
                        /\ \A k \in DOMAIN incs : IF k < next THEN incs[k] \in {NULL, Temp[k]}
                                                              ELSE incs[k] = argi.includes[k]
  /\ pc \in Late => \A k \in DOMAIN incs : incs[k] \in {NULL, Temp[k]}

FileInv ==
  /\ IncludeInv
  /\ UserFiles \subseteq files
  /\ argi.cmd = "gendsl" => files = UserFiles /\ pc \in Early \cup {"close"} \cup Over
  /\ pc = "begin" => files = UserFiles
  /\ pc \in Early \cup {"includes"} \cup Late => files \subseteq UserFiles \cup {Def} \cup Made
  /\ pc \in Over /\ ~argi.keep => files \subseteq UserFiles \cup stuck

(* A call's includes are the user's files, and no temporary file is.       *)
LEMMA IncludeFacts ==
  ASSUME argi \in Calls
  PROVE  /\ \A k \in DOMAIN argi.includes : argi.includes[k] \in UserFiles
         /\ DOMAIN argi.includes = 1..Len(argi.includes) /\ Len(argi.includes) \in Nat
         /\ \A k \in DOMAIN argi.includes : Temp[k] \notin UserFiles \cup {Def, NULL}
         /\ argi.cmd # "genman" => argi.includes = <<>>
         /\ argi.cmd \in {"gen", "genman", "gendsl"}
  BY CallAssumption, NameAssumption

LEMMA InitFile == Init => FileInv
  BY DEF Init, FileInv, IncludeInv, Early, Late, Over

LEMMA OpeningFile ==
  ASSUME FileInv, Begin \/ Input \/ InputsRead
  PROVE  FileInv'
<1>1. argi' = argi /\ incs' = incs /\ stuck' = stuck /\ pc \in Early
  BY DEF Begin, Input, InputsRead, Early
<1>2. IncludeInv'
  <2>1. CASE Begin \/ Input
    BY <1>1, <2>1 DEF FileInv, IncludeInv, Begin, Input, Goto, Early, Late, Over
  <2>2. CASE InputsRead
    <3>1. CASE argi.cmd = "genman"
      BY <1>1, <2>2, <3>1, IncludeFacts DEF FileInv, IncludeInv, InputsRead, Goto, Early, Late, Over
    <3>2. CASE argi.cmd # "genman"
      BY <1>1, <2>2, <3>2, IncludeFacts DEF FileInv, IncludeInv, InputsRead, Goto, Early, Late, Over
    <3> QED
      BY <3>1, <3>2
  <2> QED
    BY <2>1, <2>2
<1>3. Made' = Made
  BY <1>1 DEF Made
<1> QED
  BY <1>1, <1>2, <1>3 DEF FileInv, Begin, Input, InputsRead, Goto, Early, Late, Over

LEMMA IncludeFile ==
  ASSUME FileInv, Include
  PROVE  FileInv'
<1>1. /\ pc = "includes" /\ pc' = pc /\ next \in Nat \ {0} /\ next' = next + 1 /\ argi' = argi
      /\ next <= Len(incs)
  BY DEF FileInv, IncludeInv, Include
<1>2. next \in DOMAIN incs /\ argi \in Calls /\ DOMAIN incs = DOMAIN argi.includes
  BY <1>1, IncludeFacts DEF FileInv, IncludeInv
<1>3. PICK v \in {NULL, Temp[next]} :
        /\ incs' = [incs EXCEPT ![next] = v]
        /\ files' = IF v = NULL THEN files ELSE files \cup {Temp[next]}
  BY <1>2, IncludeFacts DEF Include, Ignored
<1>4. /\ DOMAIN incs' = DOMAIN incs /\ incs'[next] = v
      /\ \A k \in DOMAIN incs : k # next => incs'[k] = incs[k]
  BY <1>2, <1>3
<1>5. IncludeInv'
  <2>1. \A k \in DOMAIN incs : k \in Nat
    BY <1>2, IncludeFacts
  <2> QED
    BY <1>1, <1>2, <1>3, <1>4, <2>1 DEF FileInv, IncludeInv, Early, Late, Over
<1>6. incs[next] # Temp[next]
  BY <1>1, <1>2, IncludeFacts DEF FileInv, IncludeInv
<1>7. Made \subseteq Made' /\ (v # NULL => Temp[next] \in Made')
  BY <1>2, <1>3, <1>4, <1>6 DEF Made
<1> QED
  BY <1>1, <1>3, <1>5, <1>7 DEF FileInv, Early, Late, Over

(* When includes are done nothing is made or removed until the end.        *)
LEMMA RunFile ==
  ASSUME FileInv,
         \/ IncludesDone \/ Close \/ Fork \/ CloseWrite \/ Open \/ Read \/ Write \/ EndOfPipe
         \/ Wait \/ Exit \/ Child \/ ReadFails \/ M4Fails \/ UNCHANGED vars
  PROVE  FileInv'
<1>1. UNCHANGED fileVars
  BY DEF IncludesDone, Close, Fork, CloseWrite, Open, Read, Write, EndOfPipe, Wait, Exit, Child,
         M4Write, M4Exit, ReadFails, M4Fails, vars
<1>2. Made' = Made
  BY <1>1 DEF fileVars, Made
<1>3. \/ pc' = pc
      \/ pc = "includes" /\ pc' = "close" /\ next > Len(incs)
      \/ pc \in Late /\ pc' \in Late /\ argi.cmd # "gendsl"
      \/ pc = "close" /\ pc' = "exit" /\ argi.cmd = "gendsl"
      \/ pc = "exit" /\ pc' = "gone"
  BY DEF FileInv, Goto, IncludesDone, Close, Fork, CloseWrite, Open, Read, Write, EndOfPipe, Wait,
         Exit, Child, M4Write, M4Exit, ReadFails, M4Fails, vars, Early, Late, Over
<1>4. IncludeInv'
  <2>1. CASE pc = "includes" /\ pc' = "close" /\ next > Len(incs)
    <3>1. \A k \in DOMAIN incs : k < next
      BY <2>1, IncludeFacts DEF FileInv, IncludeInv
    <3> QED
      BY <1>1, <2>1, <3>1 DEF FileInv, IncludeInv, fileVars, Early, Late, Over
  <2> QED
    BY <1>1, <1>3, <2>1 DEF FileInv, IncludeInv, fileVars, Early, Late, Over
<1> QED
  BY <1>1, <1>2, <1>3, <1>4 DEF FileInv, fileVars, Early, Late, Over

LEMMA RemoveFile ==
  ASSUME FileInv, Remove
  PROVE  FileInv'
<1> DEFINE temps == {Def} \cup (Range0(incs) \ {NULL})
<1>1. /\ pc = "remove" /\ pc' = "exit" /\ argi' = argi /\ incs' = incs
      /\ files' = IF argi.keep THEN files ELSE files \ (temps \ stuck')
  BY DEF Remove, Goto
<1>2. IncludeInv'
  BY <1>1 DEF FileInv, IncludeInv, Early, Late, Over
<1>3. \A k \in DOMAIN incs : incs[k] \in {NULL, Temp[k]}
  BY <1>1 DEF FileInv, IncludeInv, Late
<1>4. temps \cap UserFiles = {}
  BY <1>3, IncludeFacts, NameAssumption DEF Range0, FileInv, IncludeInv
<1>5. {Def} \cup Made \subseteq temps
  BY <1>3, IncludeFacts DEF Range0, Made, FileInv, IncludeInv
<1> HIDE DEF temps
<1>6. UserFiles \subseteq files /\ files \subseteq UserFiles \cup {Def} \cup Made /\ argi.cmd # "gendsl"
  BY <1>1 DEF FileInv, Early, Late, Over
<1>7. UserFiles \subseteq files' /\ (~argi.keep => files' \subseteq UserFiles \cup stuck')
  BY <1>1, <1>4, <1>5, <1>6
<1> QED
  BY <1>1, <1>2, <1>6, <1>7 DEF FileInv, Early, Late, Over

(* The user's files stay, and temporary ones do not, however a call ends.  *)
THEOREM NothingLeft == Spec => []NoLitter
<1>1. FileInv /\ [Next]_vars => FileInv'
  <2> SUFFICES ASSUME FileInv, [Next]_vars
               PROVE  FileInv'
    OBVIOUS
  <2> QED
    BY OpeningFile, IncludeFile, RunFile, RemoveFile DEF Next, Parent, WaitFails
<1>2. FileInv => NoLitter
  BY DEF FileInv, NoLitter, Over
<1> QED
  BY InitFile, <1>1, <1>2, PTL DEF Spec

-----------------------------------------------------------------------------
(* What is copied.                                                         *)

Bytes == Range0(Text[1]) \cup Range0(Text[2])
Out   == {Unmassaged(b) : b \in Bytes} \cup {"old"}

LEMMA TextType ==
  ASSUME NEW r \in 1..2
  PROVE  Text[r] \in Seq(Bytes) /\ Len(Text[r]) \in Nat
<1>1. Text[r] \in Seq(Range0(Text[r])) /\ Range0(Text[r]) \subseteq Bytes
  BY TextAssumption DEF Bytes
<1> QED
  BY <1>1, SeqMonotonic, LenProperties

\* Output t, what has been read, c, and the pipe, p, hold the first n bytes of text s.
Follow(t, c, p, s, n) ==
  /\ n = Len(t) + Len(c) + Len(p) /\ n <= Len(s)
  /\ \A i \in 1..Len(t) : t[i] = Unmassaged(s[i])
  /\ \A i \in 1..Len(c) : c[i] = s[Len(t) + i]
  /\ \A i \in 1..Len(p) : p[i] = s[Len(t) + Len(c) + i]

LEMMA PlainType ==
  ASSUME NEW s \in Seq(Bytes)
  PROVE  /\ Plain(s) \in Seq(Out) /\ Len(Plain(s)) = Len(s)
         /\ \A i \in 1..Len(s) : Plain(s)[i] = Unmassaged(s[i])
<1>1. Len(s) \in Nat /\ \A i \in 1..Len(s) : s[i] \in Bytes
  BY ElementOfSeq
<1>2. Plain(s) \in [1..Len(s) -> Out]
  BY <1>1 DEF Plain, Out
<1> QED
  BY <1>1, <1>2 DEF Plain

(* A read, a write and m4's next byte keep the order.                      *)
LEMMA ReadFollows ==
  ASSUME NEW t \in Seq(Out), NEW p \in Seq(Bytes), NEW s \in Seq(Bytes), NEW n,
         Follow(t, <<>>, p, s, n), NEW k \in 1..Len(p)
  PROVE  /\ SubSeq(p, 1, k) \in Seq(Bytes) /\ SubSeq(p, k + 1, Len(p)) \in Seq(Bytes)
         /\ Follow(t, SubSeq(p, 1, k), SubSeq(p, k + 1, Len(p)), s, n)
<1>1. Len(p) \in Nat /\ Len(t) \in Nat /\ Len(s) \in Nat /\ \A i \in 1..Len(p) : p[i] \in Bytes
  BY ElementOfSeq
<1> DEFINE c == SubSeq(p, 1, k)
           q == SubSeq(p, k + 1, Len(p))
<1>2. c \in Seq(Bytes) /\ Len(c) = k /\ \A i \in 1..k : c[i] = p[i]
  BY <1>1, SubSeqProperties
<1>3. q \in Seq(Bytes) /\ Len(q) = Len(p) - k /\ \A i \in 1..(Len(p) - k) : q[i] = p[k + i]
  BY <1>1, SubSeqProperties
<1>4. /\ n = Len(t) + Len(p) /\ n <= Len(s)
      /\ \A i \in 1..Len(t) : t[i] = Unmassaged(s[i])
      /\ \A i \in 1..Len(p) : p[i] = s[Len(t) + i]
  BY <1>1 DEF Follow
<1> HIDE DEF c, q
<1>5. \A i \in 1..Len(q) : k + i \in 1..Len(p) /\ Len(t) + (k + i) = Len(t) + k + i
  BY <1>1, <1>3
<1>6. n = Len(t) + Len(c) + Len(q) /\ \A i \in 1..Len(c) : c[i] = s[Len(t) + i]
  <2>1. \A i \in 1..k : i \in 1..Len(p)
    BY <1>1
  <2> QED
    BY <1>1, <1>2, <1>3, <1>4, <2>1
<1>7. \A i \in 1..Len(q) : q[i] = s[Len(t) + Len(c) + i]
  BY <1>2, <1>3, <1>4, <1>5
<1>8. Follow(t, c, q, s, n)
  BY <1>4, <1>6, <1>7 DEF Follow
<1> QED
  BY <1>2, <1>3, <1>8 DEF c, q

LEMMA WriteFollows ==
  ASSUME NEW t \in Seq(Out), NEW c \in Seq(Bytes), NEW p \in Seq(Bytes), NEW s \in Seq(Bytes), NEW n,
         Follow(t, c, p, s, n), NEW k \in 1..Len(c)
  PROVE  /\ SubSeq(c, k + 1, Len(c)) \in Seq(Bytes)
         /\ t \o Plain(SubSeq(c, 1, k)) \in Seq(Out)
         /\ Follow(t \o Plain(SubSeq(c, 1, k)), SubSeq(c, k + 1, Len(c)), p, s, n)
<1>1. /\ Len(p) \in Nat /\ Len(t) \in Nat /\ Len(s) \in Nat /\ Len(c) \in Nat
      /\ \A i \in 1..Len(c) : c[i] \in Bytes
  BY ElementOfSeq
<1> DEFINE f == SubSeq(c, 1, k)
           r == SubSeq(c, k + 1, Len(c))
           u == t \o Plain(f)
<1>2. f \in Seq(Bytes) /\ Len(f) = k /\ \A i \in 1..k : f[i] = c[i]
  BY <1>1, SubSeqProperties
<1>3. r \in Seq(Bytes) /\ Len(r) = Len(c) - k /\ \A i \in 1..(Len(c) - k) : r[i] = c[k + i]
  BY <1>1, SubSeqProperties
<1> HIDE DEF f, r
<1>4. /\ Plain(f) \in Seq(Out) /\ Len(Plain(f)) = k
      /\ \A i \in 1..k : Plain(f)[i] = Unmassaged(c[i])
  BY <1>2, PlainType
<1>5. /\ u \in Seq(Out) /\ Len(u) = Len(t) + k
      /\ \A i \in 1..(Len(t) + k) : u[i] = IF i <= Len(t) THEN t[i] ELSE Plain(f)[i - Len(t)]
  BY <1>4, ConcatProperties
<1> HIDE DEF u
<1>6. /\ n = Len(t) + Len(c) + Len(p) /\ n <= Len(s)
      /\ \A i \in 1..Len(t) : t[i] = Unmassaged(s[i])
      /\ \A i \in 1..Len(c) : c[i] = s[Len(t) + i]
      /\ \A i \in 1..Len(p) : p[i] = s[Len(t) + Len(c) + i]
  BY DEF Follow
<1>7. \A i \in 1..Len(u) : u[i] = Unmassaged(s[i])
  <2> SUFFICES ASSUME NEW i \in 1..(Len(t) + k) PROVE u[i] = Unmassaged(s[i])
    BY <1>5
  <2>1. CASE i <= Len(t)
    <3>1. i \in 1..Len(t) /\ u[i] = t[i]
      BY <1>1, <1>5, <2>1
    <3> QED
      BY <1>6, <3>1
  <2>2. CASE ~(i <= Len(t))
    <3>1. i - Len(t) \in 1..k /\ i - Len(t) \in 1..Len(c) /\ Len(t) + (i - Len(t)) = i
      BY <1>1, <2>2
    <3>2. u[i] = Unmassaged(c[i - Len(t)]) /\ c[i - Len(t)] = s[i]
      BY <1>4, <1>5, <1>6, <2>2, <3>1
    <3> QED
      BY <3>2
  <2> QED
    BY <2>1, <2>2
<1>8. \A i \in 1..Len(r) : r[i] = s[Len(u) + i]
  <2> SUFFICES ASSUME NEW i \in 1..(Len(c) - k) PROVE r[i] = s[Len(u) + i]
    BY <1>3
  <2>1. k + i \in 1..Len(c) /\ Len(t) + (k + i) = Len(u) + i
    BY <1>1, <1>5
  <2> QED
    BY <1>3, <1>6, <2>1
<1>9. Len(u) + Len(r) = Len(t) + Len(c)
  BY <1>1, <1>3, <1>5
<1>10. Follow(u, r, p, s, n)
  BY <1>6, <1>7, <1>8, <1>9 DEF Follow
<1> QED
  BY <1>3, <1>5, <1>10 DEF u, r, f

LEMMA SendFollows ==
  ASSUME NEW t \in Seq(Out), NEW c \in Seq(Bytes), NEW p \in Seq(Bytes), NEW s \in Seq(Bytes),
         NEW n \in Nat, Follow(t, c, p, s, n), n < Len(s)
  PROVE  Follow(t, c, Append(p, s[n + 1]), s, n + 1)
<1>1. /\ Len(p) \in Nat /\ Len(t) \in Nat /\ Len(s) \in Nat /\ Len(c) \in Nat
      /\ n + 1 \in 1..Len(s) /\ n = Len(t) + Len(c) + Len(p)
  BY DEF Follow
<1>2. s[n + 1] \in Bytes
  BY <1>1, ElementOfSeq
<1> DEFINE q == Append(p, s[n + 1])
<1>3. /\ Len(q) = Len(p) + 1 /\ q[Len(p) + 1] = s[n + 1]
      /\ \A i \in 1..Len(p) : q[i] = p[i]
  BY <1>2, AppendProperties
<1> HIDE DEF q
<1>4. \A i \in 1..Len(q) : q[i] = s[Len(t) + Len(c) + i]
  <2> SUFFICES ASSUME NEW i \in 1..Len(q) PROVE q[i] = s[Len(t) + Len(c) + i]
    OBVIOUS
  <2>1. i \in 1..Len(p) \/ (i = Len(p) + 1 /\ Len(t) + Len(c) + i = n + 1)
    BY <1>1, <1>3
  <2> QED
    BY <1>3, <2>1 DEF Follow
<1>5. Follow(t, c, q, s, n + 1)
  <2>1. n + 1 = Len(t) + Len(c) + Len(q) /\ n + 1 <= Len(s)
    BY <1>1, <1>3
  <2> QED
    BY <1>4, <2>1 DEF Follow
<1> QED
  BY <1>5 DEF q

LEMMA AllFollows ==
  ASSUME NEW t \in Seq(Out), NEW s \in Seq(Bytes), Follow(t, <<>>, <<>>, s, Len(s))
  PROVE  t = Plain(s)
<1>1. Len(t) = Len(s) /\ \A i \in 1..Len(t) : t[i] = Unmassaged(s[i])
  BY DEF Follow
<1>2. Plain(s) \in Seq(Out) /\ Len(Plain(s)) = Len(s)
      /\ \A i \in 1..Len(s) : Plain(s)[i] = Unmassaged(s[i])
  BY PlainType
<1> QED
  BY <1>1, <1>2, SeqEqual

-----------------------------------------------------------------------------
(* The copies of m4's outputs.                                             *)

Copying == {"copy", "wait"}
Before  == {"begin", "inputs", "includes", "close", "fork"}
After   == {"remove", "exit", "gone"}

Copied(r) == target[r] = Plain(Text[r])
Runs == IF argi.header THEN {1, 2} ELSE {1}

CopyTypes ==
  /\ argi.header \in BOOLEAN
  /\ pc \in Before \cup {"parent", "open"} \cup Copying \cup After
  /\ run \in 1..2 /\ (run = 2 => argi.header) /\ (pc \in Before \ {"fork"} => run = 1)
  /\ pipe \in Seq(Bytes) /\ chunk \in Seq(Bytes)
  /\ target \in [1..2 -> Seq(Out)]
  /\ sent \in Nat
  /\ m4 \in {"none", "running", "exited", "failed", "killed"}
  /\ m4 = "exited" /\ pc \in {"parent", "open"} \cup Copying => sent = Len(Text[run])
  /\ pc \in {"parent", "open"} \cup Copying => m4 # "none"
  /\ pc \in Before \cup {"parent", "open", "wait"} => chunk = <<>>
  /\ pc = "wait" /\ ~lost => pipe = <<>> /\ m4 # "running"

CopyInv ==
  /\ CopyTypes
  /\ pc \in {"parent", "open"} => Follow(<<>>, <<>>, pipe, Text[run], sent)
  /\ pc \in Copying /\ ~lost => Follow(target[run], chunk, pipe, Text[run], sent)
  /\ pc \in {"fork", "parent", "open"} \cup Copying /\ run = 2 /\ ~lost => Copied(1)
  /\ pc \in After /\ argi.cmd # "gendsl" /\ rc = 0 /\ ~lost => \A r \in Runs : Copied(r)

LEMMA InitCopy == Init => CopyInv
<1> SUFFICES ASSUME Init PROVE CopyInv
  OBVIOUS
<1>1. target \in [1..2 -> Seq(Out)]
  <2>1. <<"old">> \in Seq(Out)
    BY DEF Out
  <2> QED
    BY SMTT(30), <2>1 DEF Init
<1>2. Len(Text[1]) \in Nat /\ <<>> \in Seq(Bytes)
  BY TextType, EmptySeq
<1>3. argi.header \in BOOLEAN
  BY CallAssumption DEF Init
<1> QED
  BY <1>1, <1>2, <1>3 DEF Init, CopyInv, CopyTypes, Before, Copying, After

(* In front of m4 nothing is copied.                                       *)
LEMMA BeforeCopy ==
  ASSUME CopyInv,
         \/ Begin \/ Input \/ InputsRead \/ Include \/ IncludesDone \/ Close \/ UNCHANGED vars
  PROVE  CopyInv'
<1>1. UNCHANGED <<m4Vars, argi>> /\ (lost' = lost \/ lost' = TRUE)
  BY DEF Begin, Input, InputsRead, Include, IncludesDone, Close, vars, fileVars, m4Vars
<1>2. \/ pc \in Before \ {"fork"} /\ pc' \in Before \ {"fork"}
      \/ pc \in Before \ {"fork"} /\ pc' \in After /\ (rc' # 0 \/ argi.cmd = "gendsl")
      \/ pc = "close" /\ pc' = "fork" /\ argi.cmd # "gendsl"
      \/ UNCHANGED vars
  <2>1. CASE Begin
    BY <2>1 DEF Begin, Goto, Before, After
  <2>2. CASE Close
    BY <2>2 DEF Close, Goto, Before, After
  <2>3. CASE Input \/ InputsRead \/ Include \/ IncludesDone
    BY <2>3 DEF Input, InputsRead, Include, IncludesDone, Goto, Before, After
  <2> QED
    BY <2>1, <2>2, <2>3
<1>3. run' = run /\ pipe' = pipe /\ chunk' = chunk /\ target' = target /\ m4' = m4 /\ sent' = sent
      /\ argi' = argi
  BY <1>1 DEF m4Vars
<1>4. CASE UNCHANGED vars
  BY <1>4 DEF CopyInv, CopyTypes, Before, After, Copying, Copied, Runs, vars, m4Vars, fileVars
<1>5. CASE ~UNCHANGED vars
  <2>1. pc \in Before \ {"fork"} /\ pc' \in Before \cup After /\ run = 1
    BY <1>2, <1>5 DEF CopyInv, CopyTypes, Before
  <2>2. CopyTypes'
    BY <1>3, <2>1 DEF CopyInv, CopyTypes, Before, After, Copying
  <2>3. pc' \in After => rc' # 0 \/ argi'.cmd = "gendsl"
    BY <1>2, <1>3, <1>5 DEF Before, After
  <2> QED
    BY <1>3, <2>1, <2>2, <2>3 DEF CopyInv, Before, After, Copying
<1> QED
  BY <1>4, <1>5

LEMMA StartCopy ==
  ASSUME CopyInv, Fork \/ CloseWrite \/ Open
  PROVE  CopyInv'
<1>1. argi' = argi /\ lost' = lost /\ run' = run /\ chunk' = chunk
  BY DEF Fork, CloseWrite, Open, fileVars
<1>2. Len(Text[run]) \in Nat /\ Text[run] \in Seq(Bytes) /\ <<>> \in Seq(Bytes) /\ <<>> \in Seq(Out)
  BY TextType, EmptySeq DEF CopyInv, CopyTypes
<1>3. CASE Fork
  <2>1. pc = "fork" /\ target' = target
    BY <1>3 DEF Fork
  <2>2. CASE pc' = "parent"
    <3>1. m4' \in {"running", "failed"} /\ pipe' = <<>> /\ sent' = 0
      BY <1>3, <2>2 DEF Fork, Goto
    <3>2. Follow(<<>>, <<>>, <<>>, Text[run], 0)
      BY <1>2 DEF Follow
    <3>3. CopyTypes'
      BY <1>1, <1>2, <2>1, <2>2, <3>1 DEF CopyInv, CopyTypes, Before, After, Copying
    <3> QED
      BY <1>1, <2>1, <2>2, <3>1, <3>2, <3>3 DEF CopyInv, Copied, Before, After, Copying
  <2>3. CASE pc' = "remove"
    <3>1. rc' = -1 /\ m4' = m4 /\ pipe' = pipe /\ sent' = sent
      BY <1>3, <2>3 DEF Fork, Goto
    <3> QED
      BY <1>1, <2>1, <2>3, <3>1 DEF CopyInv, CopyTypes, Before, After, Copying
  <2> QED
    BY <1>3, <2>2, <2>3 DEF Fork, Goto
<1>4. CASE CloseWrite
  <2>1. /\ pc = "parent" /\ pc' = "open" /\ target' = target /\ m4' = m4 /\ pipe' = pipe /\ sent' = sent
    BY <1>4 DEF CloseWrite, Goto
  <2> QED
    BY <1>1, <2>1 DEF CopyInv, CopyTypes, Copied, Before, After, Copying
<1>5. CASE Open
  <2>1. pc = "open" /\ m4' = m4 /\ pipe' = pipe /\ sent' = sent
    BY <1>5 DEF Open
  <2>2. CASE pc' = "copy"
    <3>1. target' = [target EXCEPT ![run] = <<>>]
      BY <1>5, <2>2 DEF Open, Goto
    <3>2. target' \in [1..2 -> Seq(Out)] /\ target'[run] = <<>> /\ (run = 2 => target'[1] = target[1])
      BY <1>2, <3>1 DEF CopyInv, CopyTypes
    <3>3. CopyTypes'
      BY <1>1, <2>1, <2>2, <3>2 DEF CopyInv, CopyTypes, Before, After, Copying
    <3>4. chunk = <<>> /\ Follow(<<>>, <<>>, pipe, Text[run], sent)
      BY <2>1 DEF CopyInv, CopyTypes
    <3> QED
      BY <1>1, <2>1, <2>2, <3>2, <3>3, <3>4 DEF CopyInv, Copied, Before, After, Copying
  <2>3. CASE pc' = "remove"
    <3>1. rc' = -1 /\ target' = target
      BY <1>5, <2>3 DEF Open, Goto
    <3> QED
      BY <1>1, <2>1, <2>3, <3>1 DEF CopyInv, CopyTypes, Before, After, Copying
  <2> QED
    BY <1>5, <2>2, <2>3 DEF Open, Goto
<1> QED
  BY <1>3, <1>4, <1>5

LEMMA ReadCopy ==
  ASSUME CopyInv, Read
  PROVE  CopyInv'
<1>1. PICK k \in 1..Len(pipe) : chunk' = SubSeq(pipe, 1, k) /\ pipe' = SubSeq(pipe, k + 1, Len(pipe))
  <2>1. Len(pipe) \in Nat /\ ReadSize \in Nat
    BY PipeAssumption DEF CopyInv, CopyTypes
  <2>2. \A k \in 1..(IF Len(pipe) < ReadSize THEN Len(pipe) ELSE ReadSize) : k \in 1..Len(pipe)
    BY <2>1
  <2> QED
    BY <2>2 DEF Read
<1>2. /\ pc = "copy" /\ pc' = pc /\ chunk = <<>> /\ argi' = argi /\ lost' = lost /\ run' = run
      /\ target' = target /\ m4' = m4 /\ sent' = sent
  BY DEF Read, fileVars
<1>3. chunk' \in Seq(Bytes) /\ pipe' \in Seq(Bytes)
  <2>1. pipe \in Seq(Bytes) /\ Len(pipe) \in Nat /\ \A i \in 1..Len(pipe) : pipe[i] \in Bytes
    BY ElementOfSeq DEF CopyInv, CopyTypes
  <2> QED
    BY <1>1, <2>1, SubSeqProperties
<1>4. CopyTypes'
  BY <1>2, <1>3 DEF CopyInv, CopyTypes, Before, After, Copying
<1>5. ~lost => Follow(target[run], chunk', pipe', Text[run], sent)
  <2> SUFFICES ASSUME ~lost PROVE Follow(target[run], chunk', pipe', Text[run], sent)
    OBVIOUS
  <2>1. /\ target[run] \in Seq(Out) /\ pipe \in Seq(Bytes) /\ Text[run] \in Seq(Bytes)
        /\ Follow(target[run], <<>>, pipe, Text[run], sent)
    BY <1>2, TextType DEF CopyInv, CopyTypes, Copying
  <2> QED
    BY <1>1, <2>1, ReadFollows
<1> QED
  BY <1>2, <1>4, <1>5 DEF CopyInv, Copied, Before, After, Copying

LEMMA OneChanged ==
  ASSUME NEW S, NEW f \in [1..2 -> S], NEW r \in 1..2, NEW u \in S, NEW g, g = [f EXCEPT ![r] = u]
  PROVE  g \in [1..2 -> S] /\ g[r] = u /\ (r = 2 => g[1] = f[1])
  OBVIOUS

LEMMA WriteCopy ==
  ASSUME CopyInv, Write
  PROVE  CopyInv'
<1>1. /\ pc = "copy" /\ pc' = pc /\ argi' = argi /\ run' = run /\ pipe' = pipe
      /\ m4' = m4 /\ sent' = sent
  BY DEF Write, fileVars
<1>2. CASE chunk' = <<>> /\ lost' = TRUE /\ target' = target
  BY <1>1, <1>2, EmptySeq DEF CopyInv, CopyTypes, Before, After, Copying
<1>3. ASSUME NEW k \in 1..Len(chunk),
             target' = [target EXCEPT ![run] = target[run] \o Plain(SubSeq(chunk, 1, k))],
             chunk' = SubSeq(chunk, k + 1, Len(chunk)), lost' = lost
      PROVE  CopyInv'
  <2> DEFINE f == SubSeq(chunk, 1, k)
  <2>1. /\ target[run] \in Seq(Out) /\ chunk \in Seq(Bytes) /\ pipe \in Seq(Bytes)
        /\ Text[run] \in Seq(Bytes) /\ Len(chunk) \in Nat /\ run \in 1..2
        /\ \A i \in 1..Len(chunk) : chunk[i] \in Bytes
    BY TextType, ElementOfSeq DEF CopyInv, CopyTypes
  <2>2. f \in Seq(Bytes) /\ chunk' \in Seq(Bytes)
    BY <1>3, <2>1, SubSeqProperties
  <2>3. target[run] \o Plain(f) \in Seq(Out)
    BY <2>1, <2>2, PlainType, ConcatProperties
  <2> HIDE DEF f
  <2>4. /\ target' \in [1..2 -> Seq(Out)] /\ target'[run] = target[run] \o Plain(f)
        /\ run = 2 => target'[1] = target[1]
    <3>1. target \in [1..2 -> Seq(Out)] /\ target' = [target EXCEPT ![run] = target[run] \o Plain(f)]
      BY <1>3 DEF CopyInv, CopyTypes, f
    <3> QED
      BY SMTT(30), <2>1, <2>3, <3>1, OneChanged
  <2>5. CopyTypes'
    BY <1>1, <2>2, <2>4 DEF CopyInv, CopyTypes, Before, After, Copying
  <2>6. ~lost => Follow(target'[run], chunk', pipe, Text[run], sent)
    <3> SUFFICES ASSUME ~lost PROVE Follow(target'[run], chunk', pipe, Text[run], sent)
      OBVIOUS
    <3>1. Follow(target[run], chunk, pipe, Text[run], sent)
      BY <1>1 DEF CopyInv, Copying
    <3> QED
      BY <1>3, <2>1, <2>4, <3>1, WriteFollows DEF f
  <2> QED
    BY <1>1, <1>3, <2>4, <2>5, <2>6 DEF CopyInv, Copied, Before, After, Copying
<1> QED
  BY <1>2, <1>3 DEF Write, Rest

(* The end of the pipe, of m4, and of yuck.                                *)
LEMMA EndCopy ==
  ASSUME CopyInv, EndOfPipe \/ ReadFails \/ Wait \/ Remove \/ Exit
  PROVE  CopyInv'
<1>1. argi' = argi /\ (ReadFails \/ lost' = lost) /\ chunk' = chunk /\ pipe' = pipe
      /\ target' = target /\ m4' = m4 /\ sent' = sent
  BY DEF EndOfPipe, ReadFails, Wait, Remove, Exit, fileVars, m4Vars
<1>2. CASE EndOfPipe
  <2>1. /\ pc = "copy" /\ pc' = "wait" /\ chunk = <<>> /\ pipe = <<>> /\ m4 # "running" /\ run' = run
        /\ lost' = lost
    BY <1>2 DEF EndOfPipe, Goto, m4Vars
  <2> QED
    BY <1>1, <2>1 DEF CopyInv, CopyTypes, Copied, Before, After, Copying
<1>3. CASE Wait
  <2>1. /\ pc = "wait" /\ m4 \in {"exited", "failed", "killed"} /\ chunk = <<>>
        /\ (~lost => pipe = <<>>) /\ lost' = lost
    BY <1>3 DEF Wait, CopyInv, CopyTypes, Copying
  <2>2. Status = 0 => m4 = "exited"
    BY <2>1 DEF Status
  <2>3. Status = 0 /\ ~lost => Copied(run) /\ (run = 2 => Copied(1))
    <3> SUFFICES ASSUME Status = 0, ~lost PROVE Copied(run) /\ (run = 2 => Copied(1))
      OBVIOUS
    <3>1. /\ target[run] \in Seq(Out) /\ Text[run] \in Seq(Bytes)
          /\ Follow(target[run], <<>>, <<>>, Text[run], Len(Text[run]))
      BY <2>1, <2>2, TextType DEF CopyInv, CopyTypes, Copying
    <3> QED
      BY <2>1, <3>1, AllFollows DEF CopyInv, Copied, Copying
  <2>4. CASE argi.header /\ run = 1 /\ Status = 0
    <3>1. pc' = "fork" /\ run' = 2
      BY <1>3, <2>4 DEF Wait, Goto
    <3> QED
      BY <1>1, <2>1, <2>3, <2>4, <3>1 DEF CopyInv, CopyTypes, Copied, Before, After, Copying
  <2>5. CASE ~(argi.header /\ run = 1 /\ Status = 0)
    <3>1. pc' = "remove" /\ rc' = Status /\ run' = run
      BY <1>3, <2>5 DEF Wait, Goto
    <3>2. rc' = 0 /\ ~lost => \A r \in Runs : Copied(r)
      BY <2>3, <2>5, <3>1 DEF Runs, CopyInv, CopyTypes
    <3> QED
      BY <1>1, <2>1, <3>1, <3>2 DEF CopyInv, CopyTypes, Copied, Runs, Before, After, Copying
  <2> QED
    BY <2>4, <2>5
<1>4. CASE Remove \/ Exit
  <2>1. /\ pc \in {"remove", "exit"} /\ pc' \in {"exit", "gone"} /\ run' = run
        /\ (rc' = rc \/ rc' = 1) /\ lost' = lost
    BY <1>4 DEF Remove, Exit, Goto, m4Vars
  <2> QED
    BY <1>1, <2>1 DEF CopyInv, CopyTypes, Copied, Runs, Before, After, Copying
<1>5. CASE ReadFails
  <2>1. pc = "copy" /\ pc' = "wait" /\ chunk = <<>> /\ lost' = TRUE /\ run' = run
    BY <1>5 DEF ReadFails, Goto, m4Vars
  <2> QED
    BY <1>1, <2>1 DEF CopyInv, CopyTypes, Before, After, Copying
<1> QED
  BY <1>2, <1>3, <1>4, <1>5

LEMMA ChildCopy ==
  ASSUME CopyInv, Child \/ M4Fails
  PROVE  CopyInv'
<1>1. argi' = argi /\ lost' = lost /\ chunk' = chunk /\ target' = target /\ pc' = pc /\ rc' = rc
      /\ run' = run /\ m4 = "running"
  BY DEF Child, M4Write, M4Exit, M4Fails, fileVars
<1>2. CASE pipe' = pipe /\ sent' = sent
  <2>1. m4' \in {"exited", "failed", "killed"} /\ (m4' = "exited" => sent = Len(Text[run]))
    BY <1>2 DEF Child, M4Write, M4Exit, M4Fails
  <2> QED
    BY <1>1, <1>2, <2>1 DEF CopyInv, CopyTypes, Copied, Runs, Before, After, Copying
<1>3. CASE /\ pipe' = Append(pipe, Text[run][sent + 1]) /\ sent' = sent + 1
           /\ sent < Len(Text[run]) /\ m4' = m4
  <2>1. /\ Text[run] \in Seq(Bytes) /\ pipe \in Seq(Bytes) /\ chunk \in Seq(Bytes)
        /\ target[run] \in Seq(Out) /\ sent \in Nat /\ <<>> \in Seq(Out) /\ <<>> \in Seq(Bytes)
    BY TextType, EmptySeq DEF CopyInv, CopyTypes
  <2>2. Text[run][sent + 1] \in Bytes
    BY <1>3, <2>1, LenProperties, ElementOfSeq
  <2>3. pipe' \in Seq(Bytes)
    BY <1>3, <2>1, <2>2, AppendProperties
  <2>4. CopyTypes'
    BY <1>1, <1>3, <2>1, <2>3 DEF CopyInv, CopyTypes, Before, After, Copying
  <2>5. pc \in {"parent", "open"} => Follow(<<>>, <<>>, pipe', Text[run], sent')
    BY <1>3, <2>1, SendFollows DEF CopyInv
  <2>6. pc \in Copying /\ ~lost => Follow(target[run], chunk, pipe', Text[run], sent')
    BY <1>3, <2>1, SendFollows DEF CopyInv
  <2> QED
    BY <1>1, <2>4, <2>5, <2>6 DEF CopyInv, Copied, Runs, Before, After, Copying
<1> QED
  BY <1>2, <1>3 DEF Child, M4Write, M4Exit, M4Fails

-----------------------------------------------------------------------------
(* What the intermediary is made of.                                       *)

Names  == UserFiles \cup Range0(Temp)
Middle == {"fork", "parent", "open"} \cup Copying
\* The arguments are in front.
Whole  == Len(argi.args) <= Len(defs) /\ \A i \in 1..Len(argi.args) : defs[i] = argi.args[i]

DefsInv ==
  /\ defs \in Seq(Names)
  /\ pc = "begin" => next = 1 /\ defs = <<>>
  /\ pc = "inputs" => /\ next \in Nat \ {0} /\ Len(defs) = next - 1 /\ Len(defs) <= Len(argi.args)
                      /\ \A i \in 1..Len(defs) : defs[i] = argi.args[i]
  /\ pc \in Middle => rc = 0
  /\ pc \notin Early /\ rc = 0 /\ ~undone => Whole

LEMMA ArgFacts ==
  ASSUME argi \in Calls
  PROVE  /\ argi.args \in Seq(Names) /\ Len(argi.args) \in Nat
         /\ \A i \in 1..Len(argi.args) : argi.args[i] \in Names
<1>1. argi.args \in Seq(UserFiles) /\ UserFiles \subseteq Names
  BY CallAssumption DEF Names
<1>2. argi.args \in Seq(Names)
  BY <1>1, SeqMonotonic
<1> QED
  BY <1>2, ElementOfSeq

LEMMA AppendDefs ==
  ASSUME NEW d \in Seq(Names), NEW x \in Names
  PROVE  /\ Append(d, x) \in Seq(Names) /\ Len(Append(d, x)) = Len(d) + 1 /\ Len(d) \in Nat
         /\ Append(d, x)[Len(d) + 1] = x
         /\ \A i \in 1..Len(d) : Append(d, x)[i] = d[i]
  BY AppendProperties

LEMMA InitDefs == Init => DefsInv
  BY EmptySeq DEF Init, DefsInv, Early, Middle, Copying

LEMMA OpeningDefs ==
  ASSUME FileInv, DefsInv, Begin \/ Input \/ InputsRead
  PROVE  DefsInv'
<1>1. argi \in Calls /\ argi' = argi /\ pc \in Early /\ defs \in Seq(Names) /\ Len(defs) \in Nat
  BY LenProperties DEF FileInv, IncludeInv, DefsInv, Begin, Input, InputsRead, Early
<1>2. CASE Begin
  BY <1>1, <1>2, ArgFacts, EmptySeq DEF Begin, Goto, DefsInv, Early, Middle, Copying
<1>3. CASE Input
  <2>1. /\ pc = "inputs" /\ pc' = pc /\ next <= Len(argi.args)
        /\ next \in Nat \ {0} /\ Len(defs) = next - 1
        /\ \A i \in 1..Len(defs) : defs[i] = argi.args[i]
    BY <1>3 DEF Input, DefsInv
  <2>2. CASE next' = next /\ defs' = defs
    BY <1>1, <2>1, <2>2 DEF DefsInv, Early, Middle, Copying
  <2>3. CASE next' = next + 1 /\ defs' = Append(defs, argi.args[next])
    <3>1. next \in 1..Len(argi.args) /\ argi.args[next] \in Names /\ next = Len(defs) + 1
      BY <1>1, <2>1, ArgFacts
    <3>2. /\ defs' \in Seq(Names) /\ Len(defs') = Len(defs) + 1 /\ defs'[next] = argi.args[next]
          /\ \A i \in 1..Len(defs) : defs'[i] = defs[i]
      BY <1>1, <2>3, <3>1, AppendDefs
    <3>3. \A i \in 1..Len(defs') : i \in 1..Len(defs) \/ i = next
      BY <1>1, <3>1, <3>2
    <3>4. \A i \in 1..Len(defs') : defs'[i] = argi.args[i]
      BY <2>1, <3>2, <3>3
    <3>5. next' \in Nat \ {0} /\ Len(defs') = next' - 1 /\ Len(defs') <= Len(argi.args)
      BY <2>1, <2>3, <3>1, <3>2
    <3> QED
      BY <1>1, <2>1, <3>2, <3>4, <3>5 DEF DefsInv, Early, Middle, Copying
  <2> QED
    BY <1>3, <2>2, <2>3 DEF Input
<1>4. CASE InputsRead
  <2>1. /\ pc = "inputs" /\ pc' \in {"includes", "close"} /\ defs' = defs
        /\ next > Len(argi.args) \/ rc # 0
        /\ rc' = 0 /\ ~undone' => rc = 0
    BY <1>4 DEF InputsRead, Goto
  <2>2. rc' = 0 /\ ~undone' => Whole
    BY <1>1, <2>1, ArgFacts DEF DefsInv, Whole
  <2> QED
    BY <1>1, <2>1, <2>2 DEF DefsInv, Whole, Early, Middle, Copying
<1> QED
  BY <1>2, <1>3, <1>4

LEMMA IncludeDefs ==
  ASSUME FileInv, DefsInv, Include
  PROVE  DefsInv'
<1>1. /\ pc = "includes" /\ pc' = pc /\ rc' = rc /\ undone' = undone /\ argi' = argi /\ argi \in Calls
      /\ next \in Nat \ {0} /\ next <= Len(incs)
      /\ DOMAIN incs = DOMAIN argi.includes
      /\ defs' = defs \/ defs' = Append(defs, Temp[next])
  BY DEF FileInv, IncludeInv, Include
<1>2. defs \in Seq(Names) /\ Len(defs) \in Nat /\ (rc = 0 /\ ~undone => Whole)
  BY <1>1, LenProperties DEF DefsInv, Early
<1>3. CASE defs' = defs
  BY <1>1, <1>2, <1>3 DEF DefsInv, Whole, Early, Middle, Copying
<1>4. CASE defs' = Append(defs, Temp[next])
  <2>1. next \in DOMAIN Temp /\ Temp[next] \in Names
    <3>1. next \in DOMAIN argi.includes
      BY <1>1, IncludeFacts
    <3> QED
      BY <1>1, <3>1, CallAssumption DEF Names, Range0
  <2>2. /\ defs' \in Seq(Names) /\ Len(defs') = Len(defs) + 1
        /\ \A i \in 1..Len(defs) : defs'[i] = defs[i]
    BY <1>2, <1>4, <2>1, AppendDefs
  <2>3. Whole => Whole'
    <3> SUFFICES ASSUME Whole PROVE Whole'
      OBVIOUS
    <3>1. \A i \in 1..Len(argi.args) : i \in 1..Len(defs)
      BY <1>1, <1>2, ArgFacts DEF Whole
    <3> QED
      BY <1>1, <1>2, <2>2, <3>1, ArgFacts DEF Whole
  <2> QED
    BY <1>1, <1>2, <2>2, <2>3 DEF DefsInv, Early, Middle, Copying
<1> QED
  BY <1>1, <1>3, <1>4

(* Afterwards nothing is added, and only what went well so far stays 0.    *)
LEMMA RunDefs ==
  ASSUME FileInv, DefsInv,
         \/ IncludesDone \/ Close \/ Fork \/ CloseWrite \/ Open \/ Read \/ Write \/ EndOfPipe
         \/ Wait \/ Remove \/ Exit \/ Child \/ ReadFails \/ M4Fails
  PROVE  DefsInv'
<1>1. argi' = argi /\ defs' = defs /\ undone' = undone
  BY DEF IncludesDone, Close, Fork, CloseWrite, Open, Read, Write, EndOfPipe, Wait, Exit, Remove,
         Child, M4Write, M4Exit, ReadFails, M4Fails, fileVars
<1>2. \/ pc' = pc /\ rc' = rc /\ next' = next
      \/ /\ pc \notin Early /\ pc' \notin Early
         /\ rc' = 0 => rc = 0
         /\ pc' \in Middle => rc' = 0
  <2>1. CASE IncludesDone \/ Close
    BY <2>1 DEF IncludesDone, Close, Goto, Early, Middle, Copying
  <2>2. CASE Fork \/ CloseWrite \/ Open \/ EndOfPipe \/ ReadFails \/ Wait
    BY <2>2 DEF DefsInv, Fork, CloseWrite, Open, EndOfPipe, ReadFails, Wait, Goto, Early, Middle, Copying
  <2>3. CASE Read \/ Write \/ Child \/ M4Fails
    BY <2>3 DEF Read, Write, Child, M4Write, M4Exit, M4Fails, fileVars
  <2>4. CASE Remove \/ Exit
    BY <2>4 DEF Remove, Exit, Goto, Early, Middle, Copying
  <2> QED
    BY <2>1, <2>2, <2>3, <2>4
<1>3. Whole' = Whole
  BY <1>1 DEF Whole
<1>4. CASE pc' = pc /\ rc' = rc /\ next' = next
  BY <1>1, <1>3, <1>4 DEF DefsInv
<1>5. CASE /\ pc \notin Early /\ pc' \notin Early
           /\ rc' = 0 => rc = 0
           /\ pc' \in Middle => rc' = 0
  BY <1>1, <1>3, <1>5 DEF DefsInv, Early
<1> QED
  BY <1>2, <1>4, <1>5

LEMMA FrontOfDefs ==
  ASSUME argi \in Calls, defs \in Seq(Names), Whole
  PROVE  SubSeq(defs, 1, Len(argi.args)) = argi.args
<1>1. /\ argi.args \in Seq(Names) /\ Len(argi.args) \in Nat /\ Len(defs) \in Nat
      /\ \A i \in 1..Len(defs) : defs[i] \in Names
  BY ArgFacts, ElementOfSeq
<1> DEFINE f == SubSeq(defs, 1, Len(argi.args))
<1>2. \A i \in 1..Len(argi.args) : i \in 1..Len(defs) /\ defs[i] = argi.args[i]
  BY <1>1 DEF Whole
<1>3. /\ f \in Seq(Names) /\ Len(f) = Len(argi.args)
      /\ \A i \in 1..Len(argi.args) : f[i] = defs[i]
  BY <1>1, <1>2, SubSeqProperties
<1> HIDE DEF f
<1>4. f = argi.args
  BY <1>1, <1>2, <1>3, SeqEqual
<1> QED
  BY <1>4 DEF f

-----------------------------------------------------------------------------
(* All of it together.                                                     *)

Inv == FileInv /\ CopyInv /\ DefsInv

LEMMA Kept ==
  ASSUME Inv, [Next]_vars
  PROVE  Inv'
<1>1. FileInv'
  BY OpeningFile, IncludeFile, RunFile, RemoveFile DEF Inv, Next, Parent, WaitFails
<1>2. CopyInv'
  BY BeforeCopy, StartCopy, ReadCopy, WriteCopy, EndCopy, ChildCopy DEF Inv, Next, Parent, WaitFails
<1>3. DefsInv'
  <2>1. CASE UNCHANGED vars
    BY <2>1 DEF Inv, DefsInv, Whole, vars, fileVars
  <2> QED
    BY <2>1, OpeningDefs, IncludeDefs, RunDefs DEF Inv, Next, Parent, WaitFails
<1> QED
  BY <1>1, <1>2, <1>3 DEF Inv

LEMMA Always == Spec => []Inv
<1>1. Init => Inv
  BY InitFile, InitCopy, InitDefs DEF Inv
<1> QED
  BY <1>1, Kept, PTL DEF Spec

(* Exit status 0 means that the outputs are whole, whatever the sizes of   *)
(* the pipe, of reads and of writes and whenever a process was stopped, as *)
(* long as no read or write failed and no date has cancelled an input.     *)
THEOREM ZeroIsWhole == Spec => []ExitTells
<1>1. Inv => ExitTells
  <2> SUFFICES ASSUME Inv, pc = "gone", rc = 0, ~lost, ~undone
               PROVE  /\ SubSeq(defs, 1, Len(argi.args)) = argi.args
                      /\ argi.cmd # "gendsl" =>
                           \A r \in 1..(IF argi.header THEN 2 ELSE 1) : target[r] = Plain(Text[r])
    BY DEF ExitTells
  <2>1. SubSeq(defs, 1, Len(argi.args)) = argi.args
    BY FrontOfDefs DEF Inv, DefsInv, FileInv, IncludeInv, Early
  <2>2. \A r \in 1..(IF argi.header THEN 2 ELSE 1) : r \in Runs
    <3>1. \A r \in Int : 1 <= r /\ r <= 2 => r = 1 \/ r = 2
      OBVIOUS
    <3>2. CASE argi.header
      BY <3>1, <3>2 DEF Runs
    <3>3. CASE ~argi.header
      BY <3>3 DEF Runs
    <3> QED
      BY <3>2, <3>3
  <2>3. argi.cmd # "gendsl" => \A r \in Runs : Copied(r)
    BY DEF Inv, CopyInv, After
  <2> QED
    BY <2>1, <2>2, <2>3 DEF Copied
<1> QED
  BY Always, <1>1, PTL

-----------------------------------------------------------------------------
(* That yuck and m4 come to an end: someone can always go on, and nobody   *)
(* can go on for ever.                                                     *)

\* The parent can go on, by the guards of its actions, and the child.
ParentCan == \/ pc \notin {"copy", "wait", "gone"}
             \/ pc = "copy" /\ (chunk # <<>> \/ pipe # <<>> \/ (~w /\ m4 # "running"))
             \/ pc = "wait" /\ m4 # "running" /\ ~reaps
ChildCan == /\ m4 = "running"
            /\ sent = Len(Text[run]) \/ pc = "gone" \/ Len(pipe) < PipeSize

\* The parent's end of the pipe is closed when it reads, and m4 writes its text only.
ReaderInv == /\ pc \in {"open", "copy", "wait"} => w = FALSE
             /\ m4 = "running" => sent <= Len(Text[run])

LEMMA ReaderKept ==
  ASSUME Inv, ReaderInv, [Next]_vars
  PROVE  ReaderInv'
<1>1. run \in 1..2 /\ sent \in Nat /\ Len(Text[run]) \in Nat
  BY TextType DEF Inv, CopyInv, CopyTypes
<1>2. CASE Begin \/ Input \/ InputsRead \/ Include \/ IncludesDone \/ Close
  <2>1. /\ w' = w /\ m4' = m4 /\ sent' = sent /\ run' = run
        /\ pc' \notin {"open", "copy", "wait"}
    BY <1>2 DEF Begin, Input, InputsRead, Include, IncludesDone, Close, Goto, m4Vars
  <2> QED
    BY <2>1 DEF ReaderInv
<1>3. CASE Fork \/ CloseWrite \/ Open
  <2>1. CASE Fork
    BY <1>1, <2>1 DEF ReaderInv, Fork, Goto
  <2>2. CASE CloseWrite
    BY <2>2 DEF ReaderInv, CloseWrite, Closed, Goto
  <2>3. CASE Open
    BY <2>3 DEF ReaderInv, Open, Goto
  <2> QED
    BY <1>3, <2>1, <2>2, <2>3
<1>4. CASE Read \/ Write \/ ReadFails \/ EndOfPipe \/ Wait \/ Remove \/ Exit
  <2>1. /\ w' = w /\ m4' = m4 /\ sent' = sent /\ (run' = run \/ m4 # "running")
        /\ pc' \in {"open", "copy", "wait"} => pc \in {"open", "copy", "wait"}
    BY <1>4 DEF Read, Write, ReadFails, EndOfPipe, Wait, Remove, Exit, Goto, m4Vars
  <2> QED
    BY <1>1, <2>1 DEF ReaderInv
<1>5. CASE Child \/ M4Fails
  BY <1>1, <1>5 DEF ReaderInv, Child, M4Write, M4Exit, M4Fails
<1>6. CASE UNCHANGED vars
  BY <1>6 DEF ReaderInv, vars, m4Vars
<1> QED
  BY <1>2, <1>3, <1>4, <1>5, <1>6 DEF Next, Parent, WaitFails

LEMMA ReaderAlways == Spec => []ReaderInv
<1>1. Init => ReaderInv
  BY DEF Init, ReaderInv
<1> QED
  BY <1>1, Always, ReaderKept, PTL DEF Spec

(* Until yuck has ended and m4 does not run any more one of the two can go *)
(* on, unless a read of the pipe has failed, m4 has more to write than the *)
(* pipe takes and yuck waits for it with its end open, or waitpid fails    *)
(* because the system has reaped m4, as it does when SIGCHLD is ignored:   *)
(* those two and no other, for every text, size of the pipe and of reads,  *)
(* and whatever else has failed.                                           *)
THEOREM NobodyStuck == Spec => [](pc # "gone" \/ m4 = "running" => ParentCan \/ ChildCan \/ Hangs)
<1>1. ASSUME Inv, ReaderInv, pc # "gone" \/ m4 = "running"
      PROVE  ParentCan \/ ChildCan \/ Hangs
  <2>1. /\ m4 = "running" => run \in 1..2 /\ sent <= Len(Text[run]) /\ Len(Text[run]) \in Nat
        /\ pc = "wait" /\ ~lost => m4 # "running"
        /\ pc = "copy" => ~w
        /\ pipe \in Seq(Bytes) /\ sent \in Nat /\ Len(pipe) \in Nat
    BY <1>1, TextType, LenProperties DEF Inv, CopyInv, CopyTypes, ReaderInv
  <2>2. pipe = <<>> => Len(pipe) < PipeSize
    BY PipeAssumption
  <2>3. CASE pc = "copy"
    BY <2>1, <2>2, <2>3 DEF ParentCan, ChildCan
  <2>4. CASE pc = "gone"
    BY <1>1, <2>4 DEF ChildCan
  <2>5. CASE pc = "wait"
    <3>1. CASE m4 # "running"
      BY <2>5, <3>1 DEF ParentCan, Hangs
    <3>2. CASE m4 = "running"
      BY <2>1, <2>5, <3>2, PipeAssumption DEF ChildCan, Hangs
    <3> QED
      BY <3>1, <3>2
  <2> QED
    BY <2>3, <2>4, <2>5 DEF ParentCan
<1> QED
  BY Always, ReaderAlways, <1>1, PTL

Order == [begin |-> 0, inputs |-> 1, includes |-> 2, close |-> 3, fork |-> 4, parent |-> 5,
          open |-> 6, copy |-> 7, wait |-> 8, remove |-> 14, exit |-> 15, gone |-> 16]
\* How far yuck is, and what is left to do there: arguments or includes, bytes that m4
\* has not written, which have yet to be read and written, those in the pipe, in a chunk.
Stage == Order[pc] + (IF pc \in {"fork", "parent", "open", "copy", "wait"} THEN 5 * (run - 1) ELSE 0)
ToTake == CASE pc = "inputs"   -> Len(argi.args) + 1 - next + (IF rc = 0 THEN 1 ELSE 0)
            [] pc = "includes" -> Len(incs) + 1 - next
            [] OTHER           -> 0
ToSend == IF m4 = "running" THEN 3 * (Len(Text[run]) - sent) + 1 ELSE 0
Left == ToTake + ToSend + 2 * Len(pipe) + Len(chunk)

\* What has been taken is counted.
TakeInv == /\ incs \in Seq(Names \cup {NULL})
           /\ pc = "includes" => next <= Len(incs) + 1

LEMMA TakeKept ==
  ASSUME Inv, TakeInv, [Next]_vars
  PROVE  TakeInv'
<1>1. Len(incs) \in Nat /\ argi \in Calls /\ (pc = "includes" => next \in Nat \ {0})
  BY LenProperties DEF TakeInv, Inv, FileInv, IncludeInv
<1>2. CASE InputsRead
  BY <1>1, <1>2 DEF TakeInv, InputsRead, Goto
<1>3. CASE Include
  <2>1. next \in 1..Len(incs) /\ next' = next + 1 /\ pc = "includes"
    BY <1>1, <1>3 DEF Include
  <2>2. DOMAIN incs = 1..Len(incs) /\ DOMAIN incs = DOMAIN argi.includes
    BY LenProperties DEF TakeInv, Inv, FileInv, IncludeInv
  <2>3. Temp[next] \in Names
    BY <1>1, <2>1, <2>2, CallAssumption DEF Names, Range0
  <2>4. incs' \in Seq(Names \cup {NULL}) /\ Len(incs') = Len(incs)
    BY <1>3, <2>1, <2>3 DEF Include, Ignored, TakeInv
  <2> QED
    BY <1>1, <2>1, <2>4 DEF TakeInv
<1>4. CASE ~(InputsRead \/ Include)
  <2>1. incs' = incs
    BY <1>4 DEF Next, Parent, Begin, Input, IncludesDone, Close, Fork, CloseWrite, Open, Read, Write,
       EndOfPipe, Wait, WaitFails, Remove, Exit, Child, M4Write, M4Exit, ReadFails, M4Fails, vars, fileVars
  <2>2. pc' = "includes" => pc = "includes" /\ next' = next
    BY <1>4 DEF Next, Parent, Begin, Input, IncludesDone, Close, Fork, CloseWrite, Open, Read, Write,
       EndOfPipe, Wait, WaitFails, Remove, Exit, Goto, Child, M4Write, M4Exit, ReadFails, M4Fails, vars,
       fileVars
  <2> QED
    BY <2>1, <2>2 DEF TakeInv
<1> QED
  BY <1>2, <1>3, <1>4

LEMMA TakeAlways == Spec => []TakeInv
<1>1. Init => TakeInv
  <2> SUFFICES ASSUME Init PROVE TakeInv
    OBVIOUS
  <2>1. incs \in Seq(UserFiles) /\ UserFiles \subseteq Names \cup {NULL}
    BY CallAssumption DEF Init, Names
  <2>2. incs \in Seq(Names \cup {NULL})
    BY <2>1, SeqMonotonic
  <2> QED
    BY <2>2 DEF Init, TakeInv
<1> QED
  BY <1>1, Always, TakeKept, PTL DEF Spec

LEMMA LeftTypes ==
  ASSUME Inv, ReaderInv, TakeInv
  PROVE  /\ Stage \in 0..16
         /\ ToTake \in Nat /\ ToSend \in Nat /\ Len(pipe) \in Nat /\ Len(chunk) \in Nat
         /\ Left \in Nat
<1>1. pc \in Before \cup {"parent", "open"} \cup Copying \cup After /\ run \in 1..2
  BY DEF Inv, CopyInv, CopyTypes
<1>2. Stage \in 0..16
  BY <1>1 DEF Stage, Order, Before, Copying, After
<1>3. ToTake \in Nat
  <2>1. CASE pc = "inputs"
    <3>1. Len(argi.args) \in Nat /\ next \in Nat /\ next <= Len(argi.args) + 1
      <4>1. argi \in Calls /\ Len(defs) \in Nat
        BY LenProperties DEF Inv, FileInv, IncludeInv, DefsInv
      <4> QED
        BY <2>1, <4>1, ArgFacts DEF Inv, DefsInv
    <3> QED
      BY <2>1, <3>1 DEF ToTake
  <2>2. CASE pc = "includes"
    <3>1. Len(incs) \in Nat /\ next \in Nat /\ next <= Len(incs) + 1
      BY <2>2, LenProperties DEF Inv, FileInv, IncludeInv, TakeInv
    <3> QED
      BY <2>2, <3>1 DEF ToTake
  <2> QED
    BY <2>1, <2>2 DEF ToTake
<1>4. ToSend \in Nat
  BY <1>1, TextType DEF ToSend, ReaderInv, Inv, CopyInv, CopyTypes
<1>5. Len(pipe) \in Nat /\ Len(chunk) \in Nat
  BY LenProperties DEF Inv, CopyInv, CopyTypes
<1> QED
  BY <1>2, <1>3, <1>4, <1>5 DEF Left

\* An action that goes on with the same thing, and one that goes on to another.
LEMMA Further ==
  ASSUME Inv, Inv', ReaderInv, TakeInv,
         \/ Begin \/ InputsRead \/ IncludesDone \/ Close \/ Fork \/ CloseWrite \/ Open
         \/ EndOfPipe \/ ReadFails \/ Wait \/ Remove \/ Exit
  PROVE  Stage' > Stage
<1>1. run \in 1..2 /\ run' \in 1..2
  BY DEF Inv, CopyInv, CopyTypes
<1>2. \/ run' = run
      \/ pc = "wait" /\ pc' = "fork" /\ run = 1 /\ run' = 2
  BY DEF Begin, InputsRead, IncludesDone, Close, Fork, CloseWrite, Open, EndOfPipe, ReadFails, Wait,
         Remove, Exit, Goto, m4Vars
<1>3. pc \in {"begin", "inputs", "includes", "close"} => run = 1
  BY DEF Inv, CopyInv, CopyTypes, Before
<1>4. CASE Begin \/ InputsRead \/ IncludesDone \/ Close
  <2>1. /\ run = 1 /\ run' = 1
        /\ \/ pc = "begin" /\ pc' \in {"inputs", "exit"}
           \/ pc = "inputs" /\ pc' \in {"includes", "close"}
           \/ pc = "includes" /\ pc' = "close"
           \/ pc = "close" /\ pc' \in {"exit", "remove", "fork"}
    <3>1. CASE Begin
      BY <1>2, <1>3, <3>1 DEF Begin, Goto
    <3>2. CASE InputsRead
      BY <1>2, <1>3, <3>2 DEF InputsRead, Goto
    <3>3. CASE IncludesDone
      BY <1>2, <1>3, <3>3 DEF IncludesDone, Goto
    <3>4. CASE Close
      BY <1>2, <1>3, <3>4 DEF Close, Goto
    <3> QED
      BY <1>4, <3>1, <3>2, <3>3, <3>4
  <2> QED
    BY <2>1 DEF Stage, Order
<1>5. CASE Fork \/ CloseWrite \/ Open \/ EndOfPipe \/ ReadFails
  BY <1>1, <1>2, <1>5 DEF Stage, Order, Fork, CloseWrite, Open, EndOfPipe, ReadFails, Goto
<1>6. CASE Wait
  BY <1>1, <1>2, <1>6 DEF Stage, Order, Wait, Goto
<1>7. CASE Remove \/ Exit
  BY <1>1, <1>2, <1>7 DEF Stage, Order, Remove, Exit, Goto
<1> QED
  BY <1>4, <1>5, <1>6, <1>7

LEMMA Less ==
  ASSUME Inv, ReaderInv, TakeInv,
         Input \/ Include \/ Read \/ Write \/ Child \/ M4Fails
  PROVE  Stage' = Stage /\ Left' < Left
<1>1. /\ run' = run /\ pc' = pc
  BY DEF Input, Include, Read, Write, Child, M4Write, M4Exit, M4Fails, m4Vars
<1>2. Stage' = Stage
  BY <1>1 DEF Stage
<1>3. /\ ToTake \in Nat /\ ToSend \in Nat /\ Len(pipe) \in Nat /\ Len(chunk) \in Nat
      /\ pipe \in Seq(Bytes) /\ chunk \in Seq(Bytes)
  BY LeftTypes DEF Inv, CopyInv, CopyTypes
<1>4. CASE Input \/ Include
  <2>1. ToSend' = ToSend /\ pipe' = pipe /\ chunk' = chunk
    BY <1>4 DEF Input, Include, ToSend, m4Vars
  <2>2. ToTake' \in Int /\ ToTake' < ToTake
    <3>1. CASE Input
      <4>1. /\ pc = "inputs" /\ pc' = "inputs" /\ argi' = argi /\ argi \in Calls /\ rc = 0
            /\ next \in Nat
            /\ (next' = next + 1 /\ rc' = rc) \/ (next' = next /\ rc' = 1)
        BY <3>1 DEF Input, Inv, DefsInv, FileInv, IncludeInv
      <4> QED
        BY <4>1, ArgFacts DEF ToTake
    <3>2. CASE Include
      <4>1. /\ pc = "includes" /\ pc' = "includes" /\ next' = next + 1 /\ next \in Nat
            /\ Len(incs') = Len(incs) /\ Len(incs) \in Nat
        BY <3>2, LenProperties DEF Include, Ignored, TakeInv, Inv, FileInv, IncludeInv
      <4> QED
        BY <4>1 DEF ToTake
    <3> QED
      BY <1>4, <3>1, <3>2
  <2> QED
    BY <1>2, <1>3, <2>1, <2>2 DEF Left
<1>5. CASE Read
  <2>1. /\ pc = "copy" /\ ToSend' = ToSend /\ ToTake' = ToTake /\ chunk = <<>>
    BY <1>5 DEF Read, ToSend, ToTake, fileVars
  <2>2. PICK k \in 1..(IF Len(pipe) < ReadSize THEN Len(pipe) ELSE ReadSize) :
          chunk' = SubSeq(pipe, 1, k) /\ pipe' = SubSeq(pipe, k + 1, Len(pipe))
    BY <1>5 DEF Read
  <2>3. k \in 1..Len(pipe)
    BY <1>3, PipeAssumption
  <2>4. Len(chunk') = k /\ Len(pipe') = Len(pipe) - k
    BY <1>3, <2>2, <2>3, SubSeqProperties, ElementOfSeq
  <2>5. Len(chunk) = 0
    BY <2>1
  <2> QED
    BY <1>2, <1>3, <2>1, <2>3, <2>4, <2>5 DEF Left
<1>6. CASE Write
  <2>1. /\ pc = "copy" /\ ToSend' = ToSend /\ ToTake' = ToTake /\ pipe' = pipe /\ chunk # <<>>
    BY <1>6 DEF Write, ToSend, ToTake, fileVars
  <2>2. Len(chunk') \in Nat /\ Len(chunk') < Len(chunk)
    <3>1. CASE chunk' = <<>>
      BY <1>3, <2>1, <3>1, EmptySeq
    <3>2. ASSUME NEW k \in 1..Len(chunk), chunk' = Rest(k)
          PROVE  Len(chunk') \in Nat /\ Len(chunk') < Len(chunk)
      <4>1. Len(chunk') = Len(chunk) - k
        BY <1>3, <3>2, SubSeqProperties, ElementOfSeq DEF Rest
      <4> QED
        BY <1>3, <4>1
    <3> QED
      BY <1>6, <3>1, <3>2 DEF Write
  <2> QED
    BY <1>2, <1>3, <2>1, <2>2 DEF Left
<1>7. CASE Child \/ M4Fails
  <2>1. ToTake' = ToTake /\ chunk' = chunk /\ m4 = "running" /\ sent \in Nat
        /\ run \in 1..2 /\ Len(Text[run]) \in Nat
    BY <1>7, TextType DEF Child, M4Write, M4Exit, M4Fails, ToTake, fileVars, Inv, CopyInv, CopyTypes
  <2>2. CASE m4' # "running" /\ pipe' = pipe
    <3>1. ToSend' = 0 /\ ToSend >= 1
      BY <2>1, <2>2 DEF ToSend, ReaderInv
    <3> QED
      BY <1>2, <1>3, <2>1, <2>2, <3>1 DEF Left
  <2>3. CASE m4' = m4 /\ pipe' = Append(pipe, Text[run][sent + 1]) /\ sent' = sent + 1
    <3>1. Len(pipe') = Len(pipe) + 1
      BY <2>3
    <3>2. ToSend' = ToSend - 3
      BY <1>1, <2>1, <2>3 DEF ToSend
    <3> QED
      BY <1>2, <1>3, <2>1, <3>1, <3>2 DEF Left
  <2> QED
    BY <1>7, <2>1, <2>2, <2>3 DEF Child, M4Write, M4Exit, M4Fails
<1> QED
  BY <1>4, <1>5, <1>6, <1>7

Step == Stage' > Stage \/ (Stage' = Stage /\ Left' < Left)
\* Nothing but the failing waitpid, again.
Waiting == pc = "wait" /\ m4 # "running" /\ reaps => UNCHANGED vars

(* Every step of yuck or m4 leads to a later stage, of 17, or leaves less  *)
(* to do in its stage, whatever fails and however reads, writes and m4     *)
(* take turns: a call cannot go on for ever.  The one exception is a       *)
(* waitpid that fails: it changes nothing, and nothing else is done then.  *)
THEOREM NobodyRunsOn == Spec => /\ [](Stage \in 0..16 /\ Left \in Nat)
                                /\ [][Step]_vars
                                /\ [][Waiting]_vars
<1>1. Inv /\ ReaderInv /\ TakeInv => Stage \in 0..16 /\ Left \in Nat
  BY LeftTypes
<1>2. Inv /\ Inv' /\ ReaderInv /\ TakeInv /\ [Next]_vars => [Step]_vars
  BY Further, Less DEF Next, Parent, WaitFails, Step
<1>3. [Next]_vars => [Waiting]_vars
  <2> SUFFICES ASSUME Next, pc = "wait", m4 # "running", reaps
               PROVE  UNCHANGED vars
    BY DEF Waiting
  <2> QED
    BY DEF Next, Parent, Begin, Input, InputsRead, Include, IncludesDone, Close, Fork, CloseWrite,
       Open, Read, Write, EndOfPipe, Wait, WaitFails, Remove, Exit, Child, M4Write, M4Exit,
       ReadFails, M4Fails
<1> QED
  BY Always, ReaderAlways, TakeAlways, <1>1, <1>2, <1>3, PTL DEF Spec
=============================================================================
