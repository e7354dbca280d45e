------------------------------ MODULE YuckGen -------------------------------
(***************************************************************************)
(* yuck gen, genman and gendsl.  What the .yuck files say is written to an *)
(* intermediary file, which m4, a child process, turns into C or into a    *)
(* man page; the parent reads that from a pipe and writes it out, with the *)
(* brackets put back.  Files cannot be opened, copied, written or removed, *)
(* children cannot be made, read, write and waitpid fail, all at any time. *)
(*                                                                         *)
(* gen with a header runs m4 twice, for the header first.  What m4 reads   *)
(* is the intermediary it is started on: the macros are left out.          *)
(***************************************************************************)
EXTENDS Integers, Sequences, FiniteSets

CONSTANTS
  NULL,
  UserFiles, \* those there are before
  Def, Temp, \* names mkstemp makes, of the intermediary and, a sequence, of includes
  Calls,     \* [cmd, args, header, includes, output, keep]; stdin counts as an argument
  Text,      \* what m4 makes in the first and in the second run, bytes
  PipeSize,  \* bytes in the pipe, 65536 in Linux
  ReadSize   \* bytes read at once, 4096 in the code

Range0(s) == {s[k] : k \in DOMAIN s}

ASSUME CallAssumption == \A c \in Calls :
  /\ c.cmd \in {"gen", "genman", "gendsl"} /\ {c.header, c.keep} \subseteq BOOLEAN
  /\ c.args \in Seq(UserFiles) /\ c.args # <<>>
  /\ c.includes \in Seq(UserFiles) /\ DOMAIN c.includes \subseteq DOMAIN Temp
  /\ c.header => c.cmd = "gen" /\ c.output = "file"
  /\ c.includes # <<>> => c.cmd = "genman"
  /\ c.output \in {"file", "stdout"}
ASSUME NameAssumption ==
  /\ NULL \notin UserFiles /\ Def \notin UserFiles \cup {NULL}
  /\ \A k \in DOMAIN Temp : Temp[k] \notin UserFiles \cup {Def, NULL}
                          /\ \A j \in DOMAIN Temp : j # k => Temp[j] # Temp[k]
ASSUME TextAssumption == \A r \in 1..2 : Text[r] \in Seq(Range0(Text[r]))
ASSUME PipeAssumption == PipeSize \in Nat \ {0} /\ ReadSize \in Nat \ {0}

VARIABLES
  argi,   \* the call
  incs,   \* include_args, file names and NULL
  pc, rc,
  next,   \* the argument looked at
  defs,   \* the files and includes the intermediary is made of
  run,    \* which run of m4
  w,      \* does the parent have its end of the pipe to write to?
  pipe,
  chunk,  \* what has been read and not yet written
  target, \* the outputs of the two runs
  files,  \* those there are
  m4,     \* "none", "running", "exited", "failed", "killed"
  sent,   \* bytes it has written
  reaps,  \* was SIGCHLD ignored when yuck was started?  Then children leave no status.
  lost,   \* history: has an input failed in the middle, or a read or write?
  undone, \* history: has a second failure cancelled the first one in rc?
  stuck   \* history: files that could not be removed
fileVars == <<argi, incs, next, defs, files, undone, reaps, stuck>>
m4Vars   == <<run, w, pipe, chunk, target, m4, sent>>
vars     == <<fileVars, m4Vars, pc, rc, lost>>

-----------------------------------------------------------------------------
Init ==
  /\ argi \in Calls /\ incs = argi.includes
  /\ pc = "begin" /\ rc = 0 /\ next = 1 /\ defs = <<>>
  /\ run = 1 /\ w = FALSE /\ pipe = <<>> /\ chunk = <<>> /\ target = <<<<"old">>, <<"old">>>>
  /\ files = UserFiles /\ m4 = "none" /\ sent = 0 /\ stuck = {}
  /\ lost = FALSE /\ undone = FALSE /\ reaps \in BOOLEAN

Goto(p, code) == pc' = p /\ rc' = code

\* The intermediary, or for gendsl the output, is opened.
Begin == /\ pc = "begin"
         /\ \/ Goto("inputs", 0) /\ files' = IF argi.cmd = "gendsl" THEN files ELSE files \cup {Def}
            \/ Goto("exit", IF argi.cmd = "gendsl" THEN 1 ELSE -1) /\ UNCHANGED files
         /\ UNCHANGED <<argi, incs, next, defs, undone, reaps, stuck, m4Vars, lost>>

\* wr_intermediary: a file that cannot be opened ends it; snarf_f never says that it failed.
Input == /\ pc = "inputs" /\ next <= Len(argi.args) /\ rc = 0
         /\ \/ /\ next' = next + 1 /\ defs' = Append(defs, argi.args[next])
               /\ lost' \in {lost, TRUE} /\ UNCHANGED rc
            \/ rc' = 1 /\ UNCHANGED <<next, defs, lost>>
         /\ UNCHANGED <<argi, incs, files, undone, reaps, stuck, m4Vars, pc>>

\* genman adds up what failed: an input counts 1, the date of today -1.
InputsRead == /\ pc = "inputs" /\ (next > Len(argi.args) \/ rc # 0)
              /\ \/ argi.cmd = "genman" /\ \E dated \in {0, -1} : Goto("includes", rc + dated)
                 \/ argi.cmd # "genman" /\ Goto("close", rc)
              /\ next' = 1 /\ undone' = (rc # 0 /\ rc' = 0)
              /\ UNCHANGED <<argi, incs, defs, files, reaps, stuck, m4Vars, lost>>

\* Variant of Ignored: the name stays.
IgnoredByName(k) == incs[k]
\* What becomes of the name of an include that is left out.
Ignored(k) == NULL

\* wr_man_includes: an include that cannot be opened, or copied, is left out.
Include ==
  /\ pc = "includes" /\ next <= Len(incs)
  /\ next' = next + 1
  /\ \/ /\ files' = files \cup {Temp[next]}
        /\ incs' = [incs EXCEPT ![next] = Temp[next]]
        /\ defs' = Append(defs, Temp[next])
     \/ /\ incs' = [incs EXCEPT ![next] = Ignored(next)]
        /\ UNCHANGED <<files, defs>>
  /\ UNCHANGED <<argi, undone, reaps, stuck, m4Vars, pc, rc, lost>>

IncludesDone == /\ pc = "includes" /\ next > Len(incs)
                /\ Goto("close", rc)
                /\ UNCHANGED <<fileVars, m4Vars, lost>>

\* The file is closed, and nobody asks whether all of it was written.
Close == /\ pc = "close"
         /\ lost' \in {lost, TRUE}
         /\ \/ argi.cmd = "gendsl" /\ Goto("exit", rc)
            \/ argi.cmd # "gendsl" /\ rc # 0 /\ Goto("remove", rc)
            \/ argi.cmd # "gendsl" /\ rc = 0 /\ (Goto("fork", 0) \/ Goto("remove", 2)) \* find_dsl, find_aux
         /\ UNCHANGED <<fileVars, m4Vars>>

-----------------------------------------------------------------------------
\* run_m4.  vfork returns when m4 is there, or could not be started.
Fork == /\ pc = "fork"
        /\ \/ /\ m4' \in {"running", "failed"}
              /\ w' = TRUE /\ pipe' = <<>> /\ sent' = 0 /\ Goto("parent", rc)
           \/ Goto("remove", -1) /\ UNCHANGED <<m4, w, pipe, sent>>
        /\ UNCHANGED <<fileVars, run, chunk, target, lost>>

\* Variant of Closed: the parent keeps its end.
ClosedNever == w
Closed == FALSE
CloseWrite == /\ pc = "parent"
              /\ w' = Closed
              /\ Goto("open", rc)
              /\ UNCHANGED <<fileVars, run, pipe, chunk, target, m4, sent, lost>>

Open == /\ pc = "open"
        /\ \/ Goto("copy", rc) /\ target' = [target EXCEPT ![run] = <<>>]
           \/ argi.output = "file" /\ Goto("remove", -1) /\ UNCHANGED target
        /\ UNCHANGED <<fileVars, run, w, pipe, chunk, m4, sent, lost>>

Read == /\ pc = "copy" /\ chunk = <<>> /\ pipe # <<>>
        /\ \E k \in 1..(IF Len(pipe) < ReadSize THEN Len(pipe) ELSE ReadSize) :
             chunk' = SubSeq(pipe, 1, k) /\ pipe' = SubSeq(pipe, k + 1, Len(pipe))
        /\ UNCHANGED <<fileVars, run, w, target, m4, sent, pc, rc, lost>>

Unmassaged(b) == CASE b = "STX" -> "[" [] b = "ETX" -> "]" [] b = "SO" -> "(" [] b = "SI" -> ")"
                   [] OTHER -> b
Plain(s) == [k \in 1..Len(s) |-> Unmassaged(s[k])]

Rest(k) == SubSeq(chunk, k + 1, Len(chunk))
\* A write takes some bytes, or none: then the rest of the chunk is forgotten.
Write == /\ pc = "copy" /\ chunk # <<>>
         /\ \/ \E k \in 1..Len(chunk) :
                 /\ target' = [target EXCEPT ![run] = @ \o Plain(SubSeq(chunk, 1, k))]
                 /\ chunk' = Rest(k)
                 /\ UNCHANGED lost
            \/ chunk' = <<>> /\ lost' = TRUE /\ UNCHANGED target
         /\ UNCHANGED <<fileVars, run, w, pipe, m4, sent, pc, rc>>

\* A read that fails ends the copying too, and the pipe stays open for m4 to fill.
ReadFails == /\ pc = "copy" /\ chunk = <<>>
             /\ lost' = TRUE
             /\ Goto("wait", rc)
             /\ UNCHANGED <<fileVars, m4Vars>>

\* read returns 0 when nobody can write to the pipe.
EndOfPipe == /\ pc = "copy" /\ chunk = <<>> /\ pipe = <<>> /\ ~w /\ m4 # "running"
             /\ Goto("wait", rc)
             /\ UNCHANGED <<fileVars, m4Vars, lost>>

\* Variant of Status: a child that was killed has no exit status, 0.
StatusKilled == IF m4 = "failed" THEN 1 ELSE 0
Status == CASE m4 = "exited" -> 0 [] m4 = "failed" -> 1 [] m4 = "killed" -> 2
\* The second run follows if the first one went well.
Wait == /\ pc = "wait" /\ m4 # "running" /\ ~reaps
        /\ IF argi.header /\ run = 1 /\ Status = 0 THEN Goto("fork", 0) /\ run' = 2
                                                   ELSE Goto("remove", Status) /\ UNCHANGED run
        /\ UNCHANGED <<fileVars, w, pipe, chunk, target, m4, sent, lost>>

\* waitpid fails when the system has reaped the child, and is called again.
WaitFails == /\ pc = "wait" /\ m4 # "running" /\ reaps
             /\ UNCHANGED vars

\* rm_includes and rm_intermediary, whose result is not looked at.
Remove ==
  /\ pc = "remove"
  /\ LET temps == {Def} \cup (Range0(incs) \ {NULL}) IN
     \E fails \in SUBSET temps :
       /\ stuck' = fails
       /\ files' = IF argi.keep THEN files ELSE files \ (temps \ fails)
  /\ Goto("exit", rc)
  /\ UNCHANGED <<argi, incs, next, defs, undone, reaps, m4Vars, lost>>

Exit == pc = "exit" /\ Goto("gone", IF rc < 0 THEN 1 ELSE rc) /\ UNCHANGED <<fileVars, m4Vars, lost>>

Parent == \/ Begin \/ Input \/ InputsRead \/ Include \/ IncludesDone \/ Close \/ Fork \/ CloseWrite
          \/ Open \/ Read \/ Write \/ EndOfPipe \/ Wait \/ WaitFails \/ Remove \/ Exit

-----------------------------------------------------------------------------
\* m4.  It writes, and is stopped by the signal when nobody can read any more.
M4Write == /\ m4 = "running" /\ sent < Len(Text[run])
           /\ IF pc = "gone" THEN m4' = "killed" /\ UNCHANGED <<pipe, sent>>
              ELSE /\ Len(pipe) < PipeSize
                   /\ pipe' = Append(pipe, Text[run][sent + 1]) /\ sent' = sent + 1
                   /\ UNCHANGED m4
           /\ UNCHANGED <<fileVars, run, w, chunk, target, pc, rc, lost>>
M4Exit == /\ m4 = "running" /\ sent = Len(Text[run])
          /\ m4' = "exited"
          /\ UNCHANGED <<fileVars, run, w, pipe, chunk, target, sent, pc, rc, lost>>
\* It may also give up, or be killed, at any time.
M4Fails == /\ m4 = "running" /\ m4' \in {"failed", "killed"}
           /\ UNCHANGED <<fileVars, run, w, pipe, chunk, target, sent, pc, rc, lost>>
Child == M4Write \/ M4Exit

\* Nobody can rely on a failure.
Next == Parent \/ Child \/ ReadFails \/ M4Fails
Spec == Init /\ [][Next]_vars
FairSpec == Spec /\ WF_vars(Parent) /\ WF_vars(Child)

-----------------------------------------------------------------------------
(* If yuck says that it went well, no read or write has failed and genman  *)
(* had the date, the output is all of what m4 makes of all inputs, header  *)
(* and code, whatever the sizes of reads and writes and whenever one of    *)
(* the two processes was stopped.                                          *)
ExitTells ==
  pc = "gone" /\ rc = 0 /\ ~lost /\ ~undone =>
    /\ SubSeq(defs, 1, Len(argi.args)) = argi.args
    /\ argi.cmd # "gendsl" =>
         \A r \in 1..(IF argi.header THEN 2 ELSE 1) : target[r] = Plain(Text[r])

(* However a call ends, the files of the user are there, and the           *)
(* intermediary files are not unless they are to be kept or cannot be      *)
(* removed.                                                                *)
NoLitter ==
  /\ UserFiles \subseteq files
  /\ pc = "gone" /\ ~argi.keep => files \subseteq UserFiles \cup stuck

\* yuck waits for an m4 that waits for it after a read has failed, or for a child without status.
Hangs == /\ pc = "wait"
         /\ \/ lost /\ m4 = "running" /\ sent < Len(Text[run]) /\ Len(pipe) >= PipeSize
            \/ reaps /\ m4 # "running"
(* yuck ends, and m4 does not stay behind: no one waits for the other      *)
(* because of a pipe that is full, or that never ends, but for the two     *)
(* ways to hang that the code has.                                         *)
Ends == <>((pc = "gone" /\ m4 # "running") \/ Hangs)
=============================================================================
